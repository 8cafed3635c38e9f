------------------------------- MODULE MCVCC --------------------------------
EXTENDS VCC

\* V -- A -- B, with two interfaces on A, or V -- A alone, where the second
\* interface of A leads nowhere: it is not joined to V's.
LineSwitches == {"V", "A", "B"}
LineMacs     == {<<"V", 0>>, <<"A", 0>>, <<"A", 1>>, <<"B", 0>>}
LineLinks    == {{<<"V", 0>>, <<"A", 0>>}, {<<"A", 1>>, <<"B", 0>>}}
LineDistance == [v \in VCCs |-> [s \in LineSwitches |-> CASE s = "V" -> 0 [] s = "A" -> 1 [] s = "B" -> 2]]
PairSwitches == {"V", "A"}
PairMacs     == {<<"V", 0>>, <<"A", 0>>, <<"A", 1>>}
PairLinks    == {{<<"V", 0>>, <<"A", 0>>}}
PairDistance == [v \in VCCs |-> [s \in PairSwitches |-> IF s = "V" THEN 0 ELSE 1]]
Server0      == <<"V", 0>>
OneVCC       == {Server0}

\* No action reads vids, so states that differ in vids alone have the same
\* future; its values are those of VID packets and of ether2vid.
AllButVids == <<treevars, servervars, ltopos, vidpackets>>
=============================================================================
