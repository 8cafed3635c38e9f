--------------------------- MODULE MCSpanningTree ---------------------------
EXTENDS SpanningTree

\* V -- A -- B, with two interfaces on A; V serves VIDs.
LineSwitches == {"V", "A", "B"}
OneVCC       == {<<"V", 0>>}
LineMacs     == {<<"V", 0>>, <<"A", 0>>, <<"A", 1>>, <<"B", 0>>}
LineLinks    == {{<<"V", 0>>, <<"A", 0>>}, {<<"A", 1>>, <<"B", 0>>}}
LineDistance == [v \in VCCs |-> [s \in LineSwitches |-> CASE s = "V" -> 0 [] s = "A" -> 1 [] s = "B" -> 2]]
=============================================================================
