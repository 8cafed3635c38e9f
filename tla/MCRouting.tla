----------------------------- MODULE MCRouting -----------------------------
EXTENDS Routing

\* VIDs are written from the least significant bit, as functions on 1 .. VidBits.
V(b, a) == [i \in BitPos |-> IF i = VidBits THEN b ELSE IF i = VidBits - 1 THEN a ELSE 0]

\* A (VID 00) -- B (VIDs 01 and 11)
TwoSwitches == {"A", "B"}
TwoMacs     == {<<"A", 0>>, <<"B", 0>>, <<"B", 1>>}
TwoLinks    == {{<<"A", 0>>, <<"B", 0>>}}
TwoVID      == [m \in TwoMacs |-> CASE m = <<"A", 0>> -> V(0, 0)
                                    [] m = <<"B", 0>> -> V(0, 1)
                                    [] m = <<"B", 1>> -> V(1, 1)]
\* A (VID 000) -- B (VIDs 001 and 110) -- C (VID 111).  Nobody has VID 100,
\* the rendezvous point of B's second interface and of C for level 3.
LineSwitches == {"A", "B", "C"}
LineMacs     == TwoMacs \cup {<<"C", 0>>}
LineLinks    == TwoLinks \cup {{<<"B", 1>>, <<"C", 0>>}}
LineVID      == [m \in LineMacs |-> CASE m = <<"A", 0>> -> <<0, 0, 0>>
                                      [] m = <<"B", 0>> -> <<1, 0, 0>>
                                      [] m = <<"B", 1>> -> <<0, 1, 1>>
                                      [] m = <<"C", 0>> -> <<1, 1, 1>>]
NoneAssignable == [m \in Macs |-> {}]

TwoAssignable  == [m \in TwoMacs |-> {TwoVID[m]}]
=============================================================================
