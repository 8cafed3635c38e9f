---------------------------- MODULE MCJavaSwitch ----------------------------
(***************************************************************************)
(* JavaSwitch for TLC.  VIDs are written with bit 1, the least significant *)
(* one, first.  The line 0100 - 0101 - 0110 - 0000 has links at levels 1,  *)
(* 2 and 3 and none at level 4, so that rendezvous switches are up to      *)
(* three hops away and there are some nobody is; the line 00 - 01 - 10 is  *)
(* small enough for liveness.                                              *)
(***************************************************************************)
EXTENDS JavaSwitch

S0000 == <<0, 0, 0, 0>>
S0100 == <<0, 0, 1, 0>>
S0101 == <<1, 0, 1, 0>>
S0110 == <<0, 1, 1, 0>>

MCSwitches == {S0000, S0100, S0101, S0110}
MCAdjacent == (S0100 :> <<S0101>>) @@ (S0101 :> <<S0100, S0110>>)
                @@ (S0110 :> <<S0101, S0000>>) @@ (S0000 :> <<S0110>>)
NoneLate == {{}}
MCFlows == {<<S0100, S0000>>}

S00 == <<0, 0>>
S01 == <<1, 0>>
S10 == <<0, 1>>

ShortSwitches == {S00, S01, S10}
ShortAdjacent == (S00 :> <<S01>>) @@ (S01 :> <<S00, S10>>) @@ (S10 :> <<S01>>)
NoFlows == {}
ShortLate == {{}, {S00}, {S01}}

=============================================================================
