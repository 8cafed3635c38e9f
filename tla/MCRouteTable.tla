---------------------------- MODULE MCRouteTable ----------------------------
(* Two interfaces, one switch bit and one host bit, two routes on offer.   *)
EXTENDS RouteTable

MCVia(b, c) == <<[i \in BitPos |-> IF i = 2 THEN b ELSE 0],
                 [i \in BitPos |-> IF i = 2 THEN c ELSE 0]>>
MCVias == {MCVia(1, 0), MCVia(1, 1)}
MCOneVia == {MCVia(1, 0)}
=============================================================================
