---------------------------- MODULE MCAccessInfo ----------------------------
EXTENDS AccessInfo

\* h moves between an interface of A and one of B and talks with p, which
\* stays at another interface of A.  B is h's access switch, A is p's.
MCSwitchOf == [i \in {"a1", "a2", "b1"} |-> IF i = "b1" THEN "B" ELSE "A"]
MCPlaces   == [ip \in {"h", "p"} |-> IF ip = "h" THEN {"a2", "b1"} ELSE {"a1"}]
MCTalks    == {<<"p", "h">>}
MCAccessOf == [ip \in {"h", "p"} |-> IF ip = "h" THEN "B" ELSE "A"]
=============================================================================
