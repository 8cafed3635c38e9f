----------------------------- MODULE JavaTables -----------------------------
(***************************************************************************)
(* The tables of one switch of the Java simulator (src/sim-java), as       *)
(* values: the routing table (RTable.java, RTEntry.java) and the edges a   *)
(* rendezvous switch stores (RdvTable.java, RdvEdge.java).  Both are       *)
(* ArrayLists, and the order of their elements matters: the first entry of *)
(* a bucket gives the next hop, and what an interrupted iteration leaves   *)
(* depends on where it stopped.  All methods are synchronized on the       *)
(* table, so each is one operator.                                         *)
(*                                                                         *)
(* A switch has one VID, its name; a time stamp is abstracted to the       *)
(* number of checks of the table it has survived.                          *)
(***************************************************************************)
EXTENDS VID, FiniteSets, SequencesExt

CONSTANTS MaxPerBucket,   \* 3: numofEntryPerBucket counts up to it
          MaxGateways     \* 3: gateways in a reply, 96 bits of VIDs

ASSUME JavaTablesAssumption == MaxPerBucket \in Nat /\ MaxGateways \in Nat

Least(S) == CHOOSE i \in S : \A j \in S : i <= j

-----------------------------------------------------------------------------
(* VIDs: strings of K characters compared from the left.                   *)

vidDist(s, t) == logical_distance(s, t)

\* The rendezvous switches of me for bucket k: its prefix followed by zeros,
\* and the backup, the prefix followed by a one and zeros (only used for
\* k > 1: at level 1 the first is me).
PrimaryRdv(me, k) == calculate_rdv_point(me, k)
BackupRdv(me, k)  == [i \in BitPos |-> IF i >= k THEN me[i] ELSE IF i = k - 1 THEN 1 ELSE 0]

\* A query carries its bucket as a binary number; the handlers print the
\* bytes in hexadecimal and read the digits as a decimal number, which
\* throws NumberFormatException when one of them is a letter.
Readable(k)  == k % 16 <= 9
LevelRead(k) == (10 * (k \div 16)) + (k % 16)

-----------------------------------------------------------------------------
(* RTable.                                                                 *)

Entry(k, nh, g) == [bucket |-> k, nexthop |-> nh, gateway |-> g, age |-> 0]

SameEntry(e, f) == e.bucket = f.bucket /\ e.nexthop = f.nexthop /\ e.gateway = f.gateway

InBucket(t, k) == {i \in DOMAIN t : t[i].bucket = k}

\* An entry that is there is refreshed, one for a full bucket is not taken,
\* another goes before the first entry of a higher bucket.
addEntry(t, e) ==
  LET same  == {i \in DOMAIN t : SameEntry(t[i], e)}
      after == {i \in DOMAIN t : e.bucket < t[i].bucket}
  IN  IF same # {} THEN [t EXCEPT ![Least(same)].age = 0]
      ELSE IF Cardinality(InBucket(t, e.bucket)) >= MaxPerBucket THEN t
      ELSE InsertAt(t, IF after = {} THEN Len(t) + 1 ELSE Least(after), e)

\* delEntry(nexthop) removes entries through the list while an iterator
\* walks it.  Only the first match is ever removed: the next call of the
\* iterator throws ConcurrentModificationException, unless the match was
\* last but one, where hasNext() takes the walk for finished.
MatchesHop(t, nh) == {i \in DOMAIN t : t[i].nexthop = nh}
delEntry(t, nh)  == IF MatchesHop(t, nh) = {} THEN t ELSE RemoveAt(t, Least(MatchesHop(t, nh)))
delThrows(t, nh) == MatchesHop(t, nh) # {} /\ Least(MatchesHop(t, nh)) # Len(t) - 1

\* The entries entryLookup may return (none: null): the first one of which
\* the switch itself is the gateway, else any of the bucket.
entryLookup(t, me, k) ==
  LET own == {i \in InBucket(t, k) : t[i].gateway = me}
  IN  IF own # {} THEN {t[Least(own)]} ELSE {t[i] : i \in InBucket(t, k)}

\* The loop of updateRTEntry and of the handlers of queries and replies.
FirstHop(t, k) == t[Least(InBucket(t, k))].nexthop

-----------------------------------------------------------------------------
(* RdvTable.                                                               *)

RdvEntry(a, b) == [src |-> a, dst |-> b, fresh |-> TRUE]

SameEdge(e, f) == (e.src = f.src /\ e.dst = f.dst) \/ (e.src = f.dst /\ e.dst = f.src)

MatchesEdge(r, a, b) == {i \in DOMAIN r : SameEdge(r[i], [src |-> a, dst |-> b])}

addEdge(r, a, b) ==
  IF MatchesEdge(r, a, b) # {} THEN [r EXCEPT ![Least(MatchesEdge(r, a, b))].fresh = TRUE]
  ELSE Append(r, RdvEntry(a, b))

delEdge(r, a, b) ==
  IF MatchesEdge(r, a, b) = {} THEN r ELSE RemoveAt(r, Least(MatchesEdge(r, a, b)))

\* Mutant: the near end has to be nearer than the subtree allows.
CrossesNear(host, k, a, b) == vidDist(host, a) < k - 1 /\ vidDist(host, b) = k

\* a is in the subtree of host below level k and b is at level k.
Crosses(host, k, a, b) == vidDist(host, a) <= k - 1 /\ vidDist(host, b) = k

\* The gateways findEntry lists for host at level k: one for every edge that
\* crosses, the first MaxGateways of them being looked at.  A list is a set of
\* pairs <<place, gateway>>, in the order of the places.
Leads(r, host, k) ==
  {i \in DOMAIN r : Crosses(host, k, r[i].src, r[i].dst) \/ Crosses(host, k, r[i].dst, r[i].src)}
findEntry(r, host, k) ==
  {<<i, IF Crosses(host, k, r[i].src, r[i].dst) THEN r[i].src ELSE r[i].dst>> :
     i \in {i \in Leads(r, host, k) : Cardinality({j \in Leads(r, host, k) : j < i}) < MaxGateways}}

FirstGateway(gws) == CHOOSE g \in gws : \A h \in gws : g[1] <= h[1]

=============================================================================
