---------------------------- MODULE RouteBuckets ----------------------------
(***************************************************************************)
(* The routing table of one switch as a value                              *)
(* (src/click-cc/veil/routetable.cc and .hh): interface index -> bucket    *)
(* number -> MaxGw slots and one expiry timer.  A bucket is created on its *)
(* first update and never removed; expiry only invalidates its slots.      *)
(***************************************************************************)
EXTENDS VID, HashTable, FiniteSets

CONSTANTS MaxGw       \* MAX_GW_PER_BUCKET

ASSUME MaxGwAssumption == MaxGw \in Nat \ {0}

Slots == 0 .. MaxGw - 1

RoutingEntry == [nexthop : VIDs, gateway : VIDs,
                 isDefault : BOOLEAN, isValid : BOOLEAN]

\* armed: the bucket's expiry timer is scheduled.
Bucket == [buckets : [Slots -> RoutingEntry], armed : BOOLEAN]

\* A bucket as updateEntry creates it: timer scheduled, no slot valid.
NewBucket ==
  [buckets |-> [j \in Slots |-> [nexthop |-> ZeroVID, gateway |-> ZeroVID,
                                 isDefault |-> FALSE, isValid |-> FALSE]],
   armed   |-> TRUE]

Route(nh, g, isDefault) ==
  [nexthop |-> nh, gateway |-> g, isDefault |-> isDefault, isValid |-> TRUE]

ValidSlots(buck) == {j \in Slots : buck.buckets[j].isValid}
FreeSlots(buck)  == Slots \ ValidSlots(buck)
LeastSlot(S)     == CHOOSE j \in S : \A i \in S : j <= i

\* A default route goes to slot 0 and purges the others, which keep their
\* contents and lose isValid; either way the timer is rescheduled.
SetDefault(buck, nh, g) ==
  [buckets |-> [j \in Slots |-> IF j = 0 THEN Route(nh, g, TRUE)
                                ELSE [buck.buckets[j] EXCEPT !.isValid = FALSE]],
   armed   |-> TRUE]

\* Mutant: adding a route does not reschedule the bucket's timer.
AddRouteNoTimer(buck, nh, g) ==
  IF FreeSlots(buck) = {} THEN buck
  ELSE [buck EXCEPT !.buckets[LeastSlot(FreeSlots(buck))] = Route(nh, g, FALSE)]

\* Another route goes to the first free slot; with none free it is dropped,
\* and the timer is left as it is.
AddRoute(buck, nh, g) ==
  IF FreeSlots(buck) = {} THEN buck
  ELSE [buckets |-> [buck.buckets EXCEPT ![LeastSlot(FreeSlots(buck))] =
                                           Route(nh, g, FALSE)],
        armed   |-> TRUE]

UpdateBucket(buck, nh, g, isDefault) ==
  IF isDefault THEN SetDefault(buck, nh, g) ELSE AddRoute(buck, nh, g)

\* The inner table of interface index n, created on demand.
Inner(routes, n) == IF n \in DOMAIN routes THEN routes[n] ELSE EmptyTable

HasBucket(routes, n, b) == n \in DOMAIN routes /\ b \in DOMAIN routes[n]

BucketAt(routes, n, b) ==
  IF HasBucket(routes, n, b) THEN routes[n][b] ELSE NewBucket

\* updateEntry(i, b, nh, g, isDefault): nothing happens when i is no longer
\* the VID of an interface.
UpdatedRoutes(routes, interfaces, i, b, nh, g, isDefault) ==
  IF i \notin DOMAIN interfaces THEN routes
  ELSE LET n == interfaces[i] IN
       Put(routes, n, Put(Inner(routes, n), b,
             UpdateBucket(BucketAt(routes, n, b), nh, g, isDefault)))

\* Mutants: only slot 0 is cleared; isDefault is not.
ExpireBucketFirst(buck) ==
  [buckets |-> [buck.buckets EXCEPT ![0].isValid = FALSE, ![0].isDefault = FALSE],
   armed   |-> FALSE]
ExpireBucketKeepDefault(buck) ==
  [buckets |-> [j \in Slots |-> [buck.buckets[j] EXCEPT !.isValid = FALSE]],
   armed   |-> FALSE]

\* expire: every slot is invalidated, the bucket and its (now idle) timer stay.
ExpireBucket(buck) ==
  [buckets |-> [j \in Slots |-> [buck.buckets[j] EXCEPT !.isValid = FALSE,
                                                        !.isDefault = FALSE]],
   armed   |-> FALSE]

\* The slots a lookup of the default route (getRoute with isDefault, and
\* getBucket) accepts; it takes the first.
DefaultSlots(buck) == {j \in ValidSlots(buck) : buck.buckets[j].isDefault}

\* Mutant: the round robin runs over all the slots.
PickAnySlot(buck, last) == (last + 1) % MaxGw

\* The other lookup is a round robin: last is what entrytouse holds for the
\* bucket number.  The slot read is the one with that very number, not the
\* one with that rank among the valid slots.
PickSlot(buck, last) == (last + 1) % Cardinality(ValidSlots(buck))

NoRoute == [found |-> FALSE, nexthop |-> ZeroVID, gateway |-> ZeroVID]

Found(entry) == [found |-> TRUE, nexthop |-> entry.nexthop, gateway |-> entry.gateway]

\* getRoute(dst, my, isDefault): what it returns.  A destination on my own
\* interface is its own next hop (the gateway is then left as the caller
\* initialised it), but only once the interface has an inner table.
RouteFor(routes, interfaces, last, dst, my, isDefault) ==
  LET b    == logical_distance(my, dst)
      n    == interfaces[my]
      buck == routes[n][b]
  IN  IF my \notin DOMAIN interfaces THEN NoRoute
      ELSE IF n \notin DOMAIN routes THEN NoRoute
      ELSE IF b <= HostBits
        THEN [found |-> TRUE, nexthop |-> my, gateway |-> ZeroVID]
      ELSE IF ~ HasBucket(routes, n, b) THEN NoRoute
      ELSE IF isDefault
        THEN IF DefaultSlots(buck) = {} THEN NoRoute
             ELSE Found(buck.buckets[LeastSlot(DefaultSlots(buck))])
      ELSE IF ValidSlots(buck) = {} THEN NoRoute
           ELSE Found(buck.buckets[PickSlot(buck, last)])

\* Mutant: the counter is stored before it is reduced.
RoundRobinUnreduced(routes, interfaces, entrytouse, dst, my) ==
  LET b == logical_distance(my, dst)
      n == interfaces[my]
      last == IF b \in DOMAIN entrytouse THEN entrytouse[b] ELSE 0
  IN  IF \/ my \notin DOMAIN interfaces
         \/ ~ HasBucket(routes, n, b)
         \/ b <= HostBits
        THEN entrytouse
      ELSE Put(entrytouse, b, last + 1)

\* getRoute also advances entrytouse, which is indexed by bucket number only
\* and so shared by the interfaces.
RoundRobinAdvance(routes, interfaces, entrytouse, dst, my) ==
  LET b == logical_distance(my, dst)
      n == interfaces[my]
      last == IF b \in DOMAIN entrytouse THEN entrytouse[b] ELSE 0
  IN  IF \/ my \notin DOMAIN interfaces
         \/ ~ HasBucket(routes, interfaces[my], b)
         \/ b <= HostBits
        THEN entrytouse
      ELSE IF ValidSlots(routes[n][b]) = {} THEN Put(entrytouse, b, last)
      ELSE Put(entrytouse, b, PickSlot(routes[n][b], last))

=============================================================================
