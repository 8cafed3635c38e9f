-------------------------- MODULE RouteTableProofs --------------------------
(***************************************************************************)
(* The routing table keeps its shape, for any number of interfaces, bits   *)
(* and slots.  The inductive invariant is a statement about each bucket    *)
(* on its own (BucketOK); the three operations that make or change a       *)
(* bucket preserve it, and the tables around the buckets only carry it.    *)
(***************************************************************************)
EXTENDS RouteTable, FiniteSetTheorems, WellFoundedInduction, TLAPS

PrefixOK(buck)  == \A i, j \in Slots :
                     i < j /\ buck.buckets[j].isValid => buck.buckets[i].isValid
DefaultOK(buck) == \A j \in Slots :
                     buck.buckets[j].isDefault => j = 0 /\ buck.buckets[j].isValid
ArmedOK(buck)   == ValidSlots(buck) # {} => buck.armed
BucketOK(buck)  == buck \in Bucket /\ PrefixOK(buck) /\ DefaultOK(buck) /\ ArmedOK(buck)

\* The inductive invariant.
IInv == /\ TypeOK
        /\ \A n \in DOMAIN routes : \A b \in DOMAIN routes[n] : BucketOK(routes[n][b])

-----------------------------------------------------------------------------
(* Lemmas on sets of slots.                                                *)

LEMMA LeastExists ==
  ASSUME NEW S \in SUBSET Nat, S # {}
  PROVE  \E k \in S : \A i \in S : k <= i
<1>1. PICK m \in S : \A y \in S : ~ (<<y, m>> \in OpToRel(<, Nat))
  BY NatLessThanWellFounded, WFMin
<1>2. ASSUME NEW y \in S PROVE m <= y
  <2>1. ~ (y < m)
    BY <1>1 DEF OpToRel
  <2> QED BY <2>1
<1> QED BY <1>2

\* LeastSlot picks the first of a nonempty set of slots.
LEMMA LeastSlotSpec ==
  ASSUME NEW S \in SUBSET Slots, S # {}
  PROVE  LeastSlot(S) \in S /\ \A i \in S : LeastSlot(S) <= i
<1>1. S \in SUBSET Nat
  BY MaxGwAssumption DEF Slots
<1>2. \E k \in S : \A i \in S : k <= i
  BY <1>1, LeastExists
<1> QED BY <1>2 DEF LeastSlot

\* When the valid slots come first they are the slots below their number.
LEMMA PrefixCount ==
  ASSUME NEW buck, PrefixOK(buck), ValidSlots(buck) # {}
  PROVE  \E c \in 1 .. MaxGw : /\ ValidSlots(buck) = 0 .. c - 1
                               /\ Cardinality(ValidSlots(buck)) = c
<1> DEFINE V == ValidSlots(buck)
           T == {i \in 1 .. MaxGw : \A j \in V : j < i}
<1>1. V \subseteq Slots /\ Slots \subseteq Nat
  BY MaxGwAssumption DEF ValidSlots, Slots
<1>a. \A j \in V : j \in Nat
  BY <1>1
<1>2. MaxGw \in T
  BY <1>1, MaxGwAssumption DEF Slots
<1>3. T \in SUBSET Nat
  BY MaxGwAssumption
<1> HIDE DEF T, V
<1>4. PICK c \in T : \A i \in T : c <= i
  BY <1>2, <1>3, LeastExists
<1>5. c \in 1 .. MaxGw /\ \A j \in V : j < c
  BY <1>4 DEF T
<1>6. c - 1 \in V
  <2>1. CASE c = 1
    <3>1. PICK j \in V : TRUE
      BY DEF V
    <3>2. j = 0
      BY <3>1, <2>1, <1>5, <1>a
    <3> QED BY <3>1, <3>2, <2>1
  <2>2. CASE c # 1
    <3>1. c - 1 \in 1 .. MaxGw /\ ~ (c <= c - 1)
      BY <2>2, <1>5, MaxGwAssumption
    <3>2. c - 1 \notin T
      BY <3>1, <1>4
    <3>3. PICK j \in V : ~ (j < c - 1)
      BY <3>1, <3>2 DEF T
    <3>4. j = c - 1
      BY <3>3, <1>5, <1>a, MaxGwAssumption
    <3> QED BY <3>4
  <2> QED BY <2>1, <2>2
<1>7. V = 0 .. c - 1
  <2>1. V \subseteq 0 .. c - 1
    BY <1>a, <1>5, MaxGwAssumption
  <2>2. ASSUME NEW i \in 0 .. c - 1 PROVE i \in V
    <3>1. i \in Slots /\ c - 1 \in Slots
      BY <1>5, MaxGwAssumption DEF Slots
    <3>2. CASE i = c - 1
      BY <3>2, <1>6
    <3>3. CASE i < c - 1
      BY <3>1, <3>3, <1>6 DEF PrefixOK, ValidSlots, V
    <3> QED BY <3>2, <3>3, <1>5, MaxGwAssumption
  <2> QED BY <2>1, <2>2
<1>8. Cardinality(0 .. c - 1) = c
  <2>1. c \in Nat /\ c >= 1
    BY <1>5, MaxGwAssumption
  <2>2. Cardinality(0 .. c - 1) = IF 0 > c - 1 THEN 0 ELSE (c - 1) - 0 + 1
    BY <2>1, FS_Interval
  <2> QED BY <2>1, <2>2
<1> QED BY <1>5, <1>7, <1>8 DEF V

-----------------------------------------------------------------------------
(* The operations on one bucket.                                           *)

LEMMA NewBucketOK == BucketOK(NewBucket)
<1>1. ZeroVID \in VIDs
  BY DEF ZeroVID, VIDs
<1>2. NewBucket \in Bucket
  BY <1>1 DEF NewBucket, Bucket, RoutingEntry
<1>3. \A j \in Slots : /\ NewBucket.buckets[j].isValid = FALSE
                       /\ NewBucket.buckets[j].isDefault = FALSE
  BY DEF NewBucket
<1> QED BY <1>2, <1>3 DEF BucketOK, PrefixOK, DefaultOK, ArmedOK, ValidSlots

LEMMA SetDefaultOK ==
  ASSUME NEW buck, BucketOK(buck), NEW nh \in VIDs, NEW g \in VIDs
  PROVE  BucketOK(SetDefault(buck, nh, g))
<1> DEFINE new == SetDefault(buck, nh, g)
<1>0. buck \in Bucket /\ DefaultOK(buck)
  BY DEF BucketOK
<1>1. new \in Bucket
  BY <1>0 DEF SetDefault, Bucket, RoutingEntry, Route
<1>2. \A j \in Slots : j # 0 => /\ new.buckets[j].isValid = FALSE
                                /\ new.buckets[j].isDefault = buck.buckets[j].isDefault
  BY <1>0 DEF SetDefault, Bucket, RoutingEntry
<1>3. 0 \in Slots /\ new.buckets[0].isValid /\ new.armed
  BY MaxGwAssumption DEF SetDefault, Route, Slots
<1> HIDE DEF new
<1>4. PrefixOK(new)
  <2> SUFFICES ASSUME NEW i \in Slots, NEW j \in Slots, i < j, new.buckets[j].isValid
               PROVE  new.buckets[i].isValid
    BY DEF PrefixOK
  <2>1. j # 0
    BY MaxGwAssumption DEF Slots
  <2> QED BY <2>1, <1>2
<1>5. DefaultOK(new)
  BY <1>0, <1>2, <1>3 DEF DefaultOK
<1> QED BY <1>1, <1>3, <1>4, <1>5 DEF BucketOK, ArmedOK, new

LEMMA AddRouteOK ==
  ASSUME NEW buck, BucketOK(buck), NEW nh \in VIDs, NEW g \in VIDs
  PROVE  BucketOK(AddRoute(buck, nh, g))
<1> DEFINE new == AddRoute(buck, nh, g)
           f == LeastSlot(FreeSlots(buck))
<1>0. buck \in Bucket /\ PrefixOK(buck) /\ DefaultOK(buck)
  BY DEF BucketOK
<1>1. CASE FreeSlots(buck) = {}
  BY <1>1 DEF AddRoute
<1>2. CASE FreeSlots(buck) # {}
  <2>1. f \in Slots /\ f \in FreeSlots(buck) /\ \A i \in FreeSlots(buck) : f <= i
    BY <1>2, LeastSlotSpec DEF FreeSlots
  <2>2. new = [buckets |-> [buck.buckets EXCEPT ![f] = Route(nh, g, FALSE)],
               armed |-> TRUE]
    BY <1>2 DEF AddRoute
  <2> HIDE DEF f, new
  <2>3. Route(nh, g, FALSE) \in RoutingEntry
    BY DEF Route, RoutingEntry
  <2>4. new \in Bucket /\ new.armed
    BY <1>0, <2>1, <2>2, <2>3 DEF Bucket
  <2>5. /\ new.buckets[f].isValid /\ ~ new.buckets[f].isDefault
        /\ \A j \in Slots : j # f => new.buckets[j] = buck.buckets[j]
    BY <1>0, <2>1, <2>2 DEF Bucket, Route
  <2>6. \A i \in Slots : i < f => buck.buckets[i].isValid
    <3> SUFFICES ASSUME NEW i \in Slots, i < f, ~ buck.buckets[i].isValid PROVE FALSE
      OBVIOUS
    <3>1. i \in FreeSlots(buck)
      BY DEF FreeSlots, ValidSlots
    <3> QED BY <3>1, <2>1, MaxGwAssumption DEF Slots
  <2>7. ~ buck.buckets[f].isValid
    BY <2>1 DEF FreeSlots, ValidSlots
  <2>8. PrefixOK(new)
    <3> SUFFICES ASSUME NEW i \in Slots, NEW j \in Slots, i < j, new.buckets[j].isValid
                 PROVE  new.buckets[i].isValid
      BY DEF PrefixOK
    <3>1. CASE i = f
      BY <3>1, <2>5
    <3>2. CASE i # f /\ j = f
      BY <3>2, <2>5, <2>6
    <3>3. CASE i # f /\ j # f
      BY <3>3, <2>5, <1>0 DEF PrefixOK
    <3> QED BY <3>1, <3>2, <3>3
  <2>9. DefaultOK(new)
    BY <2>5, <1>0 DEF DefaultOK
  <2> QED BY <2>4, <2>8, <2>9 DEF BucketOK, ArmedOK, new
<1> QED BY <1>1, <1>2

LEMMA ExpireBucketOK ==
  ASSUME NEW buck, BucketOK(buck)
  PROVE  BucketOK(ExpireBucket(buck))
<1> DEFINE new == ExpireBucket(buck)
<1>0. buck \in Bucket
  BY DEF BucketOK
<1>1. new \in Bucket
  BY <1>0 DEF ExpireBucket, Bucket, RoutingEntry
<1>2. \A j \in Slots : new.buckets[j].isValid = FALSE /\ new.buckets[j].isDefault = FALSE
  BY <1>0 DEF ExpireBucket, Bucket, RoutingEntry
<1> QED BY <1>1, <1>2 DEF BucketOK, PrefixOK, DefaultOK, ArmedOK, ValidSlots

-----------------------------------------------------------------------------
\* Storing a bucket in its table keeps the invariant of the tables.
LEMMA StoreBucket ==
  ASSUME IInv, NEW n \in Ports, NEW b \in BucketNos, NEW buck, BucketOK(buck),
         routes' = Put(routes, n, Put(Inner(routes, n), b, buck)),
         UNCHANGED <<interfaces, entrytouse>>
  PROVE  IInv'
<1> DEFINE inner == Put(Inner(routes, n), b, buck)
<1>1. IsTable(Inner(routes, n), BucketNos, Bucket)
  BY DEF Inner, IsTable, EmptyTable, IInv, TypeOK
<1>2. \A c \in DOMAIN Inner(routes, n) : BucketOK(Inner(routes, n)[c])
  BY DEF Inner, EmptyTable, IInv
<1>3. /\ IsTable(inner, BucketNos, Bucket)
      /\ \A c \in DOMAIN inner : BucketOK(inner[c])
  BY <1>1, <1>2 DEF Put, IsTable, BucketOK
<1> HIDE DEF inner
<1>4. /\ DOMAIN routes' = DOMAIN routes \cup {n}
      /\ routes' = [m \in DOMAIN routes' |-> routes'[m]]
      /\ \A m \in DOMAIN routes' : routes'[m] = IF m = n THEN inner ELSE routes[m]
  BY DEF Put, inner
<1>5. /\ DOMAIN routes' \subseteq Ports
      /\ \A m \in DOMAIN routes' : IsTable(routes'[m], BucketNos, Bucket)
  BY <1>3, <1>4 DEF IInv, TypeOK
<1>6. \A m \in DOMAIN routes' : \A c \in DOMAIN routes'[m] : BucketOK(routes'[m][c])
  BY <1>3, <1>4 DEF IInv
<1> QED BY <1>4, <1>5, <1>6 DEF IInv, TypeOK

LEMMA InitIInv == Init => IInv
BY DEF Init, IInv, TypeOK, IsTable, EmptyTable

LEMMA NextIInv == IInv /\ [Next]_vars => IInv'
<1> SUFFICES ASSUME IInv, [Next]_vars PROVE IInv'
  OBVIOUS
<1>0. TypeOK
  BY DEF IInv
<1>1. ASSUME NEW n \in Ports, NEW v \in SwitchVIDs, processSwitchVID(n, v)
      PROVE  IInv'
  <2>1. v \in VIDs
    BY DEF SwitchVIDs, getSwitchVID, VIDs
  <2>2. IsTable(interfaces', VIDs, Ports)
    BY <1>0, <1>1, <2>1 DEF processSwitchVID, AssignedVID, IsTable, TypeOK
  <2> QED BY <1>1, <2>2 DEF processSwitchVID, IInv, TypeOK
<1>2. ASSUME NEW i \in SwitchVIDs, NEW b \in BucketNos, NEW via \in Vias,
             NEW d \in BOOLEAN, updateEntry(i, b, via, d)
      PROVE  IInv'
  <2>1. CASE i \notin DOMAIN interfaces
    BY <1>2, <2>1 DEF updateEntry, UpdatedRoutes, IInv, TypeOK
  <2>2. CASE i \in DOMAIN interfaces
    <3> DEFINE n == interfaces[i]
               buck == UpdateBucket(BucketAt(routes, n, b), via[1], via[2], d)
    <3>1. n \in Ports
      BY <1>0, <2>2 DEF TypeOK, IsTable
    <3>2. BucketOK(BucketAt(routes, n, b))
      BY NewBucketOK DEF BucketAt, HasBucket, IInv
    <3>3. via[1] \in VIDs /\ via[2] \in VIDs
      BY ViasAssumption
    <3>4. BucketOK(buck)
      BY <3>2, <3>3, SetDefaultOK, AddRouteOK DEF UpdateBucket
    <3>5. routes' = Put(routes, n, Put(Inner(routes, n), b, buck))
      BY <1>2, <2>2 DEF updateEntry, UpdatedRoutes
    <3>6. UNCHANGED <<interfaces, entrytouse>>
      BY <1>2 DEF updateEntry
    <3> HIDE DEF n, buck
    <3> QED BY <3>1, <3>4, <3>5, <3>6, StoreBucket
  <2> QED BY <2>1, <2>2
<1>3. ASSUME NEW dst \in VIDs, NEW my \in SwitchVIDs, getRoute(dst, my)
      PROVE  IInv'
  <2> DEFINE b == logical_distance(my, dst)
             n == interfaces[my]
             last == IF b \in DOMAIN entrytouse THEN entrytouse[b] ELSE 0
  <2>0. UNCHANGED <<interfaces, routes>>
    BY <1>3 DEF getRoute
  <2>1. IsTable(entrytouse', BucketNos, Slots)
    <3>1. CASE entrytouse' = entrytouse
      BY <3>1, <1>0 DEF TypeOK
    <3>2. CASE entrytouse' # entrytouse
      <4>1. /\ HasBucket(routes, n, b)
            /\ entrytouse' = Put(entrytouse, b,
                 IF ValidSlots(routes[n][b]) = {} THEN last
                 ELSE PickSlot(routes[n][b], last))
        BY <1>3, <3>2 DEF getRoute, RoundRobinAdvance
      <4> HIDE DEF b, n
      <4>2. b \in BucketNos /\ BucketOK(routes[n][b])
        BY <4>1, <1>0 DEF HasBucket, IInv, TypeOK, IsTable
      <4>3. last \in Slots
        BY <4>2, <1>0, MaxGwAssumption DEF TypeOK, IsTable, Slots
      <4>4. ASSUME ValidSlots(routes[n][b]) # {}
            PROVE  PickSlot(routes[n][b], last) \in Slots
        <5>1. PICK c \in 1 .. MaxGw : Cardinality(ValidSlots(routes[n][b])) = c
          BY <4>2, <4>4, PrefixCount DEF BucketOK
        <5>2. PickSlot(routes[n][b], last) = (last + 1) % c
          BY <5>1 DEF PickSlot
        <5> HIDE DEF last
        <5> QED BY <5>1, <5>2, <4>3, MaxGwAssumption DEF Slots
      <4> QED BY <4>1, <4>2, <4>3, <4>4, <1>0 DEF Put, IsTable, TypeOK
    <3> QED BY <3>1, <3>2
  <2> QED BY <2>0, <2>1 DEF IInv, TypeOK
<1>4. ASSUME NEW n \in Ports, NEW b \in BucketNos, expire(n, b)
      PROVE  IInv'
  <2>1. HasBucket(routes, n, b)
    BY <1>4 DEF expire
  <2>2. BucketOK(routes[n][b])
    BY <2>1 DEF HasBucket, IInv
  <2>3. BucketOK(ExpireBucket(routes[n][b]))
    BY <2>2, ExpireBucketOK
  <2>4. routes' = Put(routes, n, Put(Inner(routes, n), b, ExpireBucket(routes[n][b])))
    <3>1. /\ routes = [m \in DOMAIN routes |-> routes[m]]
          /\ routes[n] \in [DOMAIN routes[n] -> Bucket]
      BY <2>1, <1>0 DEF HasBucket, TypeOK, IsTable
    <3>2. Inner(routes, n) = routes[n]
      BY <2>1 DEF Inner, HasBucket
    <3>3. [routes[n] EXCEPT ![b] = ExpireBucket(@)]
            = Put(routes[n], b, ExpireBucket(routes[n][b]))
      BY <3>1, <2>1 DEF Put, HasBucket
    <3>4. [routes EXCEPT ![n] = Put(routes[n], b, ExpireBucket(routes[n][b]))]
            = Put(routes, n, Put(routes[n], b, ExpireBucket(routes[n][b])))
      BY <3>1, <2>1 DEF Put, HasBucket
    <3>5. routes' = [routes EXCEPT ![n] = [routes[n] EXCEPT ![b] = ExpireBucket(@)]]
      BY <1>4 DEF expire
    <3> QED BY <3>2, <3>3, <3>4, <3>5
  <2>5. UNCHANGED <<interfaces, entrytouse>>
    BY <1>4 DEF expire
  <2> QED BY <2>3, <2>4, <2>5, StoreBucket
<1>5. CASE UNCHANGED vars
  BY <1>5 DEF vars, IInv, TypeOK
<1> QED BY <1>1, <1>2, <1>3, <1>4, <1>5 DEF Next

LEMMA SpecIInv == Spec => []IInv
BY InitIInv, NextIInv, PTL DEF Spec

-----------------------------------------------------------------------------
\* The tables stay well typed under any sequence of updates, lookups,
\* expiries and renumberings; in particular entrytouse stays a slot number.
THEOREM TypeCorrect == Spec => []TypeOK
<1>1. IInv => TypeOK
  BY DEF IInv
<1> QED BY <1>1, SpecIInv, PTL

\* The valid slots of every bucket come first (what getRoute relies on).
THEOREM ValidPrefixHolds == Spec => []ValidPrefix
<1>1. IInv => ValidPrefix
  BY DEF IInv, ValidPrefix, EachBucket, BucketOK, PrefixOK
<1> QED BY <1>1, SpecIInv, PTL

\* The round robin of getRoute never returns an invalid slot.
THEOREM RoundRobinSound == Spec => []RoundRobinReturnsValid
<1>1. ASSUME NEW buck, BucketOK(buck), ValidSlots(buck) # {}, NEW last \in Slots
      PROVE  buck.buckets[PickSlot(buck, last)].isValid
  <2>1. PICK c \in 1 .. MaxGw : /\ ValidSlots(buck) = 0 .. c - 1
                                /\ Cardinality(ValidSlots(buck)) = c
    BY <1>1, PrefixCount DEF BucketOK
  <2>2. PickSlot(buck, last) = (last + 1) % c
    BY <2>1 DEF PickSlot
  <2>3. (last + 1) % c \in 0 .. c - 1
    BY MaxGwAssumption DEF Slots
  <2> QED BY <2>1, <2>2, <2>3 DEF ValidSlots
<1>2. IInv => RoundRobinReturnsValid
  BY <1>1 DEF IInv, RoundRobinReturnsValid, EachBucket
<1> QED BY <1>2, SpecIInv, PTL

\* A default route is the one in slot 0, and is valid.
THEOREM DefaultFirst == Spec => []DefaultIsFirst
<1>1. IInv => DefaultIsFirst
  BY DEF IInv, DefaultIsFirst, EachBucket, BucketOK, DefaultOK
<1> QED BY <1>1, SpecIInv, PTL

\* A bucket with a valid route has its expiry timer running.
THEOREM ValidRoutesExpire == Spec => []ValidArmed
<1>1. IInv => ValidArmed
  BY DEF IInv, ValidArmed, EachBucket, BucketOK, ArmedOK
<1> QED BY <1>1, SpecIInv, PTL
=============================================================================
