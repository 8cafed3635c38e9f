--------------------------- MODULE RoutingProofs ---------------------------
(***************************************************************************)
(* Theorems about the switches' tables.  They are about what is in the     *)
(* tables, in the frames under way and in the rest of the running handler: *)
(* it is well typed, and an assigned VID leads to its interface until it   *)
(* is given to another one, whatever is lost, forgotten or renumbered; and *)
(* while the VIDs do not change, routes lead to their levels, by gateways  *)
(* that reach them, and frames never move away from where they are going.  *)
(***************************************************************************)
EXTENDS Routing, VIDProofs, FiniteSetTheorems

LEMMA IndexIsInterface ==
  \A s \in Switches : \A n \in Indices(s) : <<s, n>> \in Macs
  BY RoutingAssumption DEF Indices

LEMMA InterfaceHasIndex ==
  \A m \in Macs : m[1] \in Switches /\ m[2] \in Indices(m[1]) /\ m = <<m[1], m[2]>>
  BY RoutingAssumption DEF Indices

-----------------------------------------------------------------------------
(* VIDs and distances.                                                     *)

Levels == HostBits + 1 .. VidBits

LEMMA Dist ==
  ASSUME NEW a \in VIDs, NEW b \in VIDs
  PROVE  /\ logical_distance(a, b) \in Nat /\ logical_distance(a, b) <= VidBits
         /\ logical_distance(a, b) = 0 <=> a = b
         /\ logical_distance(a, b) = logical_distance(b, a)
BY DistanceSpec, DistanceSymmetric, WidthAssumption

\* Of three distances the third is at most the larger of the two others.
LEMMA Detour ==
  ASSUME NEW a \in VIDs, NEW b \in VIDs, NEW c \in VIDs
  PROVE  \/ logical_distance(a, c) <= logical_distance(a, b)
         \/ logical_distance(a, c) <= logical_distance(b, c)
<1> SUFFICES ASSUME logical_distance(a, b) < logical_distance(a, c),
                    logical_distance(b, c) < logical_distance(a, c)
             PROVE  FALSE
  BY Dist
<1>1. logical_distance(a, c) \in BitPos
  BY Dist, WidthAssumption DEF BitPos
<1>2. logical_distance(a, c) < logical_distance(a, c)
  BY <1>1, DistanceUltrametric
<1> QED BY <1>2, Dist

\* Two VIDs at the same distance from a third are closer to each other.
LEMMA SameLevel ==
  ASSUME NEW a \in VIDs, NEW b \in VIDs, NEW c \in VIDs,
         logical_distance(a, b) = logical_distance(a, c), a # b
  PROVE  logical_distance(b, c) < logical_distance(a, c)
<1> DEFINE k == logical_distance(a, c)
<1>1. k \in BitPos /\ a[k] # b[k] /\ a[k] # c[k]
      /\ \A i \in BitPos : i > k => a[i] = b[i] /\ a[i] = c[i]
  BY DistanceSpec, WidthAssumption DEF BitPos
<1> HIDE DEF k
<1>2. b[k] = c[k]
  BY <1>1 DEF VIDs
<1>3. \A i \in BitPos : i >= k => b[i] = c[i]
  BY <1>1, <1>2, WidthAssumption DEF BitPos
<1>4. logical_distance(b, c) < k
  BY <1>1, <1>3, DistanceBelow
<1> QED BY <1>4 DEF k

\* Of three distances the two largest are equal.
LEMMA Isosceles ==
  ASSUME NEW a \in VIDs, NEW b \in VIDs, NEW c \in VIDs,
         logical_distance(a, b) < logical_distance(b, c)
  PROVE  logical_distance(a, c) = logical_distance(b, c)
<1> DEFINE ab == logical_distance(a, b)
           bc == logical_distance(b, c)
           ac == logical_distance(a, c)
<1>1. ab \in Nat /\ bc \in Nat /\ ac \in Nat /\ logical_distance(b, a) = ab
  BY Dist
<1>2. ac <= ab \/ ac <= bc
  BY Detour
<1>3. bc <= ab \/ bc <= ac
  BY <1>1, Detour
<1> HIDE DEF ab, bc, ac
<1>4. ac = bc
  BY <1>1, <1>2, <1>3 DEF ab, bc
<1> QED BY <1>4 DEF ac, bc

\* Who moves towards t, on the near side of f, stays as far from f.
LEMMA NearSide ==
  ASSUME NEW a \in VIDs, NEW b \in VIDs, NEW t \in VIDs, NEW f \in VIDs,
         logical_distance(a, t) < logical_distance(a, f),
         logical_distance(b, t) <= logical_distance(a, t)
  PROVE  /\ logical_distance(t, f) = logical_distance(a, f)
         /\ logical_distance(b, f) = logical_distance(a, f)
         /\ logical_distance(b, t) < logical_distance(b, f)
<1> DEFINE at == logical_distance(a, t)
           af == logical_distance(a, f)
           bt == logical_distance(b, t)
<1>1. at \in Nat /\ af \in Nat /\ bt \in Nat /\ logical_distance(t, a) = at
  BY Dist
<1>2. logical_distance(t, f) = af
  BY <1>1, Isosceles
<1>3. bt < logical_distance(t, f)
  <2> HIDE DEF at, af, bt
  <2> QED BY <1>1, <1>2 DEF at, af, bt
<1>4. logical_distance(b, f) = logical_distance(t, f)
  BY <1>3, Isosceles
<1> QED BY <1>2, <1>3, <1>4

LEMMA SwitchVID ==
  /\ SwitchVIDs \subseteq VIDs
  /\ ZeroVID \in SwitchVIDs
  /\ \A a \in VIDs : getSwitchVID(a) \in SwitchVIDs
  /\ \A a \in SwitchVIDs : getSwitchVID(a) = a
BY DEF SwitchVIDs, getSwitchVID, VIDs, ZeroVID

\* The VID of an interface and that of a host on it are near each other.
LEMMA HostNearSwitch ==
  ASSUME NEW a \in VIDs
  PROVE  logical_distance(getSwitchVID(a), a) <= HostBits
<1>1. getSwitchVID(a) \in VIDs
  BY SwitchVID
<1>2. \A i \in BitPos : i > HostBits => getSwitchVID(a)[i] = a[i]
  BY WidthAssumption DEF getSwitchVID, BitPos
<1>3. CASE HostBits = VidBits
  BY <1>1, <1>3, Dist
<1>4. CASE HostBits # VidBits
  <2>1. HostBits + 1 \in BitPos
    BY <1>4, WidthAssumption DEF BitPos
  <2>2. \A i \in BitPos : i >= HostBits + 1 => getSwitchVID(a)[i] = a[i]
    BY <1>2, WidthAssumption DEF BitPos
  <2>3. logical_distance(getSwitchVID(a), a) < HostBits + 1
    BY <1>1, <2>1, <2>2, DistanceBelow
  <2> QED BY <1>1, <2>3, Dist, WidthAssumption
<1> QED BY <1>3, <1>4

\* Interfaces differ in switch bits, or not at all.
LEMMA SwitchDistance ==
  ASSUME NEW v \in SwitchVIDs, NEW w \in SwitchVIDs
  PROVE  logical_distance(v, w) \in {0} \cup Levels
<1> DEFINE d == logical_distance(v, w)
<1>1. v \in VIDs /\ w \in VIDs /\ getSwitchVID(v) = v /\ getSwitchVID(w) = w
  BY SwitchVID
<1>2. d \in 0 .. VidBits /\ (d > 0 => v[d] # w[d])
  BY <1>1, DistanceSpec
<1> HIDE DEF d
<1>3. d > 0 => d > HostBits
  <2> SUFFICES ASSUME d > 0, d <= HostBits PROVE FALSE
    BY <1>2, WidthAssumption
  <2>1. d \in BitPos
    BY <1>2, WidthAssumption DEF BitPos
  <2>2. v[d] = 0 /\ w[d] = 0
    BY <1>1, <2>1 DEF getSwitchVID
  <2> QED BY <1>2, <2>2
<1>4. d \in {0} \cup Levels
  BY <1>2, <1>3, WidthAssumption DEF Levels
<1> QED BY <1>4 DEF d

-----------------------------------------------------------------------------
(* The choices the operators make exist.                                   *)

LEMMA LeastNumber ==
  ASSUME NEW S \in SUBSET Nat, S # {}
  PROVE  \E k \in S : \A i \in S : k <= i
<1>1. PICK m \in S : \A y \in S : ~ (<<y, m>> \in OpToRel(<, Nat))
  BY NatLessThanWellFounded, WFMin
<1>2. ASSUME NEW y \in S PROVE m <= y
  <2>1. ~ (y < m)
    BY <1>1 DEF OpToRel
  <2> QED BY <2>1
<1> QED BY <1>2

LEMMA LeastSlotIsIn ==
  ASSUME NEW S \in SUBSET Slots, S # {}
  PROVE  LeastSlot(S) \in S /\ \A i \in S : LeastSlot(S) <= i
<1>1. S \in SUBSET Nat
  BY MaxGwAssumption DEF Slots
<1>2. \E k \in S : \A i \in S : k <= i
  BY <1>1, LeastNumber
<1> QED BY <1>2 DEF LeastSlot

\* Among any VIDs one is closest in the XOR order: the argument goes down the
\* bits, from a VID none is closer than in the bits above k to one that none
\* is closer than in bit k either.
LEMMA ClosestExists ==
  ASSUME NEW x, NEW S, S # {}
  PROVE  \E v \in S : \A w \in S : ~ XORCloser(x, w, v)
<1> DEFINE CloserAt(w, v, i) == /\ w[i] = x[i] /\ v[i] # x[i]
                                /\ \A j \in i + 1 .. VidBits : w[j] = v[j]
           BestAbove(v, k) == \A w \in S : \A i \in k + 1 .. VidBits : ~ CloserAt(w, v, i)
           K == {k \in HostBits .. VidBits : \E v \in S : BestAbove(v, k)}
<1>1. VidBits \in K
  <2>1. VidBits + 1 .. VidBits = {}
    BY WidthAssumption
  <2>2. PICK v \in S : TRUE
    OBVIOUS
  <2>3. BestAbove(v, VidBits)
    BY <2>1
  <2> QED BY <2>3, WidthAssumption
<1>2. K \in SUBSET Nat
  BY WidthAssumption
<1>3. PICK k \in K : \A i \in K : k <= i
  BY <1>1, <1>2, LeastNumber
<1>4. PICK v \in S : BestAbove(v, k)
  BY <1>3
<1>5. k \in HostBits .. VidBits
  OBVIOUS
<1>6. CASE k = HostBits
  <2>1. \A w \in S : ~ XORCloser(x, w, v)
    BY <1>4, <1>6 DEF XORCloser
  <2> QED BY <2>1
<1>7. CASE k # HostBits
  <2>1. k - 1 \in HostBits .. VidBits /\ ~ (k <= k - 1) /\ k \in Int
        /\ k + 1 .. VidBits \subseteq k .. VidBits
        /\ \A i \in (k - 1) + 1 .. VidBits : i = k \/ i \in k + 1 .. VidBits
    BY <1>5, <1>7, WidthAssumption
  <2>2. k - 1 \notin K
    BY <1>3, <2>1
  <2>3. ASSUME NEW u \in S, CloserAt(u, v, k) PROVE BestAbove(u, k - 1)
    <3> SUFFICES ASSUME NEW w \in S, NEW i \in (k - 1) + 1 .. VidBits, CloserAt(w, u, i)
                 PROVE  FALSE
      OBVIOUS
    <3>1. i # k
      BY <2>3
    <3>2. i \in k + 1 .. VidBits
      BY <2>1, <3>1
    <3>3. u[i] = v[i] /\ \A j \in i + 1 .. VidBits : u[j] = v[j]
      <4>1. i + 1 .. VidBits \subseteq k + 1 .. VidBits
        BY <2>1, <3>2, WidthAssumption
      <4> QED BY <2>3, <3>2, <4>1
    <3>4. CloserAt(w, v, i)
      BY <3>3
    <3> QED BY <1>4, <3>2, <3>4
  <2>4. ASSUME ~ \E u \in S : CloserAt(u, v, k) PROVE BestAbove(v, k - 1)
    BY <1>4, <2>1, <2>4
  <2> QED BY <2>1, <2>2, <2>3, <2>4
<1> QED BY <1>6, <1>7

\* Edges in the order of the table are edges.
LEMMA TableOrder ==
  ASSUME NEW E, IsFiniteSet(E), NEW n \in 0 .. Cardinality(E)
  PROVE  InTableOrder(E, n) \in [1 .. n -> E]
<1> DEFINE c == Cardinality(E)
<1>1. c \in Nat
  BY FS_CardinalityType
<1>2. PICK f \in [1 .. c -> E] : \A i, j \in 1 .. c : f[i] = f[j] => i = j
  BY FS_CardinalityType DEF ExistsBijection, Bijection, Injection, IsInjective, Surjection
<1> HIDE DEF c
<1>3. 1 .. n \subseteq 1 .. c
  BY <1>1 DEF c
<1>4. [i \in 1 .. n |-> f[i]] \in [1 .. n -> E]
  BY <1>2, <1>3
<1>5. \A i, j \in 1 .. n : [k \in 1 .. n |-> f[k]][i] = [k \in 1 .. n |-> f[k]][j] => i = j
  BY <1>2, <1>3
<1> QED BY <1>4, <1>5 DEF InTableOrder

-----------------------------------------------------------------------------
(* What is true of the things in tables, frames and handlers.  Each set is *)
(* the same in every state, so that a thing stays in its set when it is    *)
(* stored, sent or kept.  What holds only of VIDs that do not change is    *)
(* under the premise StaticVIDs.                                           *)

\* Interfaces use their configured VIDs, and the server confirms them at most.
StaticVIDs == UseStatic /\ \A m \in Macs : Assignable[m] \subseteq {ConfigVID[m]}

RouteSound(v, b, e) ==
  /\ \/ e.gateway = v /\ logical_distance(v, e.nexthop) = b
     \/ /\ logical_distance(v, e.gateway) \in HostBits + 1 .. b - 1
        /\ logical_distance(v, e.nexthop) <= logical_distance(v, e.gateway)
  /\ \E w \in VIDs : Joined(e.gateway, w) /\ logical_distance(v, w) = b

\* The valid slots come first.
Packed(buck) == \A i, j \in Slots :
                  i < j /\ buck.buckets[j].isValid => buck.buckets[i].isValid

\* Buckets of level b at interface n of switch s.
SoundBuckets(s, n, b) ==
  {buck \in Bucket :
     /\ Packed(buck)
     /\ StaticVIDs =>
          \A j \in ValidSlots(buck) : RouteSound(ConfigVID[<<s, n>>], b, buck.buckets[j])}

IsRouteTable(s, t) ==
  /\ DOMAIN t \subseteq Indices(s)
  /\ \A n \in DOMAIN t :
       /\ IsTable(t[n], Levels, Bucket)
       /\ \A b \in DOMAIN t[n] : t[n][b] \in SoundBuckets(s, n, b)

SoundEdges == {e \in RendezvousEdge : StaticVIDs => Joined(e[1], e[2])}

\* What a switch may have heard from interface m.
SoundNeighbors(s, m) ==
  {x \in NeighborTableEntry : StaticVIDs =>
     /\ x.neighborVID = ConfigVID[m]
     /\ \E p \in Macs : p[1] = s /\ p \in Peers(m) /\ x.myVid = ConfigVID[p]}

SoundHellos ==
  {h \in Hello : StaticVIDs => h.vid = ConfigVID[h.from] /\ h.to \in Peers(h.from)}

\* A gateway in a reply to v about level b.
GatewaySound(v, b, g) ==
  /\ logical_distance(v, g) < b
  /\ \E w \in VIDs : Joined(g, w) /\ logical_distance(v, w) = b

SoundFrames ==
  {f \in Frame :
     /\ f.svid \in SwitchVIDs /\ f.vids \in Seq(SwitchVIDs)
     /\ f.bucket \in {0} \cup Levels
     /\ f.type = "PUBLISH" => /\ f.vids # <<>>
                              /\ StaticVIDs => /\ Joined(f.svid, f.vids[1])
                                               /\ logical_distance(f.svid, f.vids[1]) = f.bucket
     /\ f.type # "PUBLISH" => f.bucket \in Levels
     /\ f.type = "REPLY" /\ StaticVIDs =>
          \A j \in DOMAIN f.vids : GatewaySound(f.dvid, f.bucket, f.vids[j])}

SoundJobs ==
  {j \in Jobs :
     /\ j.frame \in SoundFrames
     /\ j.frame.port \in Indices(j.sw)
     /\ j.op = "learn" => j.frame.type = "REPLY" /\ j.gw \in DOMAIN j.frame.vids
     /\ j.op = "build" => j.frame.type # "REPLY"}

\* With static VIDs the interface tables never change.
ConfiguredTables(s) ==
  /\ DOMAIN interfaces[s] = {ConfigVID[<<s, n>>] : n \in Indices(s)}
  /\ \A n \in Indices(s) : /\ rinterfaces[s][n] = ConfigVID[<<s, n>>]
                           /\ interfaces[s][ConfigVID[<<s, n>>]] = n
                           /\ isvidset[s][n]

InterfacesOK(s) ==
  /\ IsTable(interfaces[s], SwitchVIDs, Indices(s)) /\ IsFiniteSet(DOMAIN interfaces[s])
  /\ rinterfaces[s] \in [Indices(s) -> SwitchVIDs]
  /\ isvidset[s] \in [Indices(s) -> BOOLEAN]
  /\ isVIDAssignmentDone[s] \in BOOLEAN
  /\ StaticVIDs => ConfiguredTables(s)

NeighborsOK(s) ==
  /\ IsTable(neighbors[s], Macs, NeighborTableEntry)
  /\ IsFiniteSet(DOMAIN neighbors[s])
  /\ \A m \in DOMAIN neighbors[s] : neighbors[s][m] \in SoundNeighbors(s, m)

EdgesOK(s) == rdvedges[s] \subseteq SoundEdges /\ IsFiniteSet(rdvedges[s])

Domains ==
  /\ DOMAIN interfaces = Switches /\ DOMAIN rinterfaces = Switches
  /\ DOMAIN isvidset = Switches /\ DOMAIN isVIDAssignmentDone = Switches
  /\ DOMAIN neighbors = Switches /\ DOMAIN rdvedges = Switches /\ DOMAIN routes = Switches

TablesOK == /\ Domains
            /\ \A s \in Switches : /\ InterfacesOK(s) /\ NeighborsOK(s) /\ EdgesOK(s)
                                   /\ IsRouteTable(s, routes[s])

SoundInv ==
  /\ TablesOK
  /\ hellos \subseteq SoundHellos
  /\ frames \subseteq [to : Macs, frame : SoundFrames]
  /\ jobs \in Seq(SoundJobs)

-----------------------------------------------------------------------------
(* The route table.                                                        *)

LEMMA NewBucketSound ==
  ASSUME NEW s, NEW n, NEW b PROVE NewBucket \in SoundBuckets(s, n, b)
<1>1. NewBucket \in Bucket
  BY SwitchVID DEF NewBucket, Bucket, RoutingEntry
<1>2. \A j \in Slots : NewBucket.buckets[j].isValid = FALSE
  BY DEF NewBucket
<1> QED BY <1>1, <1>2 DEF SoundBuckets, Packed, ValidSlots

LEMMA UpdateBucketSound ==
  ASSUME NEW s, NEW n, NEW b, NEW buck \in SoundBuckets(s, n, b), NEW d \in BOOLEAN,
         NEW nh \in VIDs, NEW g \in VIDs,
         StaticVIDs => RouteSound(ConfigVID[<<s, n>>], b, Route(nh, g, d))
  PROVE  UpdateBucket(buck, nh, g, d) \in SoundBuckets(s, n, b)
<1> DEFINE new == UpdateBucket(buck, nh, g, d)
           r == Route(nh, g, d)
<1>1. buck \in Bucket
  BY DEF SoundBuckets
<1>2. r \in RoutingEntry
  BY DEF Route, RoutingEntry
<1>3. CASE d
  <2>1. d = TRUE /\ new = SetDefault(buck, nh, g)
    BY <1>3 DEF UpdateBucket
  <2> HIDE DEF new
  <2>2. new \in Bucket
    BY <1>1, <2>1 DEF SetDefault, Bucket, RoutingEntry, Route
  <2>3. \A j \in Slots : new.buckets[j].isValid => new.buckets[j] = r
    BY <1>1, <2>1 DEF SetDefault, Bucket, RoutingEntry
  <2> HIDE DEF r
  <2>4. StaticVIDs => \A j \in ValidSlots(new) : RouteSound(ConfigVID[<<s, n>>], b, new.buckets[j])
    BY <2>3 DEF ValidSlots, r
  <2>5. \A j \in Slots : j # 0 => new.buckets[j].isValid = FALSE
    BY <1>1, <2>1 DEF SetDefault, Bucket, RoutingEntry
  <2>6. Packed(new)
    <3> SUFFICES ASSUME NEW i \in Slots, NEW j \in Slots, i < j, new.buckets[j].isValid
                 PROVE  new.buckets[i].isValid
      BY DEF Packed
    <3>1. j # 0
      BY MaxGwAssumption DEF Slots
    <3> QED BY <3>1, <2>5
  <2> QED BY <2>2, <2>4, <2>6 DEF SoundBuckets, new
<1>4. CASE ~ d /\ FreeSlots(buck) = {}
  BY <1>4 DEF UpdateBucket, AddRoute
<1>5. CASE ~ d /\ FreeSlots(buck) # {}
  <2> DEFINE f == LeastSlot(FreeSlots(buck))
  <2>1. f \in Slots /\ \A i \in FreeSlots(buck) : f <= i
    BY <1>5, LeastSlotIsIn DEF FreeSlots
  <2>2. d = FALSE /\ new = [buckets |-> [buck.buckets EXCEPT ![f] = r], armed |-> TRUE]
    BY <1>5 DEF UpdateBucket, AddRoute
  <2> HIDE DEF f, new, r
  <2>3. new \in Bucket
    BY <1>1, <1>2, <2>1, <2>2 DEF Bucket
  <2>4. \A j \in Slots : new.buckets[j] = IF j = f THEN r ELSE buck.buckets[j]
    BY <1>1, <2>1, <2>2 DEF Bucket
  <2>5. StaticVIDs => \A j \in ValidSlots(new) : RouteSound(ConfigVID[<<s, n>>], b, new.buckets[j])
    BY <2>4 DEF ValidSlots, SoundBuckets, r
  <2>6. \A i \in Slots : i < f => buck.buckets[i].isValid
    <3> SUFFICES ASSUME NEW i \in Slots, i < f, ~ buck.buckets[i].isValid PROVE FALSE
      OBVIOUS
    <3>1. i \in FreeSlots(buck)
      BY DEF FreeSlots, ValidSlots
    <3> QED BY <3>1, <2>1, MaxGwAssumption DEF Slots
  <2>7. r.isValid
    BY DEF Route, r
  <2>8. Packed(new)
    <3> SUFFICES ASSUME NEW i \in Slots, NEW j \in Slots, i < j, new.buckets[j].isValid
                 PROVE  new.buckets[i].isValid
      BY DEF Packed
    <3>1. CASE i = f
      BY <3>1, <2>4, <2>7
    <3>2. CASE i # f /\ j = f
      BY <3>2, <2>4, <2>6
    <3>3. CASE i # f /\ j # f
      BY <3>3, <2>4 DEF SoundBuckets, Packed
    <3> QED BY <3>1, <3>2, <3>3
  <2> QED BY <2>3, <2>5, <2>8 DEF SoundBuckets, new
<1> QED BY <1>3, <1>4, <1>5

LEMMA ExpireBucketSound ==
  ASSUME NEW s, NEW n, NEW b, NEW buck \in SoundBuckets(s, n, b)
  PROVE  ExpireBucket(buck) \in SoundBuckets(s, n, b)
<1>1. buck \in Bucket
  BY DEF SoundBuckets
<1>2. ExpireBucket(buck) \in Bucket
  BY <1>1 DEF ExpireBucket, Bucket, RoutingEntry
<1>3. \A j \in Slots : ExpireBucket(buck).buckets[j].isValid = FALSE
  BY <1>1 DEF ExpireBucket, Bucket, RoutingEntry
<1> QED BY <1>2, <1>3 DEF SoundBuckets, Packed, ValidSlots

\* The round robin picks a valid slot, because the valid ones come first.
LEMMA PickedSlot ==
  ASSUME NEW buck, Packed(buck), ValidSlots(buck) # {}, NEW last \in Nat
  PROVE  PickSlot(buck, last) \in ValidSlots(buck)
<1> DEFINE V == ValidSlots(buck)
           c == Cardinality(V)
           p == (last + 1) % c
<1>1. V \subseteq Slots
  BY DEF ValidSlots
<1>2. IsFiniteSet(V) /\ c \in Nat /\ c # 0
  <2>1. IsFiniteSet(Slots)
    BY FS_Interval, MaxGwAssumption DEF Slots
  <2>2. IsFiniteSet(V)
    BY <1>1, <2>1, FS_Subset
  <2> HIDE DEF V
  <2>3. V # {}
    BY DEF V
  <2> QED BY <2>2, <2>3, FS_CardinalityType, FS_EmptySet
<1> HIDE DEF c
<1>3. p \in Nat /\ p < c
  BY <1>2
<1> HIDE DEF p
<1>4. ASSUME p \notin V PROVE FALSE
  <2>1. ASSUME NEW j \in V PROVE j \in 0 .. p - 1
    <3>1. j \in Nat /\ j <= MaxGw - 1 /\ j # p
      BY <1>1, <1>4, MaxGwAssumption DEF Slots
    <3>2. CASE p < j
      <4>1. p \in Slots /\ j \in Slots
        BY <1>1, <1>3, <3>1, <3>2, MaxGwAssumption DEF Slots
      <4>2. buck.buckets[p].isValid
        BY <3>2, <4>1 DEF Packed, ValidSlots
      <4> QED BY <1>4, <4>1, <4>2 DEF ValidSlots
    <3>3. CASE ~ (p < j)
      BY <1>3, <3>1, <3>3
    <3> QED BY <3>2, <3>3
  <2>2. V \in SUBSET (0 .. p - 1)
    BY <2>1
  <2>3. IsFiniteSet(0 .. p - 1) /\ Cardinality(0 .. p - 1) = p
    <3>1. Cardinality(0 .. p - 1) = IF 0 > p - 1 THEN 0 ELSE (p - 1) - 0 + 1
      BY <1>3, FS_Interval
    <3>2. IsFiniteSet(0 .. p - 1)
      BY <1>3, FS_Interval
    <3> QED BY <1>3, <3>1, <3>2
  <2>4. c <= p
    <3> HIDE DEF V
    <3> QED BY <2>2, <2>3, FS_Subset DEF c
  <2> QED BY <1>2, <1>3, <2>4
<1>5. PickSlot(buck, last) = p
  BY DEF PickSlot, p, c
<1> QED BY <1>4, <1>5

\* Storing a sound bucket.
LEMMA StoreSound ==
  ASSUME NEW s, NEW t, IsRouteTable(s, t), NEW n \in Indices(s), NEW b \in Levels,
         NEW buck \in SoundBuckets(s, n, b)
  PROVE  IsRouteTable(s, Put(t, n, Put(Inner(t, n), b, buck)))
<1> DEFINE inner == Put(Inner(t, n), b, buck)
           new == Put(t, n, inner)
<1>1. /\ IsTable(Inner(t, n), Levels, Bucket)
      /\ \A c \in DOMAIN Inner(t, n) : Inner(t, n)[c] \in SoundBuckets(s, n, c)
  BY DEF IsRouteTable, Inner, EmptyTable, IsTable
<1>2. buck \in Bucket
  BY DEF SoundBuckets
<1>3. /\ IsTable(inner, Levels, Bucket)
      /\ \A c \in DOMAIN inner : inner[c] \in SoundBuckets(s, n, c)
  BY <1>1, <1>2 DEF Put, IsTable
<1> HIDE DEF inner
<1>4. /\ DOMAIN new = DOMAIN t \cup {n} /\ new[n] = inner
      /\ \A m \in DOMAIN t : m # n => new[m] = t[m]
  BY DEF Put
<1> HIDE DEF new
<1>5. IsRouteTable(s, new)
  BY <1>3, <1>4 DEF IsRouteTable
<1> QED BY <1>5 DEF new, inner

\* The index an interface VID leads to; with static VIDs it is the right one.
LEMMA OwnIndex ==
  ASSUME NEW s, InterfacesOK(s), NEW v \in DOMAIN interfaces[s]
  PROVE  /\ interfaces[s][v] \in Indices(s)
         /\ StaticVIDs => v = ConfigVID[<<s, interfaces[s][v]>>]
<1>1. interfaces[s][v] \in Indices(s)
  BY DEF InterfacesOK, IsTable
<1>2. ASSUME StaticVIDs PROVE v = ConfigVID[<<s, interfaces[s][v]>>]
  <2>1. ConfiguredTables(s)
    BY <1>2 DEF InterfacesOK
  <2>2. PICK n \in Indices(s) : v = ConfigVID[<<s, n>>]
    BY <2>1 DEF ConfiguredTables
  <2> QED BY <2>1, <2>2 DEF ConfiguredTables
<1> QED BY <1>1, <1>2

\* updateEntry with a route that is sound at the interface it is for.
LEMMA UpdatedSound ==
  ASSUME NEW s \in Switches, InterfacesOK(s), NEW t, IsRouteTable(s, t),
         NEW v, NEW b \in Levels, NEW nh \in VIDs, NEW g \in VIDs, NEW d \in BOOLEAN,
         StaticVIDs => RouteSound(v, b, Route(nh, g, d))
  PROVE  IsRouteTable(s, UpdatedRoutes(t, interfaces[s], v, b, nh, g, d))
<1>1. CASE v \notin DOMAIN interfaces[s]
  BY <1>1 DEF UpdatedRoutes
<1>2. CASE v \in DOMAIN interfaces[s]
  <2> DEFINE n == interfaces[s][v]
             buck == UpdateBucket(BucketAt(t, n, b), nh, g, d)
  <2>1. n \in Indices(s)
    BY <1>2, OwnIndex
  <2>2. StaticVIDs => v = ConfigVID[<<s, n>>]
    BY <1>2, OwnIndex
  <2>3. BucketAt(t, n, b) \in SoundBuckets(s, n, b)
    BY NewBucketSound DEF BucketAt, HasBucket, IsRouteTable
  <2>4. buck \in SoundBuckets(s, n, b)
    <3> HIDE DEF n
    <3> QED BY <2>2, <2>3, UpdateBucketSound
  <2>5. UpdatedRoutes(t, interfaces[s], v, b, nh, g, d) = Put(t, n, Put(Inner(t, n), b, buck))
    BY <1>2 DEF UpdatedRoutes
  <2> HIDE DEF n, buck
  <2> QED BY <2>1, <2>4, <2>5, StoreSound
<1> QED BY <1>1, <1>2

\* What the default route lookup returns.
LEMMA DefaultRouteSound ==
  ASSUME NEW s \in Switches, InterfacesOK(s), IsRouteTable(s, routes[s]),
         NEW my \in VIDs, NEW dst \in VIDs
  PROVE  LET r == DefaultRoute(s, my, dst) IN
         /\ r.nexthop \in VIDs
         /\ r.found /\ ~ SameSwitch(my, dst) /\ StaticVIDs =>
              \E g \in VIDs : RouteSound(my, logical_distance(my, dst), Route(r.nexthop, g, TRUE))
<1> DEFINE b == logical_distance(my, dst)
           n == interfaces[s][my]
           buck == routes[s][n][b]
           r == DefaultRoute(s, my, dst)
           e == buck.buckets[LeastSlot(DefaultSlots(buck))]
<1>1. \/ r = NoRoute
      \/ b <= HostBits /\ r = [found |-> TRUE, nexthop |-> my, gateway |-> ZeroVID]
      \/ /\ my \in DOMAIN interfaces[s] /\ HasBucket(routes[s], n, b)
         /\ DefaultSlots(buck) # {} /\ r = Found(e)
  <2> HIDE DEF e
  <2> QED BY DEF DefaultRoute, RouteFor, e
<1>2. CASE r = NoRoute
  <2>1. r.nexthop \in VIDs /\ ~ r.found
    BY <1>2, SwitchVID DEF NoRoute
  <2> QED BY <2>1
<1>3. CASE b <= HostBits /\ r = [found |-> TRUE, nexthop |-> my, gateway |-> ZeroVID]
  <2>1. r.nexthop = my /\ SameSwitch(my, dst)
    BY <1>3 DEF SameSwitch
  <2> QED BY <2>1
<1>4. CASE /\ my \in DOMAIN interfaces[s] /\ HasBucket(routes[s], n, b)
           /\ DefaultSlots(buck) # {} /\ r = Found(e)
  <2>1. n \in Indices(s) /\ (StaticVIDs => my = ConfigVID[<<s, n>>])
    BY <1>4, OwnIndex
  <2>2. buck \in SoundBuckets(s, n, b)
    BY <1>4 DEF HasBucket, IsRouteTable
  <2> HIDE DEF n, buck, b, r, e
  <2>3. LeastSlot(DefaultSlots(buck)) \in ValidSlots(buck)
    BY <1>4, LeastSlotIsIn DEF DefaultSlots, ValidSlots
  <2>4. e \in RoutingEntry /\ (StaticVIDs => RouteSound(my, b, e))
    BY <2>1, <2>2, <2>3 DEF SoundBuckets, Bucket, ValidSlots, e
  <2>5. e.nexthop \in VIDs /\ e.gateway \in VIDs /\ r.nexthop = e.nexthop
    BY <1>4, <2>4 DEF RoutingEntry, Found
  <2>6. StaticVIDs => RouteSound(my, b, Route(r.nexthop, e.gateway, TRUE))
    BY <2>4, <2>5 DEF RouteSound, Route
  <2> QED BY <2>5, <2>6 DEF r, b
<1> QED BY <1>1, <1>2, <1>3, <1>4

-----------------------------------------------------------------------------
(* Lookups and forwarding.                                                 *)

\* The gateways returned for a query are sources of edges that match it.
LEMMA RdvPointSound ==
  ASSUME NEW s, EdgesOK(s), NEW k, NEW svid
  PROVE  LET gws == getRdvPoint(s, k, svid) IN
         /\ gws \in Seq({e[1] : e \in RdvMatches(s, k, svid)})
<1> DEFINE matches == RdvMatches(s, k, svid)
           srcs    == {e[1] : e \in matches}
           default == CHOOSE v \in srcs : \A w \in srcs : ~ XORCloser(svid, w, v)
           others  == {e \in matches : e[1] # default}
           wanted  == (IF Cardinality(matches) > MaxGw THEN MaxGw ELSE Cardinality(matches)) - 1
           n       == IF Cardinality(others) < wanted THEN Cardinality(others) ELSE wanted
           picked  == InTableOrder(others, n)
<1>1. CASE matches = {}
  BY <1>1 DEF getRdvPoint
<1>2. CASE matches # {}
  <2>1. default \in srcs
    <3>1. srcs # {}
      BY <1>2
    <3>2. \E v \in srcs : \A w \in srcs : ~ XORCloser(svid, w, v)
      <4> HIDE DEF srcs
      <4> QED BY <3>1, ClosestExists
    <3> HIDE DEF srcs
    <3> QED BY <3>2
  <2>2. getRdvPoint(s, k, svid) = [j \in 1 .. n + 1 |-> IF j = 1 THEN default ELSE picked[j - 1][1]]
    BY <1>2 DEF getRdvPoint
  <2>3. matches \subseteq rdvedges[s] /\ others \subseteq matches
    BY DEF RdvMatches
  <2>4. IsFiniteSet(matches) /\ IsFiniteSet(others)
    <3> HIDE DEF matches, others
    <3> QED BY <2>3, FS_Subset DEF EdgesOK
  <2>5. Cardinality(matches) \in Nat /\ Cardinality(matches) # 0 /\ Cardinality(others) \in Nat
    <3> HIDE DEF matches, others
    <3> QED BY <1>2, <2>4, FS_CardinalityType, FS_EmptySet
  <2>6. n \in 0 .. Cardinality(others)
    <3> HIDE DEF matches, others
    <3> QED BY <2>5, MaxGwAssumption
  <2>7. picked \in [1 .. n -> others]
    <3> HIDE DEF n, others
    <3> QED BY <2>4, <2>6, TableOrder
  <2>8. n \in Nat
    <3> HIDE DEF n, others
    <3> QED BY <2>5, <2>6
  <2> HIDE DEF n, picked, default
  <2>9. ASSUME NEW j \in 1 .. n + 1
        PROVE  (IF j = 1 THEN default ELSE picked[j - 1][1]) \in srcs
    <3>1. CASE j = 1
      BY <2>1, <3>1
    <3>2. CASE j # 1
      <4>1. j - 1 \in 1 .. n
        BY <2>8, <3>2
      <4>2. picked[j - 1] \in matches
        BY <2>7, <4>1
      <4> QED BY <3>2, <4>2
    <3> QED BY <3>1, <3>2
  <2> HIDE DEF srcs
  <2>10. getRdvPoint(s, k, svid) \in Seq(srcs)
    BY <2>2, <2>8, <2>9
  <2> QED BY <2>10 DEF srcs
<1> QED BY <1>1, <1>2

LEMMA NeighborVID ==
  ASSUME NEW s, NeighborsOK(s), NEW v, NeighborsAt(s, v) # {}
  PROVE  v \in VIDs
<1>1. PICK m \in DOMAIN neighbors[s] : neighbors[s][m].neighborVID = v
  BY DEF NeighborsAt
<1>2. neighbors[s][m] \in NeighborTableEntry
  BY DEF NeighborsOK, IsTable
<1> QED BY <1>1, <1>2, SwitchVID DEF NeighborTableEntry

\* The next hop of a frame; with static VIDs it is no farther from the
\* destination than the switch.
LEMMA GetPortSound ==
  ASSUME NEW s \in Switches, InterfacesOK(s), NeighborsOK(s), IsRouteTable(s, routes[s]),
         NEW my \in VIDs, NEW dst \in VIDs
  PROVE  LET r == getPort(s, my, dst) IN
         /\ r.nexthop \in VIDs /\ r.myVid \in VIDs
         /\ StaticVIDs /\ r.port # -1 =>
              logical_distance(r.nexthop, dst) <= logical_distance(my, dst)
<1> DEFINE sw == getSwitchVID(dst)
           d == DefaultRoute(s, my, dst)
           r == getPort(s, my, dst)
<1>0. d.nexthop \in VIDs
  BY DefaultRouteSound
<1>a. logical_distance(my, dst) \in Nat
  BY Dist
<1>1. CASE SameSwitch(my, dst)
  <2>1. r.nexthop = my /\ r.myVid = my
    BY <1>1 DEF getPort, Loopback
  <2> QED BY <2>1, <1>a
<1>2. CASE ~ SameSwitch(my, dst) /\ NeighborsAt(s, sw) # {}
  <2>1. r.nexthop = sw /\ r.myVid = my
    BY <1>2 DEF getPort, ViaNeighbor
  <2>2. sw \in VIDs /\ logical_distance(sw, dst) <= HostBits /\ logical_distance(sw, dst) \in Nat
    BY SwitchVID, HostNearSwitch, Dist
  <2>3. logical_distance(my, dst) > HostBits
    BY <1>2, <1>a, WidthAssumption DEF SameSwitch
  <2> QED BY <1>a, <2>1, <2>2, <2>3, WidthAssumption
<1>3. CASE ~ SameSwitch(my, dst) /\ ~ d.found /\ NeighborsAt(s, sw) = {}
  <2>1. r = Nowhere(my)
    BY <1>3 DEF getPort
  <2> QED BY <2>1, SwitchVID DEF Nowhere
<1>4. CASE ~ SameSwitch(my, dst) /\ d.found /\ NeighborsAt(s, sw) = {}
  <2>1. \/ r = ViaNeighbor(s, my, d.nexthop)
        \/ r = Loopback(s, d.nexthop)
        \/ r = Nowhere(my)
    BY <1>4 DEF getPort
  <2>2. CASE r = Nowhere(my)
    BY <2>2, SwitchVID DEF Nowhere
  <2>3. CASE r = ViaNeighbor(s, my, d.nexthop) \/ r = Loopback(s, d.nexthop)
    <3>1. r.nexthop = d.nexthop /\ r.myVid \in {my, d.nexthop}
      BY <2>3 DEF ViaNeighbor, Loopback
    <3>2. ASSUME StaticVIDs
          PROVE  logical_distance(d.nexthop, dst) <= logical_distance(my, dst)
      <4> DEFINE b == logical_distance(my, dst)
      <4>1. PICK g \in VIDs : RouteSound(my, b, Route(d.nexthop, g, TRUE))
        BY <1>4, <3>2, DefaultRouteSound
      <4>2. \/ logical_distance(my, d.nexthop) = b
            \/ /\ logical_distance(my, g) \in HostBits + 1 .. b - 1
               /\ logical_distance(my, d.nexthop) <= logical_distance(my, g)
        BY <4>1 DEF RouteSound, Route
      <4>3. my # dst /\ b \in Nat /\ b > 0
        <5>1. b > HostBits
          BY <1>4, <1>a, WidthAssumption DEF SameSwitch
        <5> QED BY <1>a, <5>1, Dist, WidthAssumption
      <4> HIDE DEF b, d
      <4>4. CASE logical_distance(my, d.nexthop) = b
        <5>1. my # d.nexthop
          BY <1>0, <4>3, <4>4, Dist
        <5>2. logical_distance(d.nexthop, dst) < b
          BY <1>0, <4>4, <5>1, SameLevel DEF b
        <5> QED BY <1>0, <4>3, <5>2, Dist DEF b
      <4>5. CASE /\ logical_distance(my, g) \in HostBits + 1 .. b - 1
                 /\ logical_distance(my, d.nexthop) <= logical_distance(my, g)
        <5>1. logical_distance(my, d.nexthop) \in Nat
              /\ logical_distance(d.nexthop, my) = logical_distance(my, d.nexthop)
          BY <1>0, Dist
        <5>2. logical_distance(d.nexthop, my) < b
          BY <4>3, <4>5, <5>1, WidthAssumption
        <5>3. \/ logical_distance(d.nexthop, dst) <= logical_distance(d.nexthop, my)
              \/ logical_distance(d.nexthop, dst) <= logical_distance(my, dst)
          BY <1>0, Detour
        <5>4. logical_distance(d.nexthop, dst) \in Nat
          BY <1>0, Dist
        <5> QED BY <4>3, <5>1, <5>2, <5>3, <5>4 DEF b
      <4> QED BY <4>2, <4>4, <4>5
    <3> HIDE DEF d
    <3> QED BY <1>0, <3>1, <3>2
  <2> QED BY <2>1, <2>2, <2>3
<1> QED BY <1>1, <1>2, <1>3, <1>4

LEMMA FiniteImage ==
  ASSUME NEW S, IsFiniteSet(S), NEW f
  PROVE  IsFiniteSet({f[x] : x \in S})
<1> DEFINE T == {f[x] : x \in S}
           g == [x \in S |-> f[x]]
<1>1. g \in [S -> T] /\ \A t \in T : \E x \in S : g[x] = t
  OBVIOUS
<1>2. g \in Surjection(S, T)
  <2> HIDE DEF g, T
  <2> QED BY <1>1 DEF Surjection
<1>3. IsFiniteSet(T)
  <2> HIDE DEF g, T
  <2> QED BY <1>2, FS_Surjection
<1> QED BY <1>3

LEMMA AnInterface ==
  ASSUME NEW s \in Switches
  PROVE  0 \in Indices(s) /\ IsFiniteSet(Indices(s)) /\ Indices(s) \subseteq Nat
<1>1. 0 \in Indices(s) /\ Indices(s) \subseteq Nat
  <2>1. <<s, 0>> \in {m \in Macs : m[1] = s} /\ <<s, 0>>[2] = 0
    BY RoutingAssumption
  <2>2. \A m \in Macs : m[2] \in Nat
    BY RoutingAssumption
  <2> QED BY <2>1, <2>2 DEF Indices
<1>2. IsFiniteSet({m \in Macs : m[1] = s})
  BY RoutingAssumption, FS_Subset
<1>3. IsFiniteSet(Indices(s))
  <2> DEFINE M == {m \in Macs : m[1] = s}
             f == [m \in M |-> m[2]]
  <2>1. {f[m] : m \in M} = Indices(s)
    BY DEF Indices
  <2> HIDE DEF f
  <2> QED BY <1>2, <2>1, FiniteImage
<1> QED BY <1>1, <1>3

\* What the round robin returns: a gateway that is me or on the near side.
LEMMA AlternativeSound ==
  ASSUME StaticVIDs, NEW s \in Switches, InterfacesOK(s), IsRouteTable(s, routes[s]),
         NEW my \in VIDs, NEW dst \in VIDs, ~ SameSwitch(my, dst), NEW last \in Nat,
         RouteFor(routes[s], interfaces[s], last, dst, my, FALSE).found
  PROVE  LET r == RouteFor(routes[s], interfaces[s], last, dst, my, FALSE) IN
         /\ r.gateway \in VIDs
         /\ r.gateway # my => logical_distance(my, r.gateway) < logical_distance(my, dst)
<1> DEFINE b == logical_distance(my, dst)
           n == interfaces[s][my]
           buck == routes[s][n][b]
           r == RouteFor(routes[s], interfaces[s], last, dst, my, FALSE)
           e == buck.buckets[PickSlot(buck, last)]
<1>1. /\ my \in DOMAIN interfaces[s] /\ HasBucket(routes[s], n, b)
      /\ ValidSlots(buck) # {} /\ r = Found(e)
  <2>1. ~ (b <= HostBits)
    BY DEF SameSwitch
  <2> HIDE DEF e
  <2> QED BY <2>1 DEF RouteFor, e, NoRoute
<1>2. n \in Indices(s) /\ my = ConfigVID[<<s, n>>]
  BY <1>1, OwnIndex
<1>3. buck \in SoundBuckets(s, n, b)
  BY <1>1 DEF HasBucket, IsRouteTable
<1>4. b \in Nat
  BY Dist
<1> HIDE DEF n, buck, b, r
<1>5. PickSlot(buck, last) \in ValidSlots(buck)
  BY <1>1, <1>3, PickedSlot DEF SoundBuckets
<1>6. e \in RoutingEntry /\ RouteSound(my, b, e)
  <2> HIDE DEF e
  <2> QED BY <1>2, <1>3, <1>5 DEF SoundBuckets, Bucket, ValidSlots, e
<1>7. r.gateway = e.gateway /\ e.gateway \in VIDs
  <2> HIDE DEF e
  <2> QED BY <1>1, <1>6 DEF RoutingEntry, Found
<1>8. e.gateway # my => logical_distance(my, e.gateway) \in HostBits + 1 .. b - 1
  BY <1>6 DEF RouteSound
<1> HIDE DEF e
<1>9. e.gateway # my => logical_distance(my, e.gateway) < b
  BY <1>4, <1>8, WidthAssumption
<1> QED BY <1>7, <1>9 DEF r, b

\* getPort leaves as my VID one of mine: the one it was given, or the next hop.
LEMMA GetPortOwn ==
  ASSUME NEW s \in Switches, NEW my \in DOMAIN interfaces[s], NEW dst
  PROVE  LET r == getPort(s, my, dst) IN
         /\ r.myVid \in DOMAIN interfaces[s]
         /\ r.myVid # my => r.port # -1 /\ r.myVid = r.nexthop
<1> DEFINE r == getPort(s, my, dst)
           d == DefaultRoute(s, my, dst)
<1>1. \/ \E nh : r = ViaNeighbor(s, my, nh)
      \/ r = Nowhere(my)
      \/ r = Loopback(s, my)
      \/ r = Loopback(s, d.nexthop) /\ lookupVidEntry(s, d.nexthop)
  <2> HIDE DEF d
  <2> QED BY DEF getPort, d
<1>2. CASE (\E nh : r = ViaNeighbor(s, my, nh)) \/ r = Nowhere(my) \/ r = Loopback(s, my)
  <2>1. r.myVid = my
    BY <1>2 DEF ViaNeighbor, Nowhere, Loopback
  <2> QED BY <2>1
<1>3. CASE r = Loopback(s, d.nexthop) /\ lookupVidEntry(s, d.nexthop)
  <2>1. r.port = numInterfaces(s) /\ r.myVid = d.nexthop /\ r.nexthop = d.nexthop
    BY <1>3 DEF Loopback
  <2>2. numInterfaces(s) \in Nat
    BY AnInterface, FS_CardinalityType DEF numInterfaces
  <2>3. d.nexthop \in DOMAIN interfaces[s]
    BY <1>3 DEF lookupVidEntry
  <2> HIDE DEF r, d
  <2>4. /\ r.myVid \in DOMAIN interfaces[s]
        /\ r.port # -1 /\ r.myVid = r.nexthop
    BY <2>1, <2>2, <2>3
  <2> QED BY <2>4 DEF r
<1> QED BY <1>1, <1>2, <1>3

\* One call of getPort for a packet directed to t, on the near side of f or f
\* itself: the next hop and the VID it leaves are as near to both.
LEMMA HopNear ==
  ASSUME StaticVIDs, NEW s \in Switches, InterfacesOK(s), NeighborsOK(s), IsRouteTable(s, routes[s]),
         NEW my \in DOMAIN interfaces[s], NEW t \in VIDs, NEW f \in VIDs, Directed(my, t, f)
  PROVE  LET r == getPort(s, my, t) IN
         /\ r.myVid \in DOMAIN interfaces[s] /\ Directed(r.myVid, t, f)
         /\ logical_distance(r.myVid, f) <= logical_distance(my, f)
         /\ r.port # -1 => /\ Directed(r.nexthop, t, f)
                           /\ logical_distance(r.nexthop, f) <= logical_distance(my, f)
<1> DEFINE r == getPort(s, my, t)
<1>1. my \in VIDs
  BY SwitchVID DEF InterfacesOK, IsTable
<1>2. /\ r.nexthop \in VIDs
      /\ r.port # -1 => logical_distance(r.nexthop, t) <= logical_distance(my, t)
  BY <1>1, GetPortSound
<1>3. /\ r.myVid \in DOMAIN interfaces[s]
      /\ r.myVid # my => r.port # -1 /\ r.myVid = r.nexthop
  BY GetPortOwn
<1> HIDE DEF r
<1>4. r.port # -1 => /\ Directed(r.nexthop, t, f)
                     /\ logical_distance(r.nexthop, f) <= logical_distance(my, f)
  <2> SUFFICES ASSUME r.port # -1
               PROVE  /\ Directed(r.nexthop, t, f)
                      /\ logical_distance(r.nexthop, f) <= logical_distance(my, f)
    OBVIOUS
  <2>1. CASE t = f
    BY <1>2, <2>1 DEF Directed
  <2>2. CASE t # f
    <3>1. logical_distance(my, t) < logical_distance(my, f)
      BY <2>2 DEF Directed
    <3>2. /\ logical_distance(r.nexthop, f) = logical_distance(my, f)
          /\ logical_distance(r.nexthop, t) < logical_distance(r.nexthop, f)
      BY <1>1, <1>2, <3>1, NearSide
    <3>3. logical_distance(my, f) \in Nat
      BY <1>1, Dist
    <3> QED BY <3>2, <3>3 DEF Directed
  <2> QED BY <2>1, <2>2
<1>5. logical_distance(my, f) <= logical_distance(my, f)
  <2>1. logical_distance(my, f) \in Nat
    BY <1>1, Dist
  <2> QED BY <2>1
<1>6. /\ Directed(r.myVid, t, f)
      /\ logical_distance(r.myVid, f) <= logical_distance(my, f)
  <2>1. CASE r.myVid = my
    BY <1>5, <2>1
  <2>2. CASE r.myVid # my
    BY <1>3, <1>4, <2>2
  <2> QED BY <2>1, <2>2
<1> QED BY <1>3, <1>4, <1>6 DEF r

\* A VID of no own interface is at a level of every own one.
LEMMA Elsewhere ==
  ASSUME NEW s \in Switches, InterfacesOK(s), NEW my \in DOMAIN interfaces[s],
         NEW f \in VIDs, getSwitchVID(f) \notin DOMAIN interfaces[s]
  PROVE  logical_distance(my, f) > HostBits
<1> DEFINE w == getSwitchVID(f)
<1>1. my \in SwitchVIDs /\ my \in VIDs /\ w \in SwitchVIDs /\ w \in VIDs /\ my # w
  BY SwitchVID DEF InterfacesOK, IsTable
<1>2. logical_distance(my, w) \in {0} \cup Levels /\ logical_distance(my, w) # 0
  BY <1>1, SwitchDistance, Dist
<1>3. logical_distance(my, w) > HostBits /\ logical_distance(my, w) \in Nat
  BY <1>2, WidthAssumption DEF Levels
<1>4. /\ logical_distance(w, f) <= HostBits /\ logical_distance(w, f) \in Nat
      /\ logical_distance(f, w) = logical_distance(w, f)
      /\ logical_distance(my, f) \in Nat
  BY <1>1, HostNearSwitch, Dist
<1>5. \/ logical_distance(my, w) <= logical_distance(my, f)
      \/ logical_distance(my, w) <= logical_distance(f, w)
  BY <1>1, Detour
<1> HIDE DEF w
<1> QED BY <1>3, <1>4, <1>5, WidthAssumption

LEMMA MultipathNear ==
  ASSUME StaticVIDs, NEW s \in Switches, InterfacesOK(s), NeighborsOK(s), IsRouteTable(s, routes[s]),
         NEW my \in DOMAIN interfaces[s], NEW final \in VIDs, NEW dvid \in VIDs, NEW last \in Nat,
         getSwitchVID(final) \notin DOMAIN interfaces[s], Directed(my, dvid, final)
  PROVE  LET r == Multipath(s, my, dvid, final, last)
         IN  r.port # -1 => /\ logical_distance(r.nexthop, final) <= logical_distance(my, final)
                            /\ Directed(r.nexthop, r.dvid, final)
<1> DEFINE first      == getPort(s, my, dvid)
           dst        == IF lookupVidEntry(s, dvid) THEN final ELSE dvid
           alt        == RouteFor(routes[s], interfaces[s], last, dst, first.myVid, FALSE)
           redirected == /\ getSwitchVID(dst) = getSwitchVID(final) /\ first.port # -1
                         /\ alt.found /\ alt.gateway # first.myVid
           next       == IF redirected THEN alt.gateway ELSE dst
           second     == IF redirected THEN getPort(s, first.myVid, next) ELSE first
           r          == getPort(s, second.myVid, next)
           m1         == first.myVid
           m2         == second.myVid
<1>1. Multipath(s, my, dvid, final, last) = [port |-> r.port, nexthop |-> r.nexthop, dvid |-> next]
  BY DEF Multipath
<1>2. /\ m1 \in DOMAIN interfaces[s] /\ Directed(m1, dvid, final)
      /\ logical_distance(m1, final) <= logical_distance(my, final)
  BY HopNear
<1>3. my \in VIDs /\ m1 \in VIDs
  BY <1>2, SwitchVID DEF InterfacesOK, IsTable
<1>4. dst \in VIDs /\ Directed(m1, dst, final)
  BY <1>2 DEF Directed
<1>5. /\ logical_distance(my, final) \in Nat /\ logical_distance(m1, final) \in Nat
      /\ logical_distance(m1, final) > HostBits
  BY <1>2, <1>3, Dist, Elsewhere
<1>6. redirected => /\ alt.gateway \in VIDs
                    /\ logical_distance(m1, alt.gateway) < logical_distance(m1, final)
  <2> HIDE DEF first, dst
  <2> SUFFICES ASSUME redirected
               PROVE  /\ alt.gateway \in VIDs
                      /\ logical_distance(m1, alt.gateway) < logical_distance(m1, final)
    OBVIOUS
  <2>1. dst = final
    <3> SUFFICES ASSUME dst # final PROVE FALSE
      OBVIOUS
    <3>1. logical_distance(m1, dst) < logical_distance(m1, final)
      BY <1>4 DEF Directed
    <3>2. logical_distance(dst, final) = logical_distance(m1, final)
      <4>1. logical_distance(m1, dst) <= logical_distance(m1, dst)
        <5>1. logical_distance(m1, dst) \in Nat
          BY <1>3, <1>4, Dist
        <5> QED BY <5>1
      <4> QED BY <1>3, <1>4, <3>1, <4>1, NearSide
    <3> DEFINE w == getSwitchVID(final)
    <3>3. /\ w \in VIDs /\ getSwitchVID(dst) = w
          /\ logical_distance(w, final) <= HostBits /\ logical_distance(w, dst) <= HostBits
      BY <1>4, SwitchVID, HostNearSwitch
    <3> HIDE DEF w, m1
    <3>4. /\ logical_distance(dst, w) = logical_distance(w, dst)
          /\ logical_distance(dst, w) \in Nat /\ logical_distance(w, final) \in Nat
      BY <1>4, <3>3, Dist
    <3>5. \/ logical_distance(dst, final) <= logical_distance(dst, w)
          \/ logical_distance(dst, final) <= logical_distance(w, final)
      BY <1>4, <3>3, Detour
    <3> QED BY <1>5, <3>2, <3>3, <3>4, <3>5, WidthAssumption
  <2>2. ~ SameSwitch(m1, final)
    BY <1>5, WidthAssumption DEF SameSwitch
  <2>3. alt.found /\ alt.gateway # m1
    OBVIOUS
  <2>4. alt = RouteFor(routes[s], interfaces[s], last, final, m1, FALSE)
    BY <2>1
  <2> HIDE DEF alt, m1
  <2> QED BY <1>3, <2>2, <2>3, <2>4, AlternativeSound
<1> HIDE DEF first, dst, alt, m1
<1>7. next \in VIDs /\ Directed(m1, next, final)
  BY <1>4, <1>6 DEF Directed
<1>8. /\ m2 \in DOMAIN interfaces[s] /\ Directed(m2, next, final)
      /\ logical_distance(m2, final) <= logical_distance(m1, final)
  <2>1. CASE redirected
    <3>1. second = getPort(s, m1, next)
      BY <2>1 DEF m1
    <3> HIDE DEF second, next
    <3> QED BY <1>2, <1>7, <3>1, HopNear
  <2>2. CASE ~ redirected
    <3>1. m2 = m1
      BY <2>2 DEF m1
    <3>2. logical_distance(m1, final) <= logical_distance(m1, final)
      BY <1>5
    <3> HIDE DEF next, m2
    <3> QED BY <1>2, <1>7, <3>1, <3>2
  <2> QED BY <2>1, <2>2
<1>9. m2 \in VIDs /\ logical_distance(m2, final) \in Nat
  <2> HIDE DEF m2
  <2> QED BY <1>8, SwitchVID, Dist DEF InterfacesOK, IsTable
<1> HIDE DEF second, next, redirected, m2
<1>10. r.port # -1 => /\ Directed(r.nexthop, next, final)
                      /\ logical_distance(r.nexthop, final) <= logical_distance(m2, final)
  <2>1. r = getPort(s, m2, next)
    BY DEF m2
  <2> HIDE DEF r
  <2> QED BY <1>7, <1>8, <2>1, HopNear
<1>11. r.nexthop \in VIDs
  <2>1. r = getPort(s, m2, next)
    BY DEF m2
  <2> HIDE DEF r
  <2> QED BY <1>7, <1>9, <2>1, GetPortSound
<1>12. logical_distance(r.nexthop, final) \in Nat
  BY <1>11, Dist
<1> HIDE DEF r
<1>13. r.port # -1 => logical_distance(r.nexthop, final) <= logical_distance(my, final)
  BY <1>2, <1>5, <1>8, <1>9, <1>10, <1>12
<1> QED BY <1>1, <1>10, <1>13

\* A frame that leaves the forwarding element is as sound as it came.
LEMMA OutcomeSound ==
  ASSUME NEW s \in Switches, InterfacesOK(s), NeighborsOK(s), IsRouteTable(s, routes[s]),
         NEW f \in SoundFrames
  PROVE  /\ Outcome(s, f).frame \in SoundFrames
         /\ Outcome(s, f).frame.port = f.port
<1> DEFINE my == MyVid(s, f)
           dst == Destination(s, my, f)
           r == getPort(s, my, dst)
           ttl == IF f.ttl = 0 THEN 0 ELSE f.ttl - 1
           g == [f EXCEPT !.dvid = dst, !.dhost = r.nexthop, !.shost = r.myVid, !.ttl = ttl]
<1>1. f \in Frame /\ f.svid \in VIDs /\ f.dhost \in VIDs /\ f.shost \in VIDs /\ f.dvid \in VIDs
      /\ f.ttl \in 0 .. MaxTTL
  BY SwitchVID DEF SoundFrames, Frame
<1>2. my \in VIDs
  BY <1>1, SwitchVID DEF MyVid
<1>3. dst \in VIDs /\ (f.type = "REPLY" => dst = f.dvid)
  <2>1. \A t : FlippedDownTo(my, f.dvid, t) \in VIDs
    BY <1>1, <1>2 DEF FlippedDownTo, VIDs
  <2> HIDE DEF my
  <2> QED BY <1>1, <2>1 DEF Destination
<1>4. r.nexthop \in VIDs /\ r.myVid \in VIDs
  <2> HIDE DEF my, dst
  <2> QED BY <1>2, <1>3, GetPortSound
<1>5. ttl \in 0 .. MaxTTL
  BY <1>1, RoutingAssumption
<1>6. Outcome(s, f).frame = g
  BY DEF Outcome
<1> HIDE DEF my, dst, r, ttl
<1>7. g \in Frame
  BY <1>1, <1>3, <1>4, <1>5 DEF Frame
<1>8. /\ g.type = f.type /\ g.svid = f.svid /\ g.vids = f.vids /\ g.bucket = f.bucket
      /\ g.port = f.port /\ g.dvid = dst
  BY <1>1 DEF Frame
<1> HIDE DEF g
<1>9. g \in SoundFrames
  BY <1>3, <1>7, <1>8 DEF SoundFrames
<1> QED BY <1>6, <1>8, <1>9

-----------------------------------------------------------------------------
(* The steps of a running handler.                                         *)

LEMMA SoundJob ==
  ASSUME NEW op \in {"route", "rdv", "learn", "build"}, NEW s \in Switches,
         NEW f \in SoundFrames, f.port \in Indices(s),
         op = "learn" => f.type = "REPLY" /\ f.vids # <<>>,
         op = "build" => f.type # "REPLY"
  PROVE  Job(op, s, f) \in SoundJobs
<1> DEFINE j == Job(op, s, f)
<1>1. f \in Frame /\ f.vids \in Seq(SwitchVIDs)
  BY DEF SoundFrames
<1>2. j \in Jobs /\ j.op = op /\ j.sw = s /\ j.frame = f /\ j.gw = 1
  BY <1>1 DEF Job, Jobs
<1>3. f.vids # <<>> => 1 \in DOMAIN f.vids
  BY <1>1
<1> HIDE DEF j
<1>4. j \in SoundJobs
  BY <1>2, <1>3 DEF SoundJobs
<1> QED BY <1>4 DEF j

\* A frame a switch makes.
LEMMA SoundNewFrame ==
  ASSUME NEW type \in {"PUBLISH", "QUERY", "REPLY"}, NEW from \in SwitchVIDs, NEW to \in VIDs,
         NEW k \in {0} \cup Levels, NEW vids \in Seq(SwitchVIDs),
         type = "PUBLISH" => /\ vids # <<>>
                             /\ StaticVIDs => Joined(from, vids[1])
                                               /\ logical_distance(from, vids[1]) = k,
         type # "PUBLISH" => k \in Levels,
         type = "REPLY" /\ StaticVIDs => \A j \in DOMAIN vids : GatewaySound(to, k, vids[j])
  PROVE  /\ NewFrame(type, from, to, k, vids) \in SoundFrames
         /\ NewFrame(type, from, to, k, vids).port = 0
         /\ NewFrame(type, from, to, k, vids).type = type
<1> DEFINE f == NewFrame(type, from, to, k, vids)
<1>1. k \in Nat /\ from \in VIDs /\ MaxTTL \in 0 .. MaxTTL
  BY WidthAssumption, SwitchVID, RoutingAssumption DEF Levels
<1>2. vids \in Seq(VIDs)
  BY SwitchVID
<1>3. f \in Frame
  BY <1>1, <1>2 DEF NewFrame, Frame
<1>4. /\ f.type = type /\ f.svid = from /\ f.dvid = to /\ f.bucket = k /\ f.vids = vids
      /\ f.port = 0
  BY DEF NewFrame
<1> HIDE DEF f
<1>5. f \in SoundFrames
  BY <1>3, <1>4 DEF SoundFrames
<1> QED BY <1>4, <1>5 DEF f

LEMMA JobAtHand ==
  ASSUME SoundInv, jobs # <<>>
  PROVE  /\ Head(jobs) \in SoundJobs /\ Tail(jobs) \in Seq(SoundJobs)
         /\ Head(jobs) \in Jobs /\ Head(jobs).sw \in Switches
         /\ Head(jobs).frame \in SoundFrames /\ Head(jobs).frame \in Frame
         /\ Head(jobs).frame.port \in Indices(Head(jobs).sw)
<1>1. Head(jobs) \in SoundJobs /\ Tail(jobs) \in Seq(SoundJobs)
  BY DEF SoundInv
<1> QED BY <1>1 DEF SoundJobs, Jobs, SoundFrames

LEMMA Prepend ==
  ASSUME NEW j \in SoundJobs, NEW q \in Seq(SoundJobs)
  PROVE  <<j>> \o q \in Seq(SoundJobs)
OBVIOUS

LEMMA SwitchOK ==
  ASSUME SoundInv, NEW s \in Switches
  PROVE  InterfacesOK(s) /\ NeighborsOK(s) /\ EdgesOK(s) /\ IsRouteTable(s, routes[s])
BY DEF SoundInv, TablesOK

LEMMA SameInterfaces ==
  ASSUME UNCHANGED ivars, NEW s
  PROVE  InterfacesOK(s) => InterfacesOK(s)'
BY DEF ivars, InterfacesOK, ConfiguredTables

LEMMA SameTables ==
  ASSUME TablesOK, UNCHANGED <<ivars, tables>>
  PROVE  TablesOK'
<1>1. UNCHANGED ivars /\ UNCHANGED <<neighbors, rdvedges, routes>>
  BY DEF tables
<1>2. Domains'
  BY <1>1 DEF TablesOK, Domains, ivars
<1>3. ASSUME NEW s \in Switches
      PROVE  /\ InterfacesOK(s)' /\ NeighborsOK(s)' /\ EdgesOK(s)'
             /\ IsRouteTable(s, routes'[s])
  BY <1>1, SameInterfaces DEF TablesOK, NeighborsOK, EdgesOK
<1> QED BY <1>2, <1>3 DEF TablesOK

\* One route table changes.
LEMMA NewRoutes ==
  ASSUME TablesOK, NEW s \in Switches, NEW t, IsRouteTable(s, t),
         routes' = [routes EXCEPT ![s] = t], UNCHANGED <<ivars, neighbors, rdvedges>>
  PROVE  TablesOK'
<1>1. UNCHANGED ivars /\ UNCHANGED <<neighbors, rdvedges>>
  OBVIOUS
<1>2. Domains'
  BY <1>1 DEF TablesOK, Domains, ivars
<1>3. ASSUME NEW u \in Switches
      PROVE  /\ InterfacesOK(u)' /\ NeighborsOK(u)' /\ EdgesOK(u)'
             /\ IsRouteTable(u, routes'[u])
  <2>1. InterfacesOK(u)' /\ NeighborsOK(u)' /\ EdgesOK(u)'
    BY <1>1, SameInterfaces DEF TablesOK, NeighborsOK, EdgesOK
  <2>2. routes'[u] = IF u = s THEN t ELSE routes[u]
    BY DEF TablesOK, Domains
  <2> QED BY <2>1, <2>2 DEF TablesOK
<1> QED BY <1>2, <1>3 DEF TablesOK

LEMMA RouteStepSound ==
  ASSUME SoundInv, smactionRoute
  PROVE  SoundInv'
<1> DEFINE s == Head(jobs).sw
           f == Head(jobs).frame
           o == Outcome(s, f)
<1>0. jobs # <<>>
  BY DEF smactionRoute
<1>1. s \in Switches /\ f \in SoundFrames /\ f.port \in Indices(s) /\ Tail(jobs) \in Seq(SoundJobs)
  BY <1>0, JobAtHand
<1>2. /\ jobs' = IF o.port = numInterfaces(s) THEN <<Job("rdv", s, o.frame)>> \o Tail(jobs)
                                              ELSE Tail(jobs)
      /\ frames' = IF o.port \in Indices(s)
                     THEN frames \cup {[to |-> p, frame |-> o.frame] : p \in Peers(<<s, o.port>>)}
                     ELSE frames
      /\ UNCHANGED <<ivars, tables, hellos>>
  BY DEF smactionRoute
<1> HIDE DEF s, f
<1>3. o.frame \in SoundFrames /\ o.frame.port \in Indices(s)
  BY <1>1, SwitchOK, OutcomeSound
<1> HIDE DEF o
<1>4. Job("rdv", s, o.frame) \in SoundJobs
  BY <1>1, <1>3, SoundJob
<1>5. jobs' \in Seq(SoundJobs)
  BY <1>1, <1>2, <1>4, Prepend
<1>6. frames' \subseteq [to : Macs, frame : SoundFrames]
  <2>1. frames \subseteq [to : Macs, frame : SoundFrames]
    BY DEF SoundInv
  <2>2. \A p \in Macs : [to |-> p, frame |-> o.frame] \in [to : Macs, frame : SoundFrames]
    BY <1>3
  <2>3. Peers(<<s, o.port>>) \subseteq Macs
    BY DEF Peers
  <2> QED BY <1>2, <2>1, <2>2, <2>3
<1> QED BY <1>2, <1>5, <1>6, SameTables DEF SoundInv

\* What the gateways of an answer are, for the switch that asked.
LEMMA ReplySound ==
  ASSUME NEW s \in Switches, EdgesOK(s), InterfacesOK(s), NEW f \in SoundFrames,
         f.type = "QUERY", f.port \in Indices(s)
  PROVE  LET gws == getRdvPoint(s, f.bucket, f.svid)
             reply == NewFrame("REPLY", rinterfaces[s][f.port], f.svid, f.bucket,
                               [j \in DOMAIN gws |-> getSwitchVID(gws[j])])
         IN  Job("route", s, reply) \in SoundJobs
<1> DEFINE gws == getRdvPoint(s, f.bucket, f.svid)
           vids == [j \in DOMAIN gws |-> getSwitchVID(gws[j])]
           from == rinterfaces[s][f.port]
           reply == NewFrame("REPLY", from, f.svid, f.bucket, vids)
           srcs == {e[1] : e \in RdvMatches(s, f.bucket, f.svid)}
<1>1. gws \in Seq(srcs)
  BY RdvPointSound
<1>2. f.bucket \in Levels /\ f.svid \in SwitchVIDs /\ f.svid \in VIDs /\ from \in SwitchVIDs
  BY SwitchVID DEF SoundFrames, InterfacesOK
<1>3. \A g \in srcs : /\ g \in SwitchVIDs /\ getSwitchVID(g) = g
                      /\ StaticVIDs => GatewaySound(f.svid, f.bucket, g)
  <2> SUFFICES ASSUME NEW e \in RdvMatches(s, f.bucket, f.svid)
               PROVE  /\ e[1] \in SwitchVIDs /\ getSwitchVID(e[1]) = e[1]
                      /\ StaticVIDs => GatewaySound(f.svid, f.bucket, e[1])
    OBVIOUS
  <2>1. e \in SoundEdges /\ logical_distance(f.svid, e[2]) = f.bucket
        /\ logical_distance(f.svid, e[1]) < f.bucket
    BY DEF RdvMatches, EdgesOK
  <2>2. e[1] \in SwitchVIDs /\ e[2] \in SwitchVIDs /\ (StaticVIDs => Joined(e[1], e[2]))
    BY <2>1 DEF SoundEdges, RendezvousEdge
  <2>3. e[2] \in VIDs
    BY <2>2, SwitchVID
  <2> QED BY <2>1, <2>2, <2>3, SwitchVID DEF GatewaySound
<1> HIDE DEF gws, srcs, from
<1>4. vids \in Seq(SwitchVIDs) /\ \A j \in DOMAIN vids : vids[j] \in srcs
  <2>1. \A j \in DOMAIN gws : gws[j] \in srcs
    BY <1>1
  <2>2. DOMAIN gws = 1 .. Len(gws) /\ Len(gws) \in Nat
    BY <1>1
  <2>3. \A j \in DOMAIN gws : getSwitchVID(gws[j]) = gws[j] /\ gws[j] \in SwitchVIDs
    BY <1>3, <2>1
  <2> QED BY <2>1, <2>2, <2>3
<1>5. StaticVIDs => \A j \in DOMAIN vids : GatewaySound(f.svid, f.bucket, vids[j])
  BY <1>3, <1>4
<1> HIDE DEF vids
<1>6. reply \in SoundFrames /\ reply.port = 0
  <2>1. f.bucket \in {0} \cup Levels /\ "REPLY" \in {"PUBLISH", "QUERY", "REPLY"}
    BY <1>2
  <2>2. "REPLY" # "PUBLISH" /\ vids \in Seq(SwitchVIDs)
    BY <1>4
  <2>3. /\ "REPLY" = "PUBLISH" =>
              /\ vids # <<>>
              /\ StaticVIDs => /\ Joined(from, vids[1])
                               /\ logical_distance(from, vids[1]) = f.bucket
        /\ "REPLY" # "PUBLISH" => f.bucket \in Levels
        /\ "REPLY" = "REPLY" /\ StaticVIDs =>
              \A j \in DOMAIN vids : GatewaySound(f.svid, f.bucket, vids[j])
    BY <1>2, <1>5, <2>2
  <2> QED BY ONLY <1>2, <2>1, <2>2, <2>3, SoundNewFrame
<1> HIDE DEF reply
<1>7. reply.port \in Indices(s)
  BY <1>6, AnInterface
<1>8. Job("route", s, reply) \in SoundJobs
  BY <1>6, <1>7, SoundJob
<1> QED BY <1>8 DEF reply, from, gws, vids

LEMMA NewEdge ==
  ASSUME TablesOK, NEW s \in Switches, NEW e \in SoundEdges,
         rdvedges' = [rdvedges EXCEPT ![s] = @ \cup {e}], UNCHANGED <<ivars, neighbors, routes>>
  PROVE  TablesOK'
<1>1. UNCHANGED ivars /\ UNCHANGED <<neighbors, routes>>
  OBVIOUS
<1>2. Domains'
  BY <1>1 DEF TablesOK, Domains, ivars
<1>3. ASSUME NEW u \in Switches
      PROVE  /\ InterfacesOK(u)' /\ NeighborsOK(u)' /\ EdgesOK(u)'
             /\ IsRouteTable(u, routes'[u])
  <2>1. InterfacesOK(u)' /\ NeighborsOK(u)' /\ IsRouteTable(u, routes'[u])
    BY <1>1, SameInterfaces DEF TablesOK, NeighborsOK
  <2>2. rdvedges'[u] = IF u = s THEN rdvedges[u] \cup {e} ELSE rdvedges[u]
    BY DEF TablesOK, Domains
  <2>3. rdvedges[u] \subseteq SoundEdges /\ IsFiniteSet(rdvedges[u])
    BY DEF TablesOK, EdgesOK
  <2>4. EdgesOK(u)'
    <3>1. rdvedges'[u] \subseteq SoundEdges
      BY <2>2, <2>3
    <3>2. IsFiniteSet(rdvedges'[u])
      <4>1. IsFiniteSet(rdvedges[u] \cup {e})
        BY <2>3, FS_AddElement
      <4> QED BY <2>2, <2>3, <4>1
    <3> QED BY <3>1, <3>2 DEF EdgesOK
  <2> QED BY <2>1, <2>4
<1> QED BY <1>2, <1>3 DEF TablesOK

LEMMA RdvStepSound ==
  ASSUME SoundInv, smactionRDV
  PROVE  SoundInv'
<1> DEFINE s == Head(jobs).sw
           f == Head(jobs).frame
           gws == getRdvPoint(s, f.bucket, f.svid)
           mine == lookupVidEntry(s, f.dhost) /\ lookupVidEntry(s, f.dvid)
           reply == NewFrame("REPLY", rinterfaces[s][f.port], f.svid, f.bucket,
                             [j \in DOMAIN gws |-> getSwitchVID(gws[j])])
<1>0. jobs # <<>>
  BY DEF smactionRDV
<1>1. s \in Switches /\ f \in SoundFrames /\ f.port \in Indices(s) /\ Tail(jobs) \in Seq(SoundJobs)
  BY <1>0, JobAtHand
<1>2. \/ jobs' = Tail(jobs)
      \/ jobs' = <<Job("route", s, f)>> \o Tail(jobs)
      \/ f.type = "QUERY" /\ jobs' = <<Job("route", s, reply)>> \o Tail(jobs)
      \/ f.type = "REPLY" /\ f.vids # <<>> /\ jobs' = <<Job("learn", s, f)>> \o Tail(jobs)
  <2> HIDE DEF reply
  <2> QED BY DEF smactionRDV, lookupIntEntry, reply
<1>3. /\ \/ rdvedges' = rdvedges
         \/ f.type = "PUBLISH" /\ rdvedges' = [rdvedges EXCEPT ![s] = @ \cup {<<f.svid, f.vids[1]>>}]
      /\ UNCHANGED <<ivars, neighbors, routes, hellos, frames>>
  BY DEF smactionRDV, updateEdge
<1> HIDE DEF s, f
<1>4. jobs' \in Seq(SoundJobs)
  <2>1. f.type = "QUERY" => Job("route", s, reply) \in SoundJobs
    BY <1>1, SwitchOK, ReplySound
  <2>2. Job("route", s, f) \in SoundJobs
    BY <1>1, SoundJob
  <2>3. f.type = "REPLY" /\ f.vids # <<>> => Job("learn", s, f) \in SoundJobs
    BY <1>1, SoundJob
  <2> HIDE DEF reply
  <2> QED BY <1>1, <1>2, <2>1, <2>2, <2>3, Prepend
<1>5. TablesOK'
  <2>1. CASE rdvedges' = rdvedges
    BY <1>3, <2>1, SameTables DEF SoundInv, tables
  <2>2. CASE f.type = "PUBLISH" /\ rdvedges' = [rdvedges EXCEPT ![s] = @ \cup {<<f.svid, f.vids[1]>>}]
    <3>1. f.svid \in SwitchVIDs /\ f.vids \in Seq(SwitchVIDs) /\ f.vids # <<>>
          /\ (StaticVIDs => Joined(f.svid, f.vids[1]))
      BY <1>1, <2>2 DEF SoundFrames
    <3>2. f.vids[1] \in SwitchVIDs
      BY <3>1
    <3>3. <<f.svid, f.vids[1]>> \in SoundEdges
      BY <3>1, <3>2 DEF SoundEdges, RendezvousEdge
    <3> QED BY <1>1, <1>3, <2>2, <3>3, NewEdge DEF SoundInv
  <2> QED BY <1>3, <2>1, <2>2
<1> QED BY <1>3, <1>4, <1>5 DEF SoundInv

\* The next hop towards a gateway leads at most as far as the gateway.
LEMMA LearnStepSound ==
  ASSUME SoundInv, smactionReply
  PROVE  SoundInv'
<1> DEFINE job == Head(jobs)
           s == job.sw
           f == job.frame
           g == f.vids[job.gw]
           r == DefaultRoute(s, f.dvid, g)
           next == [job EXCEPT !.gw = job.gw + 1]
           t == UpdatedRoutes(routes[s], interfaces[s], f.dvid, f.bucket, r.nexthop, g, job.gw = 1)
<1>0. jobs # <<>> /\ job.op = "learn"
  BY DEF smactionReply
<1>1. /\ job \in SoundJobs /\ job \in Jobs /\ s \in Switches /\ f \in SoundFrames /\ f \in Frame
      /\ Tail(jobs) \in Seq(SoundJobs)
  BY <1>0, JobAtHand
<1>2. f.type = "REPLY" /\ job.gw \in DOMAIN f.vids /\ job.gw \in Nat \ {0}
  BY <1>0, <1>1 DEF SoundJobs, Jobs
<1>3. /\ f.vids \in Seq(SwitchVIDs) /\ f.bucket \in Levels /\ f.dvid \in VIDs
      /\ StaticVIDs => GatewaySound(f.dvid, f.bucket, g)
  BY <1>1, <1>2 DEF SoundFrames, Frame
<1>4. g \in VIDs
  BY <1>2, <1>3, SwitchVID
<1>5. /\ \/ routes' = routes
         \/ /\ ~ SameSwitch(f.dvid, g) /\ r.found
            /\ routes' = [routes EXCEPT ![s] = t]
      /\ \/ jobs' = Tail(jobs)
         \/ job.gw < Len(f.vids) /\ jobs' = <<next>> \o Tail(jobs)
      /\ UNCHANGED <<ivars, neighbors, rdvedges, hellos, frames>>
  <2>1. routes' = (IF ~ SameSwitch(f.dvid, g) /\ r.found
                     THEN [routes EXCEPT ![s] =
                             UpdatedRoutes(@, interfaces[s], f.dvid, f.bucket,
                                           r.nexthop, g, job.gw = 1)]
                     ELSE routes)
    BY DEF smactionReply
  <2>2. /\ jobs' = (IF job.gw < Len(f.vids) THEN <<next>> \o Tail(jobs) ELSE Tail(jobs))
        /\ UNCHANGED <<ivars, neighbors, rdvedges, hellos, frames>>
    BY DEF smactionReply
  <2> QED BY <2>1, <2>2
<1> HIDE DEF s, f, g, r, next, t
<1>6. jobs' \in Seq(SoundJobs)
  <2>1. CASE job.gw < Len(f.vids)
    <3>1. job.gw + 1 \in DOMAIN f.vids /\ job.gw + 1 \in Nat \ {0}
      BY <1>2, <1>3, <2>1
    <3>2. next \in Jobs /\ next.op = job.op /\ next.sw = job.sw /\ next.frame = f /\ next.gw = job.gw + 1
      BY <1>1, <3>1 DEF Jobs, next, f
    <3>3. next \in SoundJobs
      BY <1>1, <3>1, <3>2 DEF SoundJobs, f
    <3> QED BY <1>1, <1>5, <3>3, Prepend
  <2> QED BY <1>1, <1>5, <2>1
<1>7. ASSUME ~ SameSwitch(f.dvid, g), r.found
      PROVE  IsRouteTable(s, t)
  <2>1. InterfacesOK(s) /\ IsRouteTable(s, routes[s])
    BY <1>1, SwitchOK
  <2>2. r.nexthop \in VIDs
    BY <1>1, <1>3, <1>4, <2>1, DefaultRouteSound DEF r
  <2>3. ASSUME StaticVIDs, NEW d \in BOOLEAN
        PROVE  RouteSound(f.dvid, f.bucket, Route(r.nexthop, g, d))
    <3> DEFINE b == logical_distance(f.dvid, g)
               x == logical_distance(f.dvid, r.nexthop)
    <3>1. PICK h \in VIDs : RouteSound(f.dvid, b, Route(r.nexthop, h, TRUE))
      BY <1>1, <1>3, <1>4, <1>7, <2>1, <2>3, DefaultRouteSound DEF r
    <3>2. \/ x = b
          \/ /\ logical_distance(f.dvid, h) \in HostBits + 1 .. b - 1
             /\ x <= logical_distance(f.dvid, h)
      BY <3>1 DEF RouteSound, Route
    <3>3. b \in Nat /\ b > HostBits
      <4>1. b \in Nat
        BY <1>3, <1>4, Dist
      <4> QED BY <1>7, <4>1, WidthAssumption DEF SameSwitch
    <3>4. x \in Nat
      BY <1>3, <2>2, Dist
    <3> HIDE DEF x
    <3>5. x <= b
      BY <3>2, <3>3, <3>4, WidthAssumption
    <3>6. b < f.bucket /\ \E w \in VIDs : Joined(g, w) /\ logical_distance(f.dvid, w) = f.bucket
      BY <1>3, <2>3 DEF GatewaySound
    <3>7. b \in HostBits + 1 .. f.bucket - 1
      <4>1. f.bucket \in Nat
        BY <1>3, WidthAssumption DEF Levels
      <4> HIDE DEF b
      <4> QED BY <3>3, <3>6, <4>1, WidthAssumption
    <3>8. Route(r.nexthop, g, d).gateway = g /\ Route(r.nexthop, g, d).nexthop = r.nexthop
      BY DEF Route
    <3> QED BY <3>5, <3>6, <3>7, <3>8 DEF RouteSound, x
  <2>4. (job.gw = 1) \in BOOLEAN
    OBVIOUS
  <2>5. StaticVIDs => RouteSound(f.dvid, f.bucket, Route(r.nexthop, g, job.gw = 1))
    BY <2>3, <2>4
  <2> QED BY <1>1, <1>3, <1>4, <2>1, <2>2, <2>4, <2>5, UpdatedSound DEF t
<1>8. TablesOK'
  <2>1. CASE routes' = routes
    BY <1>5, <2>1, SameTables DEF SoundInv, tables
  <2>2. CASE /\ ~ SameSwitch(f.dvid, g) /\ r.found
             /\ routes' = [routes EXCEPT ![s] = t]
    BY <1>1, <1>5, <1>7, <2>2, NewRoutes DEF SoundInv
  <2> QED BY <1>5, <2>1, <2>2
<1> QED BY <1>5, <1>6, <1>8 DEF SoundInv

\* A direct route: its interface is the gateway.
LEMMA BuildStepSound ==
  ASSUME SoundInv, buildStep
  PROVE  SoundInv'
<1> DEFINE s == Head(jobs).sw
           f == Head(jobs).frame
           t == UpdatedRoutes(routes[s], interfaces[s], f.svid, f.bucket, f.vids[1], f.svid, TRUE)
<1>0. jobs # <<>> /\ Head(jobs).op = "build"
  BY DEF buildStep
<1>1. /\ Head(jobs) \in SoundJobs /\ s \in Switches /\ f \in SoundFrames /\ f \in Frame
      /\ f.port \in Indices(s) /\ Tail(jobs) \in Seq(SoundJobs)
  BY <1>0, JobAtHand
<1>2. f.type # "REPLY"
  BY <1>0, <1>1 DEF SoundJobs
<1>3. /\ \/ routes' = routes
         \/ f.type # "QUERY" /\ f.bucket # 0 /\ routes' = [routes EXCEPT ![s] = t]
      /\ jobs' = Tail(jobs) \/ jobs' = <<Job("route", s, f)>> \o Tail(jobs)
      /\ UNCHANGED <<ivars, neighbors, rdvedges, hellos, frames>>
  BY DEF buildStep
<1> HIDE DEF s, f, t
<1>4. jobs' \in Seq(SoundJobs)
  <2>1. Job("route", s, f) \in SoundJobs
    BY <1>1, SoundJob
  <2> QED BY <1>1, <1>3, <2>1, Prepend
<1>5. ASSUME f.type # "QUERY", f.bucket # 0
      PROVE  IsRouteTable(s, t)
  <2>1. f.type = "PUBLISH"
    BY <1>1, <1>2, <1>5 DEF Frame
  <2>2. /\ f.svid \in SwitchVIDs /\ f.vids \in Seq(SwitchVIDs) /\ f.vids # <<>> /\ f.bucket \in Levels
        /\ StaticVIDs => /\ Joined(f.svid, f.vids[1])
                         /\ logical_distance(f.svid, f.vids[1]) = f.bucket
    BY <1>1, <1>5, <2>1 DEF SoundFrames
  <2>3. f.vids[1] \in VIDs /\ f.svid \in VIDs
    BY <2>2, SwitchVID
  <2>4. StaticVIDs => RouteSound(f.svid, f.bucket, Route(f.vids[1], f.svid, TRUE))
    BY <2>2, <2>3 DEF RouteSound, Route
  <2> QED BY <1>1, <2>2, <2>3, <2>4, SwitchOK, UpdatedSound DEF t
<1>6. TablesOK'
  <2>1. CASE routes' = routes
    BY <1>3, <2>1, SameTables DEF SoundInv, tables
  <2>2. CASE f.type # "QUERY" /\ f.bucket # 0 /\ routes' = [routes EXCEPT ![s] = t]
    BY <1>1, <1>3, <1>5, <2>2, NewRoutes DEF SoundInv
  <2> QED BY <1>3, <2>1, <2>2
<1> QED BY <1>3, <1>4, <1>6 DEF SoundInv

-----------------------------------------------------------------------------
(* Timers and arrivals.                                                    *)

LEMMA HelloStepSound ==
  ASSUME SoundInv, NEW s \in Switches, generateHello(s)
  PROVE  SoundInv'
<1> DEFINE vid(n) == IF isvidset[s][n] THEN rinterfaces[s][n] ELSE ZeroVID
           hello(e) == [from |-> <<s, e[1]>>, to |-> e[2], vid |-> vid(e[1]), reply |-> FALSE]
           E == {e \in Indices(s) \X Macs : e[2] \in Peers(<<s, e[1]>>)}
<1>1. hellos' = hellos \cup {hello(e) : e \in E}
      /\ UNCHANGED <<ivars, tables, frames, jobs>>
  BY DEF generateHello, lookupIntEntry, getMacAddr
<1>2. ASSUME NEW e \in E PROVE hello(e) \in SoundHellos
  <2> DEFINE n == e[1]
             m == <<s, n>>
  <2>1. n \in Indices(s) /\ e[2] \in Macs /\ e[2] \in Peers(m) /\ m \in Macs
    BY IndexIsInterface
  <2>2. InterfacesOK(s)
    BY SwitchOK
  <2>3. vid(n) \in SwitchVIDs /\ (StaticVIDs => vid(n) = ConfigVID[m])
    BY <2>1, <2>2, SwitchVID DEF InterfacesOK, ConfiguredTables
  <2> HIDE DEF n, m, vid
  <2>4. hello(e) = [from |-> m, to |-> e[2], vid |-> vid(n), reply |-> FALSE]
    BY DEF m, n
  <2> HIDE DEF hello
  <2> QED BY <2>1, <2>3, <2>4 DEF SoundHellos, Hello
<1> HIDE DEF hello, E
<1>3. hellos' \subseteq SoundHellos
  BY <1>1, <1>2 DEF SoundInv
<1> QED BY <1>1, <1>3, SameTables DEF SoundInv

LEMMA HearSound ==
  ASSUME SoundInv, NEW h \in hellos, processHello(h)
  PROVE  SoundInv'
<1> DEFINE s == h.to[1]
           n == h.to[2]
           mine == rinterfaces[s][n]
           x == [neighborVID |-> h.vid, myVid |-> mine]
           answer == [from |-> h.to, to |-> h.from, vid |-> mine, reply |-> TRUE]
<1>1. /\ h \in SoundHellos /\ h.from \in Macs /\ h.to \in Macs /\ h.vid \in SwitchVIDs
      /\ StaticVIDs => h.vid = ConfigVID[h.from] /\ h.to \in Peers(h.from)
  BY DEF SoundInv, SoundHellos, Hello
<1>2. s \in Switches /\ n \in Indices(s) /\ h.to = <<s, n>>
  BY <1>1, InterfaceHasIndex
<1>3. /\ neighbors' = [neighbors EXCEPT ![s] = Put(@, h.from, x)]
      /\ hellos' \subseteq hellos \cup {answer}
      /\ UNCHANGED <<ivars, rdvedges, routes, frames, jobs>>
  BY DEF processHello, updateNeighbor, lookupIntEntry
<1>4. InterfacesOK(s) /\ NeighborsOK(s) /\ TablesOK
  BY <1>2, SwitchOK DEF SoundInv
<1> HIDE DEF s, n
<1>5. mine \in SwitchVIDs /\ (StaticVIDs => mine = ConfigVID[h.to])
  BY <1>2, <1>4 DEF InterfacesOK, ConfiguredTables
<1> HIDE DEF mine
<1>6. StaticVIDs => h.from \in Peers(h.to)
  BY <1>1 DEF Peers
<1>7. x \in SoundNeighbors(s, h.from)
  <2>1. StaticVIDs => h.to[1] = s /\ h.to \in Peers(h.from) /\ x.myVid = ConfigVID[h.to]
    BY <1>1, <1>5 DEF s
  <2> QED BY <1>1, <1>5, <2>1 DEF SoundNeighbors, NeighborTableEntry
<1>8. answer \in SoundHellos
  BY <1>1, <1>5, <1>6 DEF SoundHellos, Hello
<1> HIDE DEF x, answer
<1>9. hellos' \subseteq SoundHellos
  BY <1>3, <1>8 DEF SoundInv
<1>10. ASSUME NEW u \in Switches PROVE NeighborsOK(u)'
  <2>1. NeighborsOK(u) /\ neighbors'[u] = IF u = s THEN Put(neighbors[u], h.from, x) ELSE neighbors[u]
    BY <1>3, <1>4 DEF TablesOK, Domains
  <2>2. CASE u # s
    BY <2>1, <2>2 DEF NeighborsOK
  <2>3. CASE u = s
    <3>1. neighbors'[u] = Put(neighbors[u], h.from, x)
      BY <2>1, <2>3
    <3>2. /\ DOMAIN neighbors'[u] = DOMAIN neighbors[u] \cup {h.from}
          /\ neighbors'[u] = [m \in DOMAIN neighbors'[u] |-> neighbors'[u][m]]
          /\ \A m \in DOMAIN neighbors'[u] :
                neighbors'[u][m] = IF m = h.from THEN x ELSE neighbors[u][m]
      BY <3>1 DEF Put
    <3>3. \A m \in DOMAIN neighbors'[u] : m \in Macs /\ neighbors'[u][m] \in SoundNeighbors(u, m)
      BY <1>1, <1>7, <2>1, <2>3, <3>2 DEF NeighborsOK, IsTable
    <3>4. IsFiniteSet(DOMAIN neighbors'[u])
      <4>1. IsFiniteSet(DOMAIN neighbors[u])
        BY <2>1 DEF NeighborsOK
      <4>2. IsFiniteSet(DOMAIN neighbors[u] \cup {h.from})
        BY <4>1, FS_AddElement
      <4> QED BY <3>2, <4>2
    <3>5. IsTable(neighbors'[u], Macs, NeighborTableEntry)
      BY <3>2, <3>3 DEF IsTable, SoundNeighbors
    <3> QED BY <3>3, <3>4, <3>5 DEF NeighborsOK
  <2> QED BY <2>2, <2>3
<1>11. TablesOK'
  <2>1. UNCHANGED ivars /\ UNCHANGED <<rdvedges, routes>>
    BY <1>3
  <2>2. Domains'
    BY <1>3, <1>4, <2>1 DEF TablesOK, Domains, ivars
  <2>3. \A u \in Switches : InterfacesOK(u)' /\ EdgesOK(u)' /\ IsRouteTable(u, routes'[u])
    BY <1>4, <2>1, SameInterfaces DEF TablesOK, EdgesOK
  <2> QED BY <1>10, <2>2, <2>3 DEF TablesOK
<1> QED BY <1>3, <1>9, <1>11 DEF SoundInv

LEMMA ReceiveSound ==
  ASSUME SoundInv, NEW m \in frames, receive(m)
  PROVE  SoundInv'
<1> DEFINE s == m.to[1]
           f == [m.frame EXCEPT !.port = m.to[2]]
<1>1. m.to \in Macs /\ m.frame \in SoundFrames /\ m.frame \in Frame
  BY DEF SoundInv, SoundFrames
<1>2. s \in Switches /\ m.to[2] \in Indices(s) /\ m.to[2] \in Nat
  BY <1>1, InterfaceHasIndex, AnInterface
<1>3. /\ jobs' = <<Job("rdv", s, f)>> /\ frames' = frames \ {m}
      /\ UNCHANGED <<ivars, tables, hellos>>
  BY DEF receive
<1>4. f \in Frame /\ f.port = m.to[2] /\ f.type = m.frame.type /\ f.svid = m.frame.svid
      /\ f.dvid = m.frame.dvid /\ f.bucket = m.frame.bucket /\ f.vids = m.frame.vids
  BY <1>1, <1>2 DEF Frame
<1> HIDE DEF s, f
<1>5. f \in SoundFrames
  BY <1>1, <1>4 DEF SoundFrames
<1>6. Job("rdv", s, f) \in SoundJobs
  BY <1>2, <1>4, <1>5, SoundJob
<1>7. jobs' \in Seq(SoundJobs)
  BY <1>3, <1>6
<1> QED BY <1>3, <1>7, SameTables DEF SoundInv

\* Positions in the lists of pairs the route builder walks through.
LEMMA PairIndex ==
  ASSUME NEW n \in Nat, NEW l \in Nat, NEW j \in 1 .. n * l
  PROVE  /\ ((j - 1) \div l) + 1 \in 1 .. n
         /\ (j - 1) % l \in 0 .. l - 1
<1>1. l # 0 /\ j \in Nat /\ n * l \in Nat /\ j - 1 \in Nat /\ j - 1 < n * l
  <2>1. n * l \in Nat
    OBVIOUS
  <2>2. l = 0 => n * l = 0
    OBVIOUS
  <2>3. j \in Nat /\ 1 <= j /\ j <= n * l
    BY <2>1
  <2> QED BY <2>1, <2>2, <2>3
<1> DEFINE q == (j - 1) \div l
           r == (j - 1) % l
<1>2. r \in 0 .. l - 1 /\ q \in Nat /\ j - 1 = l * q + r
  BY <1>1, Z3
<1> HIDE DEF q, r
<1>3. q < n
  <2> SUFFICES ASSUME n <= q PROVE FALSE
    BY <1>2
  <2>1. l * n <= l * q
    BY <1>2
  <2>2. n * l = l * n
    OBVIOUS
  <2>3. l * n \in Nat /\ l * q \in Nat
    BY <1>2
  <2> QED BY <1>1, <1>2, <2>1, <2>2, <2>3
<1> QED BY <1>2, <1>3 DEF q, r

LEMMA JobList ==
  ASSUME NEW n \in Nat, NEW f, \A j \in 1 .. n : f[j] \in SoundJobs
  PROVE  [j \in 1 .. n |-> f[j]] \in Seq(SoundJobs)
OBVIOUS

\* One publication, of a neighbour or of another interface.
LEMMA PublishJob ==
  ASSUME NEW s \in Switches, NEW v \in SwitchVIDs, NEW w \in SwitchVIDs,
         StaticVIDs => Joined(v, w)
  PROVE  Job("build", s, rdv_publish(v, w, logical_distance(w, v))) \in SoundJobs
<1> DEFINE k == logical_distance(w, v)
           p == calculate_rdv_point(v, k)
           vids == <<w>>
           f == NewFrame("PUBLISH", v, p, k, vids)
<1>1. v \in VIDs /\ w \in VIDs /\ getSwitchVID(w) = w
  BY SwitchVID
<1>2. k \in {0} \cup Levels /\ logical_distance(v, w) = k
  BY <1>1, SwitchDistance, Dist
<1> HIDE DEF k
<1>3. p \in VIDs
  BY <1>1 DEF calculate_rdv_point, VIDs
<1> HIDE DEF p
<1>4. f \in SoundFrames /\ f.port = 0 /\ f.type = "PUBLISH"
  <2>1. vids \in Seq(SwitchVIDs) /\ vids # <<>> /\ vids[1] = w
    OBVIOUS
  <2> HIDE DEF vids
  <2>2. /\ "PUBLISH" = "PUBLISH" =>
              /\ vids # <<>>
              /\ StaticVIDs => Joined(v, vids[1]) /\ logical_distance(v, vids[1]) = k
        /\ "PUBLISH" # "PUBLISH" => k \in Levels
        /\ "PUBLISH" = "REPLY" /\ StaticVIDs => \A j \in DOMAIN vids : GatewaySound(p, k, vids[j])
    BY <1>2, <2>1
  <2>3. "PUBLISH" \in {"PUBLISH", "QUERY", "REPLY"}
    OBVIOUS
  <2> QED BY ONLY <1>2, <1>3, <2>1, <2>2, <2>3, SoundNewFrame
<1>5. rdv_publish(v, w, k) = f
  BY <1>1 DEF rdv_publish, p
<1> HIDE DEF f
<1>6. Job("build", s, f) \in SoundJobs
  BY <1>4, SoundJob, AnInterface
<1> QED BY <1>5, <1>6 DEF k

LEMMA QueryJob ==
  ASSUME NEW s \in Switches, NEW v \in SwitchVIDs, NEW k \in Levels
  PROVE  Job("build", s, rdv_query(v, k)) \in SoundJobs
<1> DEFINE p == calculate_rdv_point(v, k)
           f == NewFrame("QUERY", v, p, k, <<>>)
<1>1. p \in VIDs
  BY SwitchVID DEF calculate_rdv_point, VIDs
<1> HIDE DEF p
<1>2. f \in SoundFrames /\ f.port = 0 /\ f.type = "QUERY"
  <2>1. /\ "QUERY" \in {"PUBLISH", "QUERY", "REPLY"} /\ k \in {0} \cup Levels
        /\ <<>> \in Seq(SwitchVIDs)
    OBVIOUS
  <2>2. /\ "QUERY" = "PUBLISH" =>
              /\ <<>> # <<>>
              /\ StaticVIDs => Joined(v, <<>>[1]) /\ logical_distance(v, <<>>[1]) = k
        /\ "QUERY" # "PUBLISH" => k \in Levels
        /\ "QUERY" = "REPLY" /\ StaticVIDs => \A j \in DOMAIN <<>> : GatewaySound(p, k, <<>>[j])
    OBVIOUS
  <2> QED BY ONLY <1>1, <2>1, <2>2, SoundNewFrame
<1> HIDE DEF f
<1>3. Job("build", s, f) \in SoundJobs
  BY <1>2, SoundJob, AnInterface
<1> QED BY <1>3 DEF rdv_query, f, p

\* interfaces[myVid] inserts VIDs of the past; with static VIDs there are none.
LEMMA TouchedOK ==
  ASSUME NEW s \in Switches, InterfacesOK(s), NeighborsOK(s)
  PROVE  LET t == TouchedInterfaces(s) IN
         /\ IsTable(t, SwitchVIDs, Indices(s)) /\ IsFiniteSet(DOMAIN t)
         /\ StaticVIDs => DOMAIN t = DOMAIN interfaces[s]
         /\ \A v \in DOMAIN interfaces[s] : t[v] = interfaces[s][v]
<1> DEFINE t == TouchedInterfaces(s)
           x == [m \in DOMAIN neighbors[s] |-> neighbors[s][m].myVid]
           X == {x[m] : m \in DOMAIN neighbors[s]}
<1>1. \A m \in DOMAIN neighbors[s] :
         /\ x[m] \in SwitchVIDs
         /\ StaticVIDs => x[m] \in DOMAIN interfaces[s]
  <2> SUFFICES ASSUME NEW m \in DOMAIN neighbors[s]
               PROVE  /\ neighbors[s][m].myVid \in SwitchVIDs
                      /\ StaticVIDs => neighbors[s][m].myVid \in DOMAIN interfaces[s]
    OBVIOUS
  <2>1. neighbors[s][m] \in SoundNeighbors(s, m)
    BY DEF NeighborsOK
  <2>2. neighbors[s][m].myVid \in SwitchVIDs
    BY <2>1 DEF SoundNeighbors, NeighborTableEntry
  <2>3. ASSUME StaticVIDs PROVE neighbors[s][m].myVid \in DOMAIN interfaces[s]
    <3>1. PICK p \in Macs : p[1] = s /\ neighbors[s][m].myVid = ConfigVID[p]
      BY <2>1, <2>3 DEF SoundNeighbors, NeighborTableEntry
    <3>2. p = <<s, p[2]>> /\ p[2] \in Indices(s)
      BY <3>1, InterfaceHasIndex
    <3>3. neighbors[s][m].myVid = ConfigVID[<<s, p[2]>>]
      BY <3>1, <3>2
    <3>4. DOMAIN interfaces[s] = {ConfigVID[<<s, n>>] : n \in Indices(s)}
      BY <2>3 DEF InterfacesOK, ConfiguredTables
    <3> QED BY <3>2, <3>3, <3>4
  <2> QED BY <2>2, <2>3
<1>2. IsFiniteSet(X)
  <2>1. IsFiniteSet(DOMAIN neighbors[s])
    BY DEF NeighborsOK
  <2> HIDE DEF x
  <2> QED BY <2>1, FiniteImage
<1>3. t = [v \in DOMAIN interfaces[s] \cup X |->
             IF v \in DOMAIN interfaces[s] THEN interfaces[s][v] ELSE 0]
  BY DEF TouchedInterfaces
<1> HIDE DEF t, x
<1>4. X \subseteq SwitchVIDs /\ (StaticVIDs => X \subseteq DOMAIN interfaces[s])
  BY <1>1
<1> HIDE DEF X
<1>5. IsTable(interfaces[s], SwitchVIDs, Indices(s)) /\ IsFiniteSet(DOMAIN interfaces[s])
  BY DEF InterfacesOK
<1>6. IsFiniteSet(DOMAIN t)
  <2>1. IsFiniteSet(DOMAIN interfaces[s] \cup X)
    BY <1>2, <1>5, FS_Union
  <2> QED BY <1>3, <2>1
<1>7. IsTable(t, SwitchVIDs, Indices(s))
  BY <1>3, <1>4, <1>5, AnInterface DEF IsTable
<1>8. StaticVIDs => DOMAIN t = DOMAIN interfaces[s]
  BY <1>3, <1>4
<1>9. \A v \in DOMAIN interfaces[s] : t[v] = interfaces[s][v]
  BY <1>3
<1> QED BY <1>6, <1>7, <1>8, <1>9 DEF t

\* The list of publications and queries.
LEMMA BuildJobs ==
  ASSUME SoundInv, NEW s \in Switches, buildRouteTable(s)
  PROVE  jobs' \in Seq(SoundJobs)
<1> DEFINE T == DOMAIN TouchedInterfaces(s)
           N == DOMAIN neighbors[s]
           n == Cardinality(T)
           c == Cardinality(N)
           levels == ActiveBits - HostBits
           Publish(v, w) == Job("build", s, rdv_publish(v, w, logical_distance(w, v)))
           Query(v, k)   == Job("build", s, rdv_query(v, k))
<1>0. InterfacesOK(s) /\ NeighborsOK(s)
  BY SwitchOK
<1>1. /\ T \subseteq SwitchVIDs /\ IsFiniteSet(T)
      /\ StaticVIDs => T = {ConfigVID[<<s, i>>] : i \in Indices(s)}
  <2>1. StaticVIDs => ConfiguredTables(s)
    BY <1>0 DEF InterfacesOK
  <2> QED BY <1>0, <2>1, TouchedOK DEF IsTable, ConfiguredTables
<1>2. N \subseteq Macs /\ IsFiniteSet(N) /\ \A m \in N : neighbors[s][m] \in SoundNeighbors(s, m)
  BY <1>0 DEF NeighborsOK, IsTable
<1>3. PICK a \in Orders(N), o \in Orders(T) :
        jobs' = [j \in DOMAIN a |-> Publish(neighbors[s][a[j]].myVid, neighbors[s][a[j]].neighborVID)]
                \o [j \in 1 .. n * n |-> Publish(o[((j - 1) \div n) + 1], o[((j - 1) % n) + 1])]
                \o [j \in 1 .. n * levels |->
                      Query(o[((j - 1) \div levels) + 1], HostBits + 1 + ((j - 1) % levels))]
  BY DEF buildRouteTable
<1> DEFINE A == [j \in DOMAIN a |-> Publish(neighbors[s][a[j]].myVid, neighbors[s][a[j]].neighborVID)]
           B == [j \in 1 .. n * n |-> Publish(o[((j - 1) \div n) + 1], o[((j - 1) % n) + 1])]
           C == [j \in 1 .. n * levels |->
                   Query(o[((j - 1) \div levels) + 1], HostBits + 1 + ((j - 1) % levels))]
<1> HIDE DEF T, N
<1>4. n \in Nat /\ c \in Nat
  BY <1>1, <1>2, FS_CardinalityType
<1>5. a \in [1 .. c -> N] /\ o \in [1 .. n -> T]
  BY DEF Orders
<1> HIDE DEF n, c
<1>6. A \in Seq(SoundJobs)
  <2>1. DOMAIN a = 1 .. c
    BY <1>5
  <2>2. ASSUME NEW j \in 1 .. c
        PROVE  Publish(neighbors[s][a[j]].myVid, neighbors[s][a[j]].neighborVID) \in SoundJobs
    <3> DEFINE m == a[j]
               v == neighbors[s][m].myVid
               w == neighbors[s][m].neighborVID
    <3>1. m \in N /\ m \in Macs /\ neighbors[s][m] \in SoundNeighbors(s, m)
      BY <1>2, <1>5
    <3> HIDE DEF m
    <3>2. v \in SwitchVIDs /\ w \in SwitchVIDs
      BY <3>1 DEF SoundNeighbors, NeighborTableEntry
    <3>3. ASSUME StaticVIDs PROVE Joined(v, w)
      <4>1. PICK p \in Macs : p \in Peers(m) /\ v = ConfigVID[p] /\ w = ConfigVID[m]
        BY <3>1, <3>3 DEF SoundNeighbors, NeighborTableEntry
      <4>2. m \in Peers(p)
        BY <3>1, <4>1 DEF Peers
      <4> QED BY <3>1, <4>1, <4>2 DEF Joined
    <3> HIDE DEF v, w
    <3>4. Publish(v, w) \in SoundJobs
      BY <3>2, <3>3, PublishJob
    <3> QED BY <3>4 DEF v, w, m
  <2> HIDE DEF Publish
  <2> QED BY <1>4, <2>1, <2>2
<1>7. B \in Seq(SoundJobs)
  <2>1. ASSUME NEW j \in 1 .. n * n
        PROVE  Publish(o[((j - 1) \div n) + 1], o[((j - 1) % n) + 1]) \in SoundJobs
    <3> DEFINE i == ((j - 1) \div n) + 1
               k == ((j - 1) % n) + 1
               v == o[i]
               w == o[k]
    <3>1. i \in 1 .. n /\ (j - 1) % n \in 0 .. n - 1
      BY <1>4, PairIndex
    <3> HIDE DEF i
    <3>2. k \in 1 .. n
      BY <1>4, <3>1
    <3> HIDE DEF k
    <3>3. v \in T /\ w \in T /\ v \in SwitchVIDs /\ w \in SwitchVIDs
      BY <1>1, <1>5, <3>1, <3>2
    <3>4. ASSUME StaticVIDs PROVE Joined(v, w)
      <4>1. PICK x \in Indices(s), y \in Indices(s) :
               v = ConfigVID[<<s, x>>] /\ w = ConfigVID[<<s, y>>]
        BY <1>1, <3>3, <3>4
      <4>2. <<s, x>> \in Macs /\ <<s, y>> \in Macs
        BY IndexIsInterface
      <4> QED BY <4>1, <4>2 DEF Joined
    <3> HIDE DEF v, w
    <3>5. Publish(v, w) \in SoundJobs
      BY <3>3, <3>4, PublishJob
    <3> QED BY <3>5 DEF v, w, i, k
  <2>2. n * n \in Nat
    BY <1>4
  <2> HIDE DEF Publish
  <2> QED BY <2>1, <2>2
<1>8. C \in Seq(SoundJobs)
  <2>0. levels \in Nat /\ HostBits \in Nat /\ levels + HostBits = ActiveBits /\ ActiveBits <= VidBits
        /\ ActiveBits \in Nat
    BY RoutingAssumption, WidthAssumption
  <2> HIDE DEF levels
  <2>1. ASSUME NEW j \in 1 .. n * levels
        PROVE  Query(o[((j - 1) \div levels) + 1], HostBits + 1 + ((j - 1) % levels)) \in SoundJobs
    <3> DEFINE i == ((j - 1) \div levels) + 1
               r == (j - 1) % levels
               v == o[i]
    <3>1. i \in 1 .. n /\ r \in 0 .. levels - 1
      BY <1>4, <2>0, PairIndex
    <3> HIDE DEF i, r
    <3>2. v \in SwitchVIDs
      BY <1>1, <1>5, <3>1
    <3>3. HostBits + 1 + r \in Levels
      BY <2>0, <3>1, WidthAssumption DEF Levels
    <3> HIDE DEF v
    <3>4. Query(v, HostBits + 1 + r) \in SoundJobs
      BY <3>2, <3>3, QueryJob
    <3> QED BY <3>4 DEF v, i, r
  <2>2. n * levels \in Nat
    BY <1>4, <2>0
  <2> HIDE DEF Query
  <2> QED BY <2>1, <2>2
<1>9. jobs' = A \o B \o C
  BY <1>3
<1> HIDE DEF A, B, C
<1> QED BY <1>6, <1>7, <1>8, <1>9

\* The interface tables of one switch change.
LEMMA NewInterfaces ==
  ASSUME TablesOK, NEW s \in Switches, InterfacesOK(s)', Domains',
         \A u \in Switches \ {s} : /\ interfaces'[u] = interfaces[u]
                                   /\ rinterfaces'[u] = rinterfaces[u]
                                   /\ isvidset'[u] = isvidset[u]
                                   /\ isVIDAssignmentDone'[u] = isVIDAssignmentDone[u],
         UNCHANGED tables
  PROVE  TablesOK'
<1>1. UNCHANGED <<neighbors, rdvedges, routes>>
  BY DEF tables
<1>2. ASSUME NEW u \in Switches
      PROVE  /\ InterfacesOK(u)' /\ NeighborsOK(u)' /\ EdgesOK(u)'
             /\ IsRouteTable(u, routes'[u])
  <2>1. InterfacesOK(u)'
    <3>1. CASE u = s
      BY <3>1
    <3>2. CASE u # s
      <4>1. InterfacesOK(u)
        BY DEF TablesOK
      <4>2. /\ interfaces'[u] = interfaces[u] /\ rinterfaces'[u] = rinterfaces[u]
            /\ isvidset'[u] = isvidset[u] /\ isVIDAssignmentDone'[u] = isVIDAssignmentDone[u]
        BY <3>2
      <4>3. ConfiguredTables(u) <=> ConfiguredTables(u)'
        BY <4>2 DEF ConfiguredTables
      <4>4. /\ IsTable(interfaces'[u], SwitchVIDs, Indices(u))
            /\ IsFiniteSet(DOMAIN interfaces'[u])
            /\ rinterfaces'[u] \in [Indices(u) -> SwitchVIDs]
            /\ isvidset'[u] \in [Indices(u) -> BOOLEAN]
            /\ isVIDAssignmentDone'[u] \in BOOLEAN
            /\ StaticVIDs => ConfiguredTables(u)
        BY <4>1, <4>2 DEF InterfacesOK
      <4> QED BY <4>3, <4>4 DEF InterfacesOK
    <3> QED BY <3>1, <3>2
  <2> QED BY <1>1, <2>1 DEF TablesOK, NeighborsOK, EdgesOK
<1> QED BY <1>2 DEF TablesOK

LEMMA BuildSound ==
  ASSUME SoundInv, NEW s \in Switches, buildRouteTable(s)
  PROVE  SoundInv'
<1> DEFINE t == TouchedInterfaces(s)
<1>1. /\ interfaces' = [interfaces EXCEPT ![s] = t]
      /\ UNCHANGED <<rinterfaces, isvidset, isVIDAssignmentDone, tables, hellos, frames>>
  BY DEF buildRouteTable
<1>2. InterfacesOK(s) /\ NeighborsOK(s) /\ Domains /\ TablesOK
  BY SwitchOK DEF SoundInv, TablesOK
<1>3. /\ IsTable(t, SwitchVIDs, Indices(s)) /\ IsFiniteSet(DOMAIN t)
      /\ StaticVIDs => DOMAIN t = DOMAIN interfaces[s]
      /\ \A v \in DOMAIN interfaces[s] : t[v] = interfaces[s][v]
  BY <1>2, TouchedOK
<1> HIDE DEF t
<1>4. interfaces'[s] = t /\ \A u \in Switches \ {s} : interfaces'[u] = interfaces[u]
  BY <1>1, <1>2 DEF Domains
<1>5. Domains'
  BY <1>1, <1>2 DEF Domains, tables
<1>6. StaticVIDs => ConfiguredTables(s)'
  <2> SUFFICES ASSUME StaticVIDs PROVE ConfiguredTables(s)'
    OBVIOUS
  <2>1. ConfiguredTables(s) /\ UNCHANGED <<rinterfaces, isvidset>>
    BY <1>1, <1>2 DEF InterfacesOK
  <2>2. \A n \in Indices(s) : ConfigVID[<<s, n>>] \in DOMAIN interfaces[s]
    BY <2>1 DEF ConfiguredTables
  <2> QED BY <1>3, <1>4, <2>1, <2>2 DEF ConfiguredTables
<1>7. InterfacesOK(s)'
  BY <1>1, <1>2, <1>3, <1>4, <1>6 DEF InterfacesOK
<1>8. TablesOK'
  BY <1>1, <1>2, <1>4, <1>5, <1>7, NewInterfaces
<1> QED BY <1>1, <1>8, BuildJobs DEF SoundInv

LEMMA AssignSound ==
  ASSUME SoundInv, NEW m \in Macs, NEW v \in Assignable[m], processSwitchVID(m[1], m[2], v)
  PROVE  SoundInv'
<1> DEFINE s == m[1]
           n == m[2]
           W == {w \in DOMAIN interfaces[s] : interfaces[s][w] # n} \cup {v}
           t == [w \in W |-> IF w = v THEN n ELSE interfaces[s][w]]
           done == \A i \in Indices(s) : i # n => isvidset[s][i]
<1>1. s \in Switches /\ n \in Indices(s) /\ m = <<s, n>>
  BY InterfaceHasIndex
<1>2. v \in SwitchVIDs /\ (StaticVIDs => v = ConfigVID[<<s, n>>])
  BY <1>1, RoutingAssumption DEF StaticVIDs
<1>3. /\ interfaces' = [interfaces EXCEPT ![s] = t]
      /\ rinterfaces' = [rinterfaces EXCEPT ![s][n] = v]
      /\ isvidset' = [isvidset EXCEPT ![s][n] = TRUE]
      /\ isVIDAssignmentDone' = [isVIDAssignmentDone EXCEPT ![s] = done]
      /\ UNCHANGED <<tables, hellos, frames, jobs>>
  BY DEF processSwitchVID
<1>4. InterfacesOK(s) /\ Domains /\ TablesOK
  BY <1>1, SwitchOK DEF SoundInv, TablesOK
<1>5. done \in BOOLEAN
  OBVIOUS
<1> HIDE DEF s, n, done
<1>6. Domains'
  BY <1>3, <1>4 DEF Domains, tables
<1>7. /\ interfaces'[s] = t
      /\ rinterfaces'[s] = [rinterfaces[s] EXCEPT ![n] = v]
      /\ isvidset'[s] = [isvidset[s] EXCEPT ![n] = TRUE]
      /\ isVIDAssignmentDone'[s] = done
      /\ \A u \in Switches \ {s} : /\ interfaces'[u] = interfaces[u]
                                   /\ rinterfaces'[u] = rinterfaces[u]
                                   /\ isvidset'[u] = isvidset[u]
                                   /\ isVIDAssignmentDone'[u] = isVIDAssignmentDone[u]
  BY <1>1, <1>3, <1>4 DEF Domains
<1>8. /\ IsTable(interfaces[s], SwitchVIDs, Indices(s)) /\ IsFiniteSet(DOMAIN interfaces[s])
      /\ rinterfaces[s] \in [Indices(s) -> SwitchVIDs] /\ isvidset[s] \in [Indices(s) -> BOOLEAN]
  BY <1>4 DEF InterfacesOK
<1>9. IsTable(t, SwitchVIDs, Indices(s))
  BY <1>1, <1>2, <1>8 DEF IsTable
<1>10. IsFiniteSet(DOMAIN t)
  <2> DEFINE R == {w \in DOMAIN interfaces[s] : interfaces[s][w] # n}
  <2>1. IsFiniteSet(R)
    BY <1>8, FS_Subset
  <2>2. IsFiniteSet(R \cup {v})
    <3> HIDE DEF R
    <3> QED BY <2>1, FS_AddElement
  <2> QED BY <2>2
<1>11. StaticVIDs => ConfiguredTables(s)'
  <2> SUFFICES ASSUME StaticVIDs PROVE ConfiguredTables(s)'
    OBVIOUS
  <2>1. /\ DOMAIN interfaces[s] = {ConfigVID[<<s, i>>] : i \in Indices(s)}
        /\ \A i \in Indices(s) : /\ rinterfaces[s][i] = ConfigVID[<<s, i>>]
                                 /\ interfaces[s][ConfigVID[<<s, i>>]] = i
                                 /\ isvidset[s][i]
    BY <1>4 DEF InterfacesOK, ConfiguredTables
  <2>2. v = ConfigVID[<<s, n>>] /\ v \in DOMAIN interfaces[s] /\ interfaces[s][v] = n
    BY <1>1, <1>2, <2>1
  <2>3. W = DOMAIN interfaces[s]
    <3>1. \A w \in DOMAIN interfaces[s] : interfaces[s][w] = n => w = v
      BY <1>1, <1>4, <2>2, OwnIndex
    <3> QED BY <2>2, <3>1
  <2>4. \A w \in DOMAIN interfaces[s] : t[w] = interfaces[s][w]
    BY <2>2, <2>3
  <2>5. DOMAIN t = DOMAIN interfaces[s]
    BY <2>3
  <2> HIDE DEF t, W
  <2>6. \A i \in Indices(s) : /\ rinterfaces'[s][i] = ConfigVID[<<s, i>>]
                              /\ isvidset'[s][i]
    BY <1>7, <1>8, <2>1, <2>2
  <2>7. \A i \in Indices(s) : interfaces'[s][ConfigVID[<<s, i>>]] = i
    BY <1>7, <2>1, <2>4
  <2> QED BY <1>7, <2>1, <2>5, <2>6, <2>7 DEF ConfiguredTables
<1> HIDE DEF t, W
<1>12. InterfacesOK(s)'
  BY <1>1, <1>2, <1>5, <1>7, <1>8, <1>9, <1>10, <1>11 DEF InterfacesOK
<1>13. TablesOK'
  BY <1>1, <1>3, <1>4, <1>6, <1>7, <1>12, NewInterfaces
<1> QED BY <1>3, <1>13 DEF SoundInv

-----------------------------------------------------------------------------
(* Expiry.                                                                 *)

LEMMA ExpireNeighborSound ==
  ASSUME SoundInv, NEW s \in Switches, NEW m, expireNeighbor(s, m)
  PROVE  SoundInv'
<1>1. /\ neighbors' = [neighbors EXCEPT ![s] = Erase(@, m)]
      /\ UNCHANGED <<ivars, rdvedges, routes, hellos, frames, jobs>>
  BY DEF expireNeighbor
<1>2. TablesOK /\ Domains
  BY DEF SoundInv, TablesOK
<1>3. ASSUME NEW u \in Switches PROVE NeighborsOK(u)'
  <2>1. NeighborsOK(u) /\ neighbors'[u] = IF u = s THEN Erase(neighbors[u], m) ELSE neighbors[u]
    BY <1>1, <1>2 DEF TablesOK, Domains
  <2>2. /\ DOMAIN neighbors'[u] \subseteq DOMAIN neighbors[u]
        /\ \A x \in DOMAIN neighbors'[u] : neighbors'[u][x] = neighbors[u][x]
        /\ neighbors'[u] = [x \in DOMAIN neighbors'[u] |-> neighbors'[u][x]]
    BY <2>1 DEF Erase, NeighborsOK, IsTable
  <2>3. IsFiniteSet(DOMAIN neighbors'[u])
    BY <2>1, <2>2, FS_Subset DEF NeighborsOK
  <2> QED BY <2>1, <2>2, <2>3 DEF NeighborsOK, IsTable
<1>4. UNCHANGED ivars /\ UNCHANGED <<rdvedges, routes>> /\ Domains'
  BY <1>1, <1>2 DEF Domains, ivars
<1>5. TablesOK'
  BY <1>2, <1>3, <1>4, SameInterfaces DEF TablesOK, EdgesOK
<1> QED BY <1>1, <1>5 DEF SoundInv

LEMMA ExpireEdgeSound ==
  ASSUME SoundInv, NEW s \in Switches, NEW e, expireEdge(s, e)
  PROVE  SoundInv'
<1>1. /\ rdvedges' = [rdvedges EXCEPT ![s] = @ \ {e}]
      /\ UNCHANGED <<ivars, neighbors, routes, hellos, frames, jobs>>
  BY DEF expireEdge
<1>2. TablesOK /\ Domains
  BY DEF SoundInv, TablesOK
<1>3. ASSUME NEW u \in Switches PROVE EdgesOK(u)'
  <2>1. EdgesOK(u) /\ rdvedges'[u] \subseteq rdvedges[u]
    BY <1>1, <1>2 DEF TablesOK, Domains
  <2>2. IsFiniteSet(rdvedges'[u])
    BY <2>1, FS_Subset DEF EdgesOK
  <2> QED BY <2>1, <2>2 DEF EdgesOK
<1>4. UNCHANGED ivars /\ UNCHANGED <<neighbors, routes>> /\ Domains'
  BY <1>1, <1>2 DEF Domains, ivars
<1>5. TablesOK'
  BY <1>2, <1>3, <1>4, SameInterfaces DEF TablesOK, NeighborsOK
<1> QED BY <1>1, <1>5 DEF SoundInv

LEMMA ExpireRouteSound ==
  ASSUME SoundInv, NEW s \in Switches, NEW n, NEW b, expireRoute(s, n, b)
  PROVE  SoundInv'
<1> DEFINE t == [routes[s] EXCEPT ![n][b] = ExpireBucket(@)]
<1>1. /\ HasBucket(routes[s], n, b)
      /\ routes' = [routes EXCEPT ![s][n][b] = ExpireBucket(@)]
      /\ UNCHANGED <<ivars, neighbors, rdvedges, hellos, frames, jobs>>
  BY DEF expireRoute
<1>2. TablesOK /\ IsRouteTable(s, routes[s])
  BY SwitchOK DEF SoundInv
<1>3. n \in DOMAIN routes[s] /\ b \in DOMAIN routes[s][n]
  BY <1>1 DEF HasBucket
<1>4. routes' = [routes EXCEPT ![s] = t]
  BY <1>1
<1>5. /\ DOMAIN t = DOMAIN routes[s]
      /\ t[n] = [routes[s][n] EXCEPT ![b] = ExpireBucket(@)]
      /\ \A i \in DOMAIN t : i # n => t[i] = routes[s][i]
  BY <1>3
<1>6. ExpireBucket(routes[s][n][b]) \in SoundBuckets(s, n, b)
  BY <1>2, <1>3, ExpireBucketSound DEF IsRouteTable
<1>7. ExpireBucket(routes[s][n][b]) \in Bucket
  BY <1>6 DEF SoundBuckets
<1>8. IsTable(routes[s][n], Levels, Bucket)
  BY <1>2, <1>3 DEF IsRouteTable
<1> HIDE DEF t
<1>9. IsTable(t[n], Levels, Bucket)
  BY <1>3, <1>5, <1>7, <1>8 DEF IsTable
<1>10. \A c \in DOMAIN t[n] : t[n][c] \in SoundBuckets(s, n, c)
  BY <1>2, <1>3, <1>5, <1>6 DEF IsRouteTable
<1>11. IsRouteTable(s, t)
  BY <1>2, <1>5, <1>9, <1>10 DEF IsRouteTable
<1>12. TablesOK'
  BY <1>1, <1>2, <1>4, <1>11, NewRoutes
<1> QED BY <1>1, <1>12 DEF SoundInv

-----------------------------------------------------------------------------
(* The invariant.                                                          *)

LEMMA InitSound == Init => SoundInv
<1> SUFFICES ASSUME Init PROVE SoundInv
  OBVIOUS
<1>1. ASSUME NEW s \in Switches PROVE InterfacesOK(s)
  <2> DEFINE c == [n \in Indices(s) |-> ConfigVID[<<s, n>>]]
             V == {c[n] : n \in Indices(s)}
             I(v) == CHOOSE n \in Indices(s) : ConfigVID[<<s, n>>] = v
  <2>1. \A n \in Indices(s) : c[n] = ConfigVID[<<s, n>>] /\ c[n] \in SwitchVIDs
    BY IndexIsInterface, RoutingAssumption
  <2>2. \A v \in V : I(v) \in Indices(s) /\ ConfigVID[<<s, I(v)>>] = v
    BY <2>1
  <2>3. /\ interfaces[s] = IF UseStatic THEN [v \in V |-> I(v)] ELSE EmptyTable
        /\ rinterfaces[s] = c /\ isvidset[s] = [n \in Indices(s) |-> UseStatic]
        /\ isVIDAssignmentDone[s] = UseStatic
    <3>1. V = {ConfigVID[<<s, n>>] : n \in Indices(s)}
      BY <2>1
    <3> HIDE DEF V
    <3> QED BY <3>1 DEF Init
  <2>4. UseStatic \in BOOLEAN
    BY RoutingAssumption
  <2>5. IsFiniteSet(V)
    <3> HIDE DEF c
    <3> QED BY AnInterface, FiniteImage
  <2>6. UseStatic => \A n \in Indices(s) : I(ConfigVID[<<s, n>>]) = n
    <3> SUFFICES ASSUME UseStatic, NEW n \in Indices(s) PROVE I(ConfigVID[<<s, n>>]) = n
      OBVIOUS
    <3>1. /\ I(ConfigVID[<<s, n>>]) \in Indices(s)
          /\ ConfigVID[<<s, I(ConfigVID[<<s, n>>])>>] = ConfigVID[<<s, n>>]
      BY <2>1, <2>2
    <3> HIDE DEF I
    <3>2. <<s, I(ConfigVID[<<s, n>>])>> = <<s, n>>
      BY <3>1, IndexIsInterface, RoutingAssumption
    <3> QED BY <3>2
  <2> HIDE DEF I
  <2>7. rinterfaces[s] \in [Indices(s) -> SwitchVIDs]
    BY <2>1, <2>3
  <2>8. IsTable(interfaces[s], SwitchVIDs, Indices(s)) /\ IsFiniteSet(DOMAIN interfaces[s])
    <3>1. CASE UseStatic
      <4>1. V \subseteq SwitchVIDs
        BY <2>1
      <4>2. interfaces[s] = [v \in V |-> I(v)]
        BY <2>3, <3>1
      <4>3. \A v \in V : I(v) \in Indices(s)
        BY <2>2
      <4> HIDE DEF V
      <4>4. DOMAIN interfaces[s] = V /\ \A v \in V : interfaces[s][v] = I(v)
        BY <4>2
      <4>5. interfaces[s] = [v \in DOMAIN interfaces[s] |-> interfaces[s][v]]
        BY <4>2, <4>4
      <4> QED BY <2>5, <4>1, <4>3, <4>4, <4>5 DEF IsTable
    <3>2. CASE ~ UseStatic
      BY <2>3, <3>2, FS_EmptySet DEF IsTable, EmptyTable
    <3> QED BY <3>1, <3>2
  <2>9. StaticVIDs => ConfiguredTables(s)
    <3> SUFFICES ASSUME UseStatic PROVE ConfiguredTables(s)
      BY DEF StaticVIDs
    <3>1. interfaces[s] = [v \in V |-> I(v)]
      BY <2>3
    <3>2. V = {ConfigVID[<<s, n>>] : n \in Indices(s)}
      BY <2>1
    <3> HIDE DEF V
    <3>3. DOMAIN interfaces[s] = {ConfigVID[<<s, n>>] : n \in Indices(s)}
      BY <3>1, <3>2
    <3>4. \A n \in Indices(s) : ConfigVID[<<s, n>>] \in V
      BY <3>2
    <3>5. \A n \in Indices(s) : interfaces[s][ConfigVID[<<s, n>>]] = n
      BY <2>6, <3>1, <3>4
    <3>6. \A n \in Indices(s) : rinterfaces[s][n] = ConfigVID[<<s, n>>] /\ isvidset[s][n]
      BY <2>1, <2>3
    <3> QED BY <3>3, <3>5, <3>6 DEF ConfiguredTables
  <2> QED BY <2>3, <2>4, <2>7, <2>8, <2>9 DEF InterfacesOK
<1>2. Domains
  BY DEF Init, Domains
<1>3. ASSUME NEW s \in Switches PROVE NeighborsOK(s) /\ EdgesOK(s) /\ IsRouteTable(s, routes[s])
  <2>1. neighbors[s] = EmptyTable /\ rdvedges[s] = {} /\ routes[s] = EmptyTable
    BY DEF Init
  <2> QED BY <2>1, FS_EmptySet DEF EmptyTable, NeighborsOK, EdgesOK, IsRouteTable, IsTable
<1> QED BY <1>1, <1>2, <1>3 DEF Init, SoundInv, TablesOK

LEMMA NextSound == SoundInv /\ [Next]_vars => SoundInv'
<1> SUFFICES ASSUME SoundInv, [Next]_vars PROVE SoundInv'
  OBVIOUS
<1>1. CASE Running
  BY <1>1, RouteStepSound, RdvStepSound, LearnStepSound, BuildStepSound DEF Running
<1>2. ASSUME NEW s \in Switches, generateHello(s) PROVE SoundInv'
  BY <1>2, HelloStepSound
<1>3. ASSUME NEW s \in Switches, buildRouteTable(s) PROVE SoundInv'
  BY <1>3, BuildSound
<1>4. ASSUME NEW h \in hellos, processHello(h) PROVE SoundInv'
  BY <1>4, HearSound
<1>5. ASSUME NEW m \in frames, receive(m) PROVE SoundInv'
  BY <1>5, ReceiveSound
<1>6. CASE Expiry
  BY <1>6, ExpireNeighborSound, ExpireEdgeSound, ExpireRouteSound DEF Expiry
<1>7. CASE Loss
  <2>1. UNCHANGED <<ivars, tables>> /\ frames' \subseteq frames /\ hellos' \subseteq hellos /\ jobs' = jobs
    BY <1>7 DEF Loss, loseFrame, loseHello
  <2> QED BY <2>1, SameTables DEF SoundInv
<1>8. CASE Renumber
  BY <1>8, AssignSound DEF Renumber
<1>9. CASE UNCHANGED vars
  BY <1>9, SameTables DEF SoundInv, vars
<1> QED
  BY <1>1, <1>2, <1>3, <1>4, <1>5, <1>6, <1>7, <1>8, <1>9 DEF Next, Protocol

LEMMA SpecSound == Spec => []SoundInv
BY InitSound, NextSound, PTL DEF Spec

-----------------------------------------------------------------------------
\* Tables, frames and handlers stay well typed for any network and whatever
\* is lost, expires or is renumbered; in particular no route is ever entered
\* at a level that has no bucket (updateEntry), and a reply never ends with
\* the list of its gateways overrun (processrdv.cc).
THEOREM RoutingTypeCorrect == Spec => []TypeOK
<1>1. SoundInv => TypeOK
  <2> SUFFICES ASSUME SoundInv PROVE TypeOK
    OBVIOUS
  <2>1. ASSUME NEW s \in Switches
        PROVE  /\ IsTable(interfaces[s], SwitchVIDs, Indices(s))
               /\ rinterfaces[s] \in [Indices(s) -> SwitchVIDs]
               /\ isvidset[s] \in [Indices(s) -> BOOLEAN]
               /\ isVIDAssignmentDone[s] \in BOOLEAN
               /\ IsTable(neighbors[s], Macs, NeighborTableEntry)
               /\ rdvedges[s] \in RendezvousTable
               /\ DOMAIN routes[s] \subseteq Indices(s)
               /\ \A n \in DOMAIN routes[s] : IsTable(routes[s][n], HostBits + 1 .. VidBits, Bucket)
    BY SwitchOK DEF InterfacesOK, NeighborsOK, EdgesOK, SoundEdges, RendezvousTable, IsRouteTable, Levels
  <2>2. SoundJobs \subseteq Jobs /\ SoundFrames \subseteq Frame /\ SoundHellos \subseteq Hello
    BY DEF SoundJobs, SoundFrames, SoundHellos
  <2>3. jobs \in Seq(Jobs)
    BY <2>2 DEF SoundInv
  <2>4. hellos \subseteq Hello /\ frames \subseteq [to : Macs, frame : Frame]
    BY <2>2 DEF SoundInv
  <2> QED BY <2>1, <2>3, <2>4 DEF TypeOK
<1> QED BY <1>1, SpecSound, PTL

\* The server's packet: the entries of the index go, the new one comes, and no
\* other interface loses its entry but the one that had the VID.
LEMMA AssignStays ==
  ASSUME SoundInv, NEW m \in Macs, NEW v, processSwitchVID(m[1], m[2], v)
  PROVE  AssignedStays
<1> DEFINE t == m[1]
           k == m[2]
           W == {w \in DOMAIN interfaces[t] : interfaces[t][w] # k} \cup {v}
<1>1. t \in Switches /\ k \in Indices(t)
  BY InterfaceHasIndex
<1>2. /\ interfaces' = [interfaces EXCEPT ![t] = [w \in W |-> IF w = v THEN k ELSE interfaces[t][w]]]
      /\ rinterfaces' = [rinterfaces EXCEPT ![t][k] = v]
      /\ isvidset' = [isvidset EXCEPT ![t][k] = TRUE]
  BY DEF processSwitchVID
<1> HIDE DEF t, k
<1>3. /\ Domains
      /\ \A s \in Switches : DOMAIN rinterfaces[s] = Indices(s) /\ DOMAIN isvidset[s] = Indices(s)
  BY SwitchOK DEF SoundInv, TablesOK, InterfacesOK
<1>4. ASSUME NEW s \in Switches, NEW n \in Indices(s), s # t \/ n # k
      PROVE  rinterfaces'[s][n] = rinterfaces[s][n] /\ isvidset'[s][n] = isvidset[s][n]
  BY <1>1, <1>2, <1>3, <1>4 DEF Domains
<1>5. Resolves(t, k)' /\ rinterfaces'[t][k] = v
  BY <1>1, <1>2, <1>3 DEF Domains, Resolves
<1>6. ASSUME NEW s \in Switches, NEW n \in Indices(s), Resolves(s, n), s # t \/ n # k
      PROVE  Resolves(s, n)' \/ GivenAway(s, n)'
  <2>1. CASE s # t
    BY <1>1, <1>2, <1>3, <1>4, <1>6, <2>1 DEF Domains, Resolves
  <2>2. CASE s = t /\ rinterfaces[s][n] = v
    BY <1>1, <1>4, <1>5, <1>6, <2>2 DEF GivenAway
  <2>3. CASE s = t /\ rinterfaces[s][n] # v
    <3>1. rinterfaces[s][n] \in W
      BY <1>6, <2>3 DEF Resolves
    <3> QED BY <1>2, <1>3, <1>4, <1>6, <2>3, <3>1 DEF Domains, Resolves
  <2> QED BY <2>1, <2>2, <2>3
<1> QED BY <1>4, <1>5, <1>6 DEF AssignedStays

\* The route builder adds entries for VIDs that are gone, and changes none.
LEMMA BuildStays ==
  ASSUME SoundInv, NEW t \in Switches, buildRouteTable(t)
  PROVE  AssignedStays
<1>1. /\ interfaces' = [interfaces EXCEPT ![t] = TouchedInterfaces(t)]
      /\ UNCHANGED <<rinterfaces, isvidset>>
  BY DEF buildRouteTable
<1>2. \A v \in DOMAIN interfaces[t] :
         v \in DOMAIN TouchedInterfaces(t) /\ TouchedInterfaces(t)[v] = interfaces[t][v]
  BY DEF TouchedInterfaces
<1>3. Domains
  BY DEF SoundInv, TablesOK
<1>4. ASSUME NEW s \in Switches, NEW n \in Indices(s), Resolves(s, n)
      PROVE  Resolves(s, n)'
  BY <1>1, <1>2, <1>3, <1>4 DEF Domains, Resolves
<1> QED BY <1>1, <1>4 DEF AssignedStays

\* Everything else leaves the table of interfaces alone.
LEMMA OthersStay ==
  ASSUME UNCHANGED ivars
  PROVE  AssignedStays
BY DEF ivars, AssignedStays, Resolves

LEMMA StepStays ==
  ASSUME SoundInv, Next
  PROVE  AssignedStays
<1>1. CASE Running
  <2>1. CASE smactionRoute
    BY <2>1, OthersStay DEF smactionRoute
  <2>2. CASE smactionRDV
    BY <2>2, OthersStay DEF smactionRDV
  <2>3. CASE smactionReply
    BY <2>3, OthersStay DEF smactionReply
  <2>4. CASE buildStep
    BY <2>4, OthersStay DEF buildStep
  <2> QED BY <1>1, <2>1, <2>2, <2>3, <2>4 DEF Running
<1>2. ASSUME NEW s \in Switches, generateHello(s) PROVE AssignedStays
  BY <1>2, OthersStay DEF generateHello
<1>3. ASSUME NEW s \in Switches, buildRouteTable(s) PROVE AssignedStays
  BY <1>3, BuildStays
<1>4. ASSUME NEW h \in hellos, processHello(h) PROVE AssignedStays
  BY <1>4, OthersStay DEF processHello
<1>5. ASSUME NEW m \in frames, receive(m) PROVE AssignedStays
  BY <1>5, OthersStay DEF receive
<1>6. CASE Expiry
  BY <1>6, OthersStay DEF Expiry, expireNeighbor, expireEdge, expireRoute
<1>7. CASE Loss
  BY <1>7, OthersStay DEF Loss, loseFrame, loseHello
<1>8. CASE Renumber
  BY <1>8, AssignStays DEF Renumber
<1> QED
  BY <1>1, <1>2, <1>3, <1>4, <1>5, <1>6, <1>7, <1>8 DEF Next, Protocol

\* While VIDs are handed out, changed and moved between interfaces, a new VID
\* leads to its interface (processSwitchVID), and goes on doing so whatever
\* else is assigned, lost or expires, even among the entries the route builder
\* inserts for VIDs of the past (buildroutetable.cc:62), until it is given to
\* another interface of the switch.  So at the end of a round of the server,
\* whose VIDs differ, the VID of every interface the round has got to leads
\* to it.
THEOREM AssignedVIDStays == Spec => [][AssignedStays]_vars
<1>1. SoundInv /\ [Next]_vars => [AssignedStays]_vars
  BY StepStays
<1> QED BY <1>1, SpecSound, PTL DEF Spec

\* What a valid route of an interface VID is, when VIDs do not change.
LEMMA StaticRoute ==
  ASSUME StaticVIDs, SoundInv, NEW s \in Switches, NEW v \in DOMAIN interfaces[s],
         interfaces[s][v] \in DOMAIN routes[s],
         NEW b \in DOMAIN routes[s][interfaces[s][v]],
         NEW j \in ValidSlots(routes[s][interfaces[s][v]][b])
  PROVE  RouteSound(v, b, routes[s][interfaces[s][v]][b].buckets[j])
<1> DEFINE n == interfaces[s][v]
<1>1. v = ConfigVID[<<s, n>>]
  BY SwitchOK, OwnIndex
<1> HIDE DEF n
<1>2. routes[s][n][b] \in SoundBuckets(s, n, b)
  BY SwitchOK DEF IsRouteTable, n
<1>3. RouteSound(v, b, routes[s][n][b].buckets[j])
  BY <1>1, <1>2 DEF SoundBuckets, n
<1> QED BY <1>3 DEF n

\* With VIDs that do not change, every valid route of a bucket leads to the
\* level of the bucket, straight or by a gateway in the own subtree
\* (buildroutetable.cc, processrdv.cc), although replies are applied late and
\* out of order and the tables they were made from have expired.
THEOREM RouteLevelsHold ==
  ASSUME StaticVIDs
  PROVE  Spec => []RouteLevels
<1>1. SoundInv => RouteLevels
  <2> DEFINE e(s, v, b, j) == routes[s][interfaces[s][v]][b].buckets[j]
  <2> SUFFICES ASSUME SoundInv, NEW s \in Switches, NEW v \in DOMAIN interfaces[s],
                      interfaces[s][v] \in DOMAIN routes[s],
                      NEW b \in DOMAIN routes[s][interfaces[s][v]],
                      NEW j \in ValidSlots(routes[s][interfaces[s][v]][b])
               PROVE  \/ /\ e(s, v, b, j).gateway = v
                         /\ logical_distance(v, e(s, v, b, j).nexthop) = b
                      \/ /\ logical_distance(v, e(s, v, b, j).gateway) \in HostBits + 1 .. b - 1
                         /\ logical_distance(v, e(s, v, b, j).nexthop)
                              <= logical_distance(v, e(s, v, b, j).gateway)
    BY DEF RouteLevels, EachRoute
  <2>1. RouteSound(v, b, e(s, v, b, j))
    BY StaticRoute
  <2> HIDE DEF e
  <2> QED BY <2>1 DEF RouteSound
<1> QED BY <1>1, SpecSound, PTL

\* With VIDs that do not change, the gateway of every valid route really has
\* a neighbour, or another interface, at the level of the bucket.
THEOREM GatewaysReachLevelHolds ==
  ASSUME StaticVIDs
  PROVE  Spec => []GatewaysReachLevel
<1>1. SoundInv => GatewaysReachLevel
  BY StaticRoute DEF GatewaysReachLevel, EachRoute, RouteSound
<1> QED BY <1>1, SpecSound, PTL

\* With VIDs that do not change, no switch hands a frame to a next hop that is
\* farther from its destination than the switch itself (routepacket.cc).
THEOREM NeverMovesAwayHolds ==
  ASSUME StaticVIDs
  PROVE  Spec => []NeverMovesAway
<1>1. SoundInv => NeverMovesAway
  <2> SUFFICES ASSUME SoundInv, NEW s \in Switches, NEW my \in DOMAIN interfaces[s],
                      NEW dst \in VIDs
               PROVE  LET r == getPort(s, my, dst)
                      IN  r.port # -1 =>
                            logical_distance(r.nexthop, dst) <= logical_distance(my, dst)
    BY DEF NeverMovesAway
  <2>1. my \in VIDs
    BY SwitchOK, SwitchVID DEF InterfacesOK, IsTable
  <2> QED BY <2>1, SwitchOK, GetPortSound
<1> QED BY <1>1, SpecSound, PTL

\* With VIDs that do not change, a host's packet never moves away from where it
\* goes, whichever of several gateways the switches on its way pick for it and
\* whatever their tables hold meanwhile, and for the next switch too it is
\* directed to the near side of the level at stake (routepacket.cc 90-135).
THEOREM MultipathStaysNearHolds ==
  ASSUME StaticVIDs
  PROVE  Spec => []MultipathStaysNear
<1>1. SoundInv => MultipathStaysNear
  <2> SUFFICES ASSUME SoundInv, NEW s \in Switches, NEW my \in DOMAIN interfaces[s],
                      NEW final \in VIDs, NEW dvid \in VIDs, NEW last \in Slots,
                      getSwitchVID(final) \notin DOMAIN interfaces[s], Directed(my, dvid, final)
               PROVE  LET r == Multipath(s, my, dvid, final, last)
                      IN  r.port # -1 =>
                            /\ logical_distance(r.nexthop, final) <= logical_distance(my, final)
                            /\ Directed(r.nexthop, r.dvid, final)
    BY DEF MultipathStaysNear
  <2>1. last \in Nat
    BY MaxGwAssumption DEF Slots
  <2> QED BY <2>1, SwitchOK, MultipathNear
<1> QED BY <1>1, SpecSound, PTL
=============================================================================
