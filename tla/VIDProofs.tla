----------------------------- MODULE VIDProofs -----------------------------
(***************************************************************************)
(* What routing relies on in the algebra of VIDs, proved for every number  *)
(* of bits.                                                                *)
(***************************************************************************)
EXTENDS VID, WellFoundedInduction, TLAPS

\* A nonempty set of bit positions has a leftmost one: logical_distance,
\* defined by CHOOSE, is well defined.
LEMMA LeftmostExists ==
  ASSUME NEW S \in SUBSET BitPos, S # {}
  PROVE  \E k \in S : \A i \in S : i <= k
<1> DEFINE T == {VidBits - i : i \in S}
<1>1. T \subseteq Nat /\ T # {}
  <2>1. \A i \in S : i \in Int /\ 1 <= i /\ i <= VidBits
    BY WidthAssumption DEF BitPos
  <2>2. \A i \in S : VidBits - i \in Nat
    BY <2>1, WidthAssumption
  <2>3. PICK j \in S : TRUE
    OBVIOUS
  <2>4. VidBits - j \in T
    BY <2>3
  <2> QED BY <2>2, <2>4
<1>2. PICK m \in T : \A y \in T : ~ (<<y, m>> \in OpToRel(<, Nat))
  <2> HIDE DEF T
  <2> QED BY <1>1, NatLessThanWellFounded, WFMin
<1>3. \A y \in T : m <= y
  <2> SUFFICES ASSUME NEW y \in T PROVE m <= y
    OBVIOUS
  <2>1. ~ (<<y, m>> \in OpToRel(<, Nat))
    BY <1>2
  <2>2. ~ (y < m)
    BY <2>1, <1>1 DEF OpToRel
  <2> HIDE DEF T
  <2> QED BY <2>2, <1>1
<1>4. PICK k \in S : m = VidBits - k
  OBVIOUS
<1>5. ASSUME NEW i \in S PROVE i <= k
  <2>1. VidBits - i \in T
    OBVIOUS
  <2>2. VidBits - k <= VidBits - i
    BY <2>1, <1>3, <1>4
  <2> HIDE DEF T
  <2>3. S \subseteq Int /\ VidBits \in Int
    BY WidthAssumption DEF BitPos
  <2> QED BY <2>2, <2>3
<1> QED BY <1>5

\* logical_distance returns the leftmost differing position.
LEMMA DistanceSpec ==
  ASSUME NEW a \in VIDs, NEW b \in VIDs
  PROVE  /\ logical_distance(a, b) \in 0 .. VidBits
         /\ logical_distance(a, b) = 0 <=> a = b
         /\ logical_distance(a, b) > 0
              => a[logical_distance(a, b)] # b[logical_distance(a, b)]
         /\ \A i \in BitPos : i > logical_distance(a, b) => a[i] = b[i]
<1> DEFINE D == DiffBits(a, b)
<1>1. D \in SUBSET BitPos
  BY DEF DiffBits
<1>2. CASE D = {}
  <2>1. \A i \in BitPos : a[i] = b[i]
    BY <1>2 DEF DiffBits
  <2>2. a = b
    BY <2>1 DEF VIDs
  <2>3. logical_distance(a, b) = 0
    BY <1>2 DEF logical_distance
  <2> QED BY <2>1, <2>2, <2>3, WidthAssumption
<1>3. CASE D # {}
  <2> DEFINE d == CHOOSE k \in D : \A i \in D : i <= k
  <2>1. d \in D /\ \A i \in D : i <= d
    BY <1>1, <1>3, LeftmostExists
  <2>2. logical_distance(a, b) = d
    BY <1>3 DEF logical_distance
  <2> HIDE DEF d
  <2>3. d \in BitPos /\ a[d] # b[d] /\ a # b
    BY <2>1 DEF DiffBits
  <2>4. \A i \in BitPos : i > d => a[i] = b[i]
    BY <2>1, <2>3, WidthAssumption DEF DiffBits, BitPos
  <2> QED BY <2>2, <2>3, <2>4, WidthAssumption DEF BitPos
<1> QED BY <1>2, <1>3

\* Agreement on every bit from k upwards bounds the distance, and conversely.
LEMMA DistanceBelow ==
  ASSUME NEW a \in VIDs, NEW b \in VIDs, NEW k \in BitPos
  PROVE  logical_distance(a, b) < k <=> \A i \in BitPos : i >= k => a[i] = b[i]
<1> DEFINE d == logical_distance(a, b)
<1>1. /\ d \in 0 .. VidBits
      /\ d > 0 => a[d] # b[d]
      /\ \A i \in BitPos : i > d => a[i] = b[i]
  BY DistanceSpec
<1> HIDE DEF d
<1>2. d < k => \A i \in BitPos : i >= k => a[i] = b[i]
  BY <1>1, WidthAssumption DEF BitPos
<1>3. (\A i \in BitPos : i >= k => a[i] = b[i]) => d < k
  BY <1>1, WidthAssumption DEF BitPos
<1> QED BY <1>2, <1>3 DEF d

\* The distance is symmetric: both ends of a link put each other in the
\* bucket of the same number (routetable.cc, buildroutetable.cc).
THEOREM DistanceSymmetric ==
  ASSUME NEW a \in VIDs, NEW b \in VIDs
  PROVE  logical_distance(a, b) = logical_distance(b, a)
<1>1. DiffBits(a, b) = DiffBits(b, a)
  BY DEF DiffBits
<1> QED BY <1>1 DEF logical_distance

\* The distance is an ultrametric: a gateway closer to me than k, adjacent to
\* something at distance k, leads into the very subtree the bucket stands for.
THEOREM DistanceUltrametric ==
  ASSUME NEW a \in VIDs, NEW b \in VIDs, NEW c \in VIDs, NEW k \in BitPos,
         logical_distance(a, b) < k, logical_distance(b, c) < k
  PROVE  logical_distance(a, c) < k
<1>1. \A i \in BitPos : i >= k => a[i] = b[i] /\ b[i] = c[i]
  BY DistanceBelow
<1> QED BY <1>1, DistanceBelow

\* Rerouting (routepacket.cc, flip_bit on the destination at distance k)
\* strictly reduces the distance to the switch that reroutes: its loop ends
\* after at most VidBits flips.
THEOREM FlipReducesDistance ==
  ASSUME NEW me \in VIDs, NEW dst \in VIDs, logical_distance(me, dst) # 0
  PROVE  LET k == logical_distance(me, dst) IN
         /\ flip_bit(dst, k) \in VIDs
         /\ logical_distance(me, flip_bit(dst, k)) < k
<1> DEFINE k == logical_distance(me, dst)
           new == flip_bit(dst, k)
<1>1. /\ k \in BitPos /\ me[k] # dst[k]
      /\ \A i \in BitPos : i > k => me[i] = dst[i]
  BY DistanceSpec, WidthAssumption DEF BitPos
<1> HIDE DEF k
<1>2. new \in VIDs
  BY <1>1 DEF VIDs, flip_bit
<1>3. new[k] = me[k] /\ \A i \in BitPos : i # k => new[i] = dst[i]
  BY <1>1 DEF VIDs, flip_bit
<1>4. \A i \in BitPos : i >= k => me[i] = new[i]
  BY <1>1, <1>3, WidthAssumption DEF BitPos
<1> HIDE DEF new
<1>5. logical_distance(me, new) < k
  BY <1>1, <1>2, <1>4, DistanceBelow
<1> QED BY <1>2, <1>5 DEF k, new

\* Publishers and queriers meet: a switch that publishes an edge into level k
\* and any switch closer to it than k compute the same rendezvous point, and
\* that point is itself closer than k (buildroutetable.cc, rdv_publish and
\* rdv_query).
THEOREM RendezvousAgreement ==
  ASSUME NEW a \in VIDs, NEW b \in VIDs, NEW k \in BitPos,
         logical_distance(a, b) < k
  PROVE  /\ calculate_rdv_point(a, k) = calculate_rdv_point(b, k)
         /\ calculate_rdv_point(a, k) \in VIDs
         /\ logical_distance(b, calculate_rdv_point(a, k)) < k
<1>1. \A i \in BitPos : i >= k => a[i] = b[i]
  BY DistanceBelow
<1>2. \A i \in BitPos : (IF i < k THEN 0 ELSE a[i]) = (IF i < k THEN 0 ELSE b[i])
  BY <1>1 DEF BitPos
<1>3. calculate_rdv_point(a, k) = calculate_rdv_point(b, k)
  BY <1>2 DEF calculate_rdv_point
<1>4. calculate_rdv_point(a, k) \in VIDs
  BY DEF calculate_rdv_point, VIDs
<1>5. \A i \in BitPos : i >= k => b[i] = calculate_rdv_point(a, k)[i]
  BY <1>1 DEF calculate_rdv_point, BitPos
<1>6. logical_distance(b, calculate_rdv_point(a, k)) < k
  BY <1>4, <1>5, DistanceBelow
<1> QED BY <1>3, <1>4, <1>6

=============================================================================
