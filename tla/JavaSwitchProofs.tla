-------------------------- MODULE JavaSwitchProofs --------------------------
(***************************************************************************)
(* Theorems about the Java simulator, for every network with symmetric     *)
(* links, every number of bits, any late starts, all crashes and any       *)
(* traffic.                                                                *)
(*                                                                         *)
(* The argument is one about sets: SoundEntries(s), SoundEdges(s),         *)
(* SoundItems(s) and SoundPackets are what a table of switch s, the job of *)
(* s and the network may hold.  None of them depends on the state, so      *)
(* refreshing, removing and losing things cannot hurt; a thing is added    *)
(* only by way of things that are there, and the distance being an         *)
(* ultrametric does the rest.                                              *)
(***************************************************************************)
EXTENDS JavaSwitch, VIDProofs, SequenceTheorems

-----------------------------------------------------------------------------
(* Sequences.                                                              *)

\* The element for which Least stands exists.
LEMMA LeastExists ==
  ASSUME NEW S \in SUBSET Nat, S # {}
  PROVE  Least(S) \in S /\ \A j \in S : Least(S) <= j
<1>1. PICK m \in S : \A y \in S : ~ (<<y, m>> \in OpToRel(<, Nat))
  BY NatLessThanWellFounded, WFMin
<1>2. \A y \in S : m <= y
  <2> SUFFICES ASSUME NEW y \in S PROVE m <= y
    OBVIOUS
  <2>1. ~ (y < m)
    BY <1>1 DEF OpToRel
  <2> QED BY <2>1
<1> QED BY <1>2 DEF Least

\* A sequence over a set stays one when an element is taken out of it.
LEMMA RemoveAtSeq ==
  ASSUME NEW S, NEW s \in Seq(S), NEW i \in DOMAIN s
  PROVE  RemoveAt(s, i) \in Seq(S) /\ Len(RemoveAt(s, i)) = Len(s) - 1
<1>1. i \in 1 .. Len(s) /\ Len(s) \in Nat
  BY LenProperties
<1>2. /\ SubSeq(s, 1, i - 1) \in Seq(S)
      /\ Len(SubSeq(s, 1, i - 1)) = i - 1
  <2>1. \A j \in 1 .. i - 1 : s[j] \in S
    BY <1>1, ElementOfSeq
  <2> QED BY <1>1, <2>1, SubSeqProperties
<1>3. /\ SubSeq(s, i + 1, Len(s)) \in Seq(S)
      /\ Len(SubSeq(s, i + 1, Len(s))) = Len(s) - i
  <2>1. \A j \in i + 1 .. Len(s) : s[j] \in S
    BY <1>1, ElementOfSeq
  <2> QED BY <1>1, <2>1, SubSeqProperties
<1> DEFINE r == RemoveAt(s, i)
<1>4. r \in Seq(S) /\ Len(r) = (i - 1) + (Len(s) - i)
  BY <1>2, <1>3, ConcatProperties DEF RemoveAt
<1> HIDE DEF r
<1>5. (i - 1) + (Len(s) - i) = Len(s) - 1
  BY <1>1
<1> QED BY <1>4, <1>5 DEF r

\* And when one is put in.
LEMMA InsertAtSeq ==
  ASSUME NEW S, NEW s \in Seq(S), NEW i \in 1 .. Len(s) + 1, NEW e \in S
  PROVE  InsertAt(s, i, e) \in Seq(S) /\ Len(InsertAt(s, i, e)) = Len(s) + 1
<1>1. Len(s) \in Nat
  BY LenProperties
<1>2. /\ SubSeq(s, 1, i - 1) \in Seq(S)
      /\ Len(SubSeq(s, 1, i - 1)) = i - 1
  <2>1. \A j \in 1 .. i - 1 : s[j] \in S
    BY <1>1, ElementOfSeq
  <2> QED BY <1>1, <2>1, SubSeqProperties
<1>3. /\ SubSeq(s, i, Len(s)) \in Seq(S)
      /\ Len(SubSeq(s, i, Len(s))) = Len(s) - i + 1
  <2>1. \A j \in i .. Len(s) : s[j] \in S
    BY <1>1, ElementOfSeq
  <2> QED BY <1>1, <2>1, SubSeqProperties
<1>4. <<e>> \in Seq(S) /\ Len(<<e>>) = 1
  OBVIOUS
<1>5. /\ SubSeq(s, 1, i - 1) \o <<e>> \in Seq(S)
      /\ Len(SubSeq(s, 1, i - 1) \o <<e>>) = i
  BY <1>1, <1>2, <1>4, ConcatProperties
<1> DEFINE a == SubSeq(s, 1, i - 1) \o <<e>>
           b == SubSeq(s, i, Len(s))
<1>6. InsertAt(s, i, e) = a \o b
  BY DEF InsertAt
<1> HIDE DEF a, b
<1>7. a \o b \in Seq(S) /\ Len(a \o b) = Len(a) + Len(b)
  BY <1>3, <1>5, ConcatProperties DEF a, b
<1>8. Len(a) + Len(b) = Len(s) + 1
  BY <1>1, <1>3, <1>5 DEF a, b
<1> QED BY <1>6, <1>7, <1>8

\* And when one is replaced.
LEMMA ReplaceSeq ==
  ASSUME NEW S, NEW s \in Seq(S), NEW i \in DOMAIN s, NEW e \in S
  PROVE  [s EXCEPT ![i] = e] \in Seq(S) /\ Len([s EXCEPT ![i] = e]) = Len(s)
<1>1. i \in 1 .. Len(s)
  BY LenProperties
<1> QED BY <1>1, ExceptSeq

-----------------------------------------------------------------------------
(* Distances.                                                              *)

\* The distance is a number of bits, 0 only from a VID to itself, and the
\* same in both directions.
LEMMA Dist ==
  ASSUME NEW a \in VIDs, NEW b \in VIDs
  PROVE  /\ vidDist(a, b) \in Nat
         /\ vidDist(a, b) <= VidBits
         /\ vidDist(a, b) = 0 <=> a = b
         /\ a # b => vidDist(a, b) \in BitPos
         /\ vidDist(a, b) = vidDist(b, a)
BY DistanceSpec, DistanceSymmetric, WidthAssumption DEF vidDist, BitPos

\* Of three distances the third is at most the larger of the two others.
LEMMA Detour ==
  ASSUME NEW a \in VIDs, NEW b \in VIDs, NEW c \in VIDs
  PROVE  vidDist(a, c) <= vidDist(a, b) \/ vidDist(a, c) <= vidDist(b, c)
<1> SUFFICES ASSUME vidDist(a, b) < vidDist(a, c), vidDist(b, c) < vidDist(a, c)
             PROVE  FALSE
  BY Dist
<1>1. vidDist(a, c) \in BitPos
  BY Dist
<1>2. vidDist(a, c) < vidDist(a, c)
  BY <1>1, DistanceUltrametric DEF vidDist
<1> QED BY <1>2, Dist

\* The rendezvous switches of bucket k are in the switch's own subtree.
LEMMA RdvNear ==
  ASSUME NEW a \in VIDs, NEW k \in BitPos
  PROVE  /\ PrimaryRdv(a, k) \in VIDs /\ vidDist(a, PrimaryRdv(a, k)) < k
         /\ BackupRdv(a, k) \in VIDs /\ vidDist(a, BackupRdv(a, k)) < k
<1>1. PrimaryRdv(a, k) \in VIDs /\ BackupRdv(a, k) \in VIDs
  BY DEF PrimaryRdv, BackupRdv, calculate_rdv_point, VIDs
<1>2. \A i \in BitPos : i >= k => a[i] = PrimaryRdv(a, k)[i] /\ a[i] = BackupRdv(a, k)[i]
  BY DEF PrimaryRdv, BackupRdv, calculate_rdv_point, BitPos
<1> QED BY <1>1, <1>2, DistanceBelow DEF vidDist

LEMMA NbrsSwitches ==
  ASSUME NEW s \in Switches
  PROVE  Nbrs(s) \subseteq Switches /\ Nbrs(s) \subseteq VIDs
<1>1. Adjacent[s] \in Seq(Switches)
  BY JavaAssumption
<1>2. \A i \in DOMAIN Adjacent[s] : Adjacent[s][i] \in Switches
  BY <1>1, LenProperties, ElementOfSeq
<1> QED BY <1>2, JavaAssumption DEF Nbrs

-----------------------------------------------------------------------------
(* The routing table.                                                      *)

SoundEntries(s) == {e \in Entries : EntrySound(s, e)}

\* A table over sound entries is a sequence of them.
LEMMA TableElements ==
  ASSUME NEW s, NEW t \in Seq(SoundEntries(s)), NEW i \in DOMAIN t
  PROVE  /\ i \in Nat /\ i >= 1 /\ i <= Len(t)
         /\ t[i] \in Entries /\ EntrySound(s, t[i])
<1>1. i \in 1 .. Len(t) /\ Len(t) \in Nat /\ t[i] \in SoundEntries(s)
  BY LenProperties, ElementOfSeq
<1> QED BY <1>1 DEF SoundEntries

\* Age does not matter to an entry's soundness.
LEMMA AgedEntry ==
  ASSUME NEW s, NEW e \in SoundEntries(s), NEW a \in 0 .. 2
  PROVE  [e EXCEPT !.age = a] \in SoundEntries(s)
BY DEF SoundEntries, Entries, EntrySound

LEMMA AddEntrySound ==
  ASSUME NEW s, NEW t \in Seq(SoundEntries(s)), NEW e \in SoundEntries(s)
  PROVE  addEntry(t, e) \in Seq(SoundEntries(s)) /\ Len(addEntry(t, e)) >= Len(t)
<1> DEFINE same  == {i \in DOMAIN t : SameEntry(t[i], e)}
           after == {i \in DOMAIN t : e.bucket < t[i].bucket}
           place == IF after = {} THEN Len(t) + 1 ELSE Least(after)
<1>1. Len(t) \in Nat /\ same \in SUBSET Nat /\ after \in SUBSET Nat
  BY TableElements, LenProperties
<1>2. CASE same # {}
  <2>1. Least(same) \in DOMAIN t
    BY <1>1, <1>2, LeastExists
  <2>2. t[Least(same)] \in SoundEntries(s)
    BY <2>1, ElementOfSeq, LenProperties
  <2>3. [t[Least(same)] EXCEPT !.age = 0] \in SoundEntries(s)
    <3> DEFINE f == t[Least(same)]
    <3>1. f \in SoundEntries(s) /\ 0 \in 0 .. 2
      BY <2>2
    <3> HIDE DEF f
    <3>2. [f EXCEPT !.age = 0] \in SoundEntries(s)
      BY <3>1, AgedEntry
    <3> QED BY <3>2 DEF f
  <2>4. addEntry(t, e) = [t EXCEPT ![Least(same)] = [t[Least(same)] EXCEPT !.age = 0]]
    BY <1>2 DEF addEntry
  <2> HIDE DEF same
  <2> QED BY <1>1, <2>1, <2>3, <2>4, ReplaceSeq
<1>3. CASE same = {} /\ Cardinality(InBucket(t, e.bucket)) >= MaxPerBucket
  BY <1>1, <1>3 DEF addEntry
<1>4. CASE same = {} /\ ~ (Cardinality(InBucket(t, e.bucket)) >= MaxPerBucket)
  <2>1. place \in 1 .. Len(t) + 1
    <3>1. ASSUME after # {} PROVE Least(after) \in 1 .. Len(t)
      BY <1>1, <3>1, LeastExists, LenProperties
    <3> HIDE DEF after
    <3> QED BY <1>1, <3>1
  <2>2. addEntry(t, e) = InsertAt(t, place, e)
    BY <1>4 DEF addEntry
  <2> HIDE DEF place
  <2>3. InsertAt(t, place, e) \in Seq(SoundEntries(s)) /\ Len(InsertAt(t, place, e)) = Len(t) + 1
    BY <2>1, InsertAtSeq
  <2> QED BY <1>1, <2>2, <2>3
<1> QED BY <1>2, <1>3, <1>4

LEMMA DelEntrySound ==
  ASSUME NEW s, NEW t \in Seq(SoundEntries(s)), NEW nh
  PROVE  delEntry(t, nh) \in Seq(SoundEntries(s))
<1> DEFINE same == MatchesHop(t, nh)
<1>1. same \in SUBSET Nat /\ same \in SUBSET DOMAIN t
  BY TableElements DEF MatchesHop
<1>2. CASE same = {}
  BY <1>2 DEF delEntry
<1>3. CASE same # {}
  <2>1. Least(same) \in DOMAIN t
    BY <1>1, <1>3, LeastExists
  <2>2. delEntry(t, nh) = RemoveAt(t, Least(same))
    BY <1>3 DEF delEntry
  <2> HIDE DEF same
  <2> QED BY <2>1, <2>2, RemoveAtSeq
<1> QED BY <1>2, <1>3

\* What a lookup returns is an entry of the bucket asked for.
LEMMA LookupSound ==
  ASSUME NEW s, NEW t \in Seq(SoundEntries(s)), NEW k, NEW e \in entryLookup(t, s, k)
  PROVE  e \in SoundEntries(s) /\ e.bucket = k
<1> DEFINE own == {i \in InBucket(t, k) : t[i].gateway = s}
<1>1. PICK i \in InBucket(t, k) : e = t[i]
  <2>1. own \in SUBSET Nat
    BY TableElements DEF InBucket
  <2>2. own # {} => Least(own) \in own
    BY <2>1, LeastExists
  <2> QED BY <2>2 DEF entryLookup
<1>2. i \in DOMAIN t /\ t[i].bucket = k
  BY DEF InBucket
<1> QED BY <1>1, <1>2, LenProperties, ElementOfSeq

LEMMA FirstHopSound ==
  ASSUME NEW s \in Switches, NEW t \in Seq(SoundEntries(s)), NEW k, InBucket(t, k) # {}
  PROVE  /\ k \in BitPos
         /\ FirstHop(t, k) \in Nbrs(s) /\ FirstHop(t, k) \in Switches
         /\ vidDist(s, FirstHop(t, k)) <= k
<1> DEFINE i == Least(InBucket(t, k))
<1>1. InBucket(t, k) \in SUBSET Nat /\ InBucket(t, k) \in SUBSET DOMAIN t
  BY TableElements DEF InBucket
<1>2. i \in InBucket(t, k)
  BY <1>1, LeastExists
<1>3. i \in DOMAIN t /\ t[i].bucket = k /\ FirstHop(t, k) = t[i].nexthop
  BY <1>2 DEF InBucket, FirstHop
<1> HIDE DEF i
<1>4. t[i] \in Entries /\ EntrySound(s, t[i])
  BY <1>3, TableElements
<1>5. k \in BitPos /\ t[i].nexthop \in Switches
  BY <1>3, <1>4 DEF Entries
<1>6. t[i].nexthop \in Nbrs(s) /\ (vidDist(s, t[i].nexthop) = k \/ vidDist(s, t[i].nexthop) < k)
  BY <1>3, <1>4 DEF EntrySound
<1>7. vidDist(s, t[i].nexthop) <= k
  <2>1. vidDist(s, t[i].nexthop) \in Nat
    BY <1>5, JavaAssumption, Dist
  <2> QED BY <1>5, <1>6, <2>1 DEF BitPos
<1> QED BY <1>3, <1>5, <1>6, <1>7

\* The learnt entry copies its next hop from a lower bucket.
LEMMA HopsToSound ==
  ASSUME NEW s \in Switches, rTable[s] \in Seq(SoundEntries(s)),
         NEW g \in Switches, NEW k, Reaches(g, s, k), NEW nh \in HopsTo(s, g, k)
  PROVE  Entry(k, nh, g) \in SoundEntries(s)
<1>1. s \in VIDs /\ g \in VIDs /\ Nbrs(s) \subseteq Switches /\ Nbrs(g) \subseteq VIDs
  BY JavaAssumption, NbrsSwitches
<1>2. k \in BitPos /\ vidDist(s, g) < k
  <2>1. PICK n \in Nbrs(g) : vidDist(s, n) = k
    BY DEF Reaches
  <2>2. vidDist(s, g) < k /\ vidDist(s, g) \in Nat /\ k \in Nat /\ k <= VidBits
    BY <1>1, <2>1, Dist DEF Reaches
  <2> QED BY <2>2, WidthAssumption DEF BitPos
<1>3. CASE g = s
  <2>1. nh \in Nbrs(s) /\ vidDist(s, nh) = k
    BY <1>3 DEF HopsTo, Nbrs
  <2> QED BY <1>1, <1>2, <1>3, <2>1 DEF Entry, SoundEntries, Entries, EntrySound
<1>4. CASE g # s
  <2>1. InBucket(rTable[s], vidDist(s, g)) # {} /\ nh = FirstHop(rTable[s], vidDist(s, g))
    BY <1>4 DEF HopsTo
  <2>2. nh \in Nbrs(s) /\ nh \in Switches /\ vidDist(s, nh) <= vidDist(s, g)
    BY <2>1, FirstHopSound
  <2>3. vidDist(s, nh) < k
    <3>1. vidDist(s, nh) \in Nat /\ vidDist(s, g) \in Nat /\ k \in Int
      BY <1>1, <1>2, <2>2, JavaAssumption, Dist DEF BitPos
    <3> QED BY <1>2, <2>2, <3>1
  <2> QED BY <1>2, <1>4, <2>2, <2>3 DEF Entry, SoundEntries, Entries, EntrySound
<1> QED BY <1>3, <1>4

-----------------------------------------------------------------------------
(* The edges of a rendezvous switch.                                       *)

SoundEdges(s) == {e \in Edges : EdgeSound(s, e)}

LEMMA FreshEdge ==
  ASSUME NEW s, NEW e \in SoundEdges(s), NEW f \in BOOLEAN
  PROVE  [e EXCEPT !.fresh = f] \in SoundEdges(s)
BY DEF SoundEdges, Edges, EdgeSound

LEMMA AddEdgeSound ==
  ASSUME NEW s, NEW r \in Seq(SoundEdges(s)), NEW a \in Switches, NEW b \in Nbrs(a),
         IsRdv(s, a, vidDist(a, b))
  PROVE  addEdge(r, a, b) \in Seq(SoundEdges(s))
<1> DEFINE same == MatchesEdge(r, a, b)
<1>1. same \in SUBSET Nat /\ same \in SUBSET DOMAIN r
  BY LenProperties DEF MatchesEdge
<1>2. CASE same = {}
  <2>1. RdvEntry(a, b) \in SoundEdges(s)
    BY NbrsSwitches DEF RdvEntry, SoundEdges, Edges, EdgeSound
  <2>2. addEdge(r, a, b) = Append(r, RdvEntry(a, b))
    BY <1>2 DEF addEdge
  <2> QED BY <2>1, <2>2, AppendProperties
<1>3. CASE same # {}
  <2> DEFINE i == Least(same)
  <2>1. i \in DOMAIN r
    BY <1>1, <1>3, LeastExists
  <2>2. addEdge(r, a, b) = [r EXCEPT ![i] = [r[i] EXCEPT !.fresh = TRUE]]
    BY <1>3 DEF addEdge
  <2> HIDE DEF i
  <2>3. [r[i] EXCEPT !.fresh = TRUE] \in SoundEdges(s)
    BY <2>1, LenProperties, ElementOfSeq, FreshEdge
  <2> QED BY <2>1, <2>2, <2>3, ReplaceSeq
<1> QED BY <1>2, <1>3

LEMMA DelEdgeSound ==
  ASSUME NEW s, NEW r \in Seq(SoundEdges(s)), NEW a, NEW b
  PROVE  delEdge(r, a, b) \in Seq(SoundEdges(s))
<1> DEFINE same == MatchesEdge(r, a, b)
<1>1. same \in SUBSET Nat /\ same \in SUBSET DOMAIN r
  BY LenProperties DEF MatchesEdge
<1>2. CASE same = {}
  BY <1>2 DEF delEdge
<1>3. CASE same # {}
  <2>1. Least(same) \in DOMAIN r
    BY <1>1, <1>3, LeastExists
  <2>2. delEdge(r, a, b) = RemoveAt(r, Least(same))
    BY <1>3 DEF delEdge
  <2> HIDE DEF same
  <2> QED BY <2>1, <2>2, RemoveAtSeq
<1> QED BY <1>2, <1>3

\* Every gateway that is found has a link to the level it is found for.
LEMMA FoundSound ==
  ASSUME NEW s, NEW r \in Seq(SoundEdges(s)), NEW host \in VIDs, NEW k
  PROVE  /\ findEntry(r, host, k) \in SUBSET (Nat \X Switches)
         /\ \A g \in findEntry(r, host, k) : Reaches(g[2], host, k)
<1> SUFFICES ASSUME NEW g \in findEntry(r, host, k)
             PROVE  g \in Nat \X Switches /\ Reaches(g[2], host, k)
  OBVIOUS
<1>1. PICK i \in Leads(r, host, k) :
        g = <<i, IF Crosses(host, k, r[i].src, r[i].dst) THEN r[i].src ELSE r[i].dst>>
  BY DEF findEntry
<1> DEFINE a == r[i].src
           b == r[i].dst
<1>2. i \in DOMAIN r /\ (Crosses(host, k, a, b) \/ Crosses(host, k, b, a))
  BY DEF Leads
<1>3. i \in Nat /\ r[i] \in Edges /\ EdgeSound(s, r[i])
  BY <1>2, LenProperties, ElementOfSeq DEF SoundEdges
<1>4. a \in Switches /\ b \in Switches /\ b \in Nbrs(a)
  BY <1>3 DEF Edges, EdgeSound
<1>5. a \in Nbrs(b) /\ a \in VIDs /\ b \in VIDs
  BY <1>4, JavaAssumption
<1>6. g = <<i, IF Crosses(host, k, a, b) THEN a ELSE b>>
  BY <1>1
<1> HIDE DEF a, b
<1>7. ASSUME NEW c \in VIDs, NEW d \in VIDs, d \in Nbrs(c), Crosses(host, k, c, d)
      PROVE  Reaches(c, host, k)
  <2>1. vidDist(host, c) \in Nat /\ vidDist(host, d) \in Nat
    BY Dist
  <2>2. vidDist(host, c) <= k - 1 /\ vidDist(host, d) = k
    BY <1>7 DEF Crosses
  <2>3. vidDist(host, c) < k
    BY <2>1, <2>2
  <2> QED BY <1>7, <2>2, <2>3 DEF Reaches
<1>8. CASE Crosses(host, k, a, b)
  BY <1>3, <1>4, <1>5, <1>6, <1>7, <1>8
<1>9. CASE ~ Crosses(host, k, a, b)
  BY <1>2, <1>3, <1>4, <1>5, <1>6, <1>7, <1>9
<1> QED BY <1>8, <1>9

LEMMA FirstGatewayExists ==
  ASSUME NEW gws \in SUBSET (Nat \X Switches), gws # {}
  PROVE  FirstGateway(gws) \in gws
<1> DEFINE places == {g[1] : g \in gws}
<1>1. places \in SUBSET Nat /\ places # {}
  OBVIOUS
<1> HIDE DEF places
<1>2. Least(places) \in places /\ \A j \in places : Least(places) <= j
  BY <1>1, LeastExists
<1>3. PICK g \in gws : \A h \in gws : g[1] <= h[1]
  BY <1>2 DEF places
<1> QED BY <1>3 DEF FirstGateway

-----------------------------------------------------------------------------
(* Packets.                                                                *)

\* Publications and updates are about a link of their source and go to one of
\* its rendezvous switches, queries go to one, and what a reply lists is true.
Genuine(p) ==
  /\ p.op \in {"PUBLISH", "UPDATE"}
       => p.src \in Switches /\ p.vid \in Nbrs(p.src) /\ IsRdv(p.dst, p.src, Level(p))
  /\ p.op = "QUERY" => p.src \in Switches /\ p.k \in BitPos /\ IsRdv(p.dst, p.src, p.k)
  /\ p.op = "REPLY" => /\ p.src \in Switches /\ p.dst \in Switches /\ p.gws # {}
                       /\ \A g \in p.gws : Reaches(g[2], p.dst, LevelRead(p.k))

SoundPackets == {p \in Packet : p.to \in Switches /\ Genuine(p) /\ InSubtree(p, p.to)}

LEMMA PacketFields ==
  ASSUME NEW p \in Packet
  PROVE  /\ p.op \in ControlOps \cup {"REPLY", "DATA"}
         /\ p.src \in VIDs /\ p.dst \in VIDs /\ p.fwd \in VIDs /\ p.vid \in VIDs /\ p.to \in VIDs
         /\ p.k \in Nat /\ p.gws \in SUBSET (Nat \X Switches) /\ p.ttl \in 1 .. MaxTTL
         /\ Level(p) \in Nat
<1>1. /\ p.op \in ControlOps \cup {"REPLY", "DATA"}
      /\ p.src \in VIDs /\ p.dst \in VIDs /\ p.fwd \in VIDs /\ p.vid \in VIDs /\ p.to \in VIDs
      /\ p.k \in Nat /\ p.gws \in SUBSET (Nat \X Switches) /\ p.ttl \in 1 .. MaxTTL
  BY DEF Packet
<1> QED BY <1>1, Dist DEF Level

\* Two packets that differ at most in their TTL and in where they are.
Alike(p, q) == /\ q \in Packet
               /\ q.op = p.op /\ q.src = p.src /\ q.dst = p.dst /\ q.fwd = p.fwd
               /\ q.vid = p.vid /\ q.k = p.k /\ q.gws = p.gws

LEMMA AlikeSound ==
  ASSUME NEW p \in Packet, NEW q, Alike(p, q)
  PROVE  /\ Genuine(p) => Genuine(q)
         /\ \A s : InSubtree(p, s) => InSubtree(q, s)
<1>1. Level(q) = Level(p)
  BY DEF Alike, Level
<1> QED BY <1>1 DEF Alike, Genuine, InSubtree

LEMMA Sent ==
  ASSUME NEW p \in Packet, Genuine(p), NEW nh \in Switches, InSubtree(p, nh)
  PROVE  [p EXCEPT !.to = nh] \in SoundPackets
<1> DEFINE q == [p EXCEPT !.to = nh]
<1>1. Alike(p, q) /\ q.to = nh
  BY JavaAssumption DEF Packet, Alike
<1> HIDE DEF q
<1>2. q \in Packet
  BY <1>1 DEF Alike
<1>3. Genuine(q) /\ InSubtree(q, q.to)
  BY <1>1, AlikeSound
<1> QED BY <1>1, <1>2, <1>3 DEF SoundPackets, q

LEMMA AgedAlike ==
  ASSUME NEW p \in Packet, ~ Expired(p)
  PROVE  Alike(p, Aged(p)) /\ Aged(p).to = p.to
<1>1. p.ttl - 1 \in 1 .. MaxTTL
  BY PacketFields, JavaAssumption DEF Expired
<1> QED BY <1>1 DEF Aged, Alike, Packet

\* A control packet may go anywhere that is not farther than its destination.
LEMMA ControlMoves ==
  ASSUME NEW p \in Packet, p.op # "DATA", NEW s \in VIDs, InSubtree(p, s),
         NEW nh \in VIDs, vidDist(s, nh) <= vidDist(s, p.dst)
  PROVE  InSubtree(p, nh)
<1> DEFINE L == Level(p)
<1>1. /\ p.src \in VIDs /\ p.dst \in VIDs /\ L \in Nat
      /\ vidDist(p.src, s) < L /\ vidDist(p.src, p.dst) < L
  BY PacketFields DEF InSubtree
<1> HIDE DEF L
<1>2. vidDist(s, p.dst) < L
  <2>1. vidDist(s, p.dst) <= vidDist(s, p.src) \/ vidDist(s, p.dst) <= vidDist(p.src, p.dst)
    BY <1>1, Detour
  <2>2. vidDist(s, p.src) = vidDist(p.src, s) /\ vidDist(p.src, s) \in Nat
    BY <1>1, Dist
  <2>3. vidDist(s, p.dst) \in Nat /\ vidDist(p.src, p.dst) \in Nat
    BY <1>1, Dist
  <2> QED BY <1>1, <2>1, <2>2, <2>3
<1>3. vidDist(p.src, nh) < L
  <2>1. vidDist(p.src, nh) <= vidDist(p.src, s) \/ vidDist(p.src, nh) <= vidDist(s, nh)
    BY <1>1, Detour
  <2>2. /\ vidDist(p.src, nh) \in Nat /\ vidDist(p.src, s) \in Nat
        /\ vidDist(s, nh) \in Nat /\ vidDist(s, p.dst) \in Nat
    BY <1>1, Dist
  <2> QED BY <1>1, <1>2, <2>1, <2>2
<1> QED BY <1>1, <1>3 DEF InSubtree, L

\* A data packet may go anywhere that is not farther than its directive.
LEMMA DataMoves ==
  ASSUME NEW p \in Packet, p.op = "DATA", NEW s \in VIDs, InSubtree(p, s),
         NEW nh \in VIDs, vidDist(s, nh) <= vidDist(s, p.fwd)
  PROVE  InSubtree(p, nh)
<1> DEFINE d == vidDist(p.src, p.dst)
<1>1. /\ p.src \in VIDs /\ p.dst \in VIDs /\ p.fwd \in VIDs /\ d \in Nat
      /\ vidDist(s, p.dst) <= d /\ (p.fwd # p.dst => vidDist(s, p.fwd) < d)
  BY PacketFields, Dist DEF InSubtree
<1> HIDE DEF d
<1>2. /\ vidDist(nh, s) \in Nat /\ vidDist(s, p.dst) \in Nat /\ vidDist(s, p.fwd) \in Nat
      /\ vidDist(nh, p.dst) \in Nat /\ vidDist(nh, p.fwd) \in Nat
      /\ vidDist(nh, s) = vidDist(s, nh)
  BY <1>1, Dist
<1>3. vidDist(nh, p.dst) <= vidDist(nh, s) \/ vidDist(nh, p.dst) <= vidDist(s, p.dst)
  BY <1>1, Detour
<1>4. vidDist(nh, p.fwd) <= vidDist(nh, s) \/ vidDist(nh, p.fwd) <= vidDist(s, p.fwd)
  BY <1>1, Detour
<1>5. vidDist(s, p.fwd) <= d
  BY <1>1, <1>2
<1>6. vidDist(nh, p.dst) <= d
  BY <1>1, <1>2, <1>3, <1>5
<1>7. p.fwd # p.dst => vidDist(nh, p.fwd) < d
  BY <1>1, <1>2, <1>4
<1> QED BY <1>6, <1>7 DEF InSubtree, d

-----------------------------------------------------------------------------
(* Jobs.                                                                   *)

ItemOps == {"neighbor", "route", "process", "delete", "learn", "forward", "source",
            "expire", "purge"}
Items == [op : ItemOps, pkt : Packet, vid : VIDs, pos : Nat]

ItemSound(s, it) ==
  /\ it.op \in {"neighbor", "delete"} => it.vid \in Nbrs(s)
  /\ it.op = "route" => it.pkt.op \in ControlOps /\ Genuine(it.pkt) /\ InSubtree(it.pkt, s)
  /\ it.op = "process" => /\ it.pkt.op \in ControlOps /\ Genuine(it.pkt)
                          /\ it.pkt.src = s /\ it.pkt.dst = s
  /\ it.op = "learn" => it.pkt.gws # {} /\ \A g \in it.pkt.gws : Reaches(g[2], s, it.pkt.k)
  /\ it.op \in {"forward", "source"} => it.pkt.op = "DATA" /\ InSubtree(it.pkt, s)
  /\ it.op \in {"expire", "purge"} => it.pos >= 1

SoundItems(s) == {it \in Items : ItemSound(s, it)}

LEMMA NoPacketFields ==
  NoPacket \in Packet
BY JavaAssumption DEF NoPacket, Packet, ControlOps, ZeroVID, VIDs

\* The packets of a switch's own rendezvous traffic.
ToRdv(op, me, d, v, level) ==
  [NoPacket EXCEPT !.op = op, !.src = me, !.dst = d, !.vid = v, !.k = level]

LEMMA OwnTraffic ==
  ASSUME NEW op \in ControlOps, NEW s \in Switches, NEW k \in BitPos, NEW d \in VIDs,
         IsRdv(d, s, k), NEW v \in VIDs, NEW level \in Nat,
         op = "QUERY" => level = k,
         op # "QUERY" => v \in Nbrs(s) /\ k = vidDist(s, v)
  PROVE  LET p == ToRdv(op, s, d, v, level)
         IN  p \in Packet /\ p.op = op /\ p.src = s /\ p.dst = d /\ Genuine(p) /\ InSubtree(p, s)
<1> DEFINE p == ToRdv(op, s, d, v, level)
<1>1. /\ p \in Packet /\ p.op = op /\ p.src = s /\ p.dst = d /\ p.vid = v /\ p.k = level
  BY NoPacketFields, JavaAssumption DEF ToRdv, Packet
<1> HIDE DEF p
<1>2. op \in {"PUBLISH", "QUERY", "UPDATE"}
  BY DEF ControlOps
<1>3. Level(p) = k
  BY <1>1, <1>2 DEF Level
<1>4. vidDist(s, s) < k /\ vidDist(s, d) < k
  <2>1. s \in VIDs /\ vidDist(s, s) = 0 /\ k \in Nat /\ k >= 1
    BY JavaAssumption, Dist DEF BitPos
  <2> QED BY <2>1, RdvNear DEF IsRdv
<1>5. Genuine(p)
  BY <1>1, <1>2, <1>3 DEF Genuine
<1>6. InSubtree(p, s)
  BY <1>1, <1>2, <1>3, <1>4 DEF InSubtree
<1> QED BY <1>1, <1>5, <1>6 DEF p

LEMMA ItemFields ==
  ASSUME NEW s, NEW it \in SoundItems(s)
  PROVE  /\ it.op \in ItemOps /\ it.pkt \in Packet /\ it.vid \in VIDs /\ it.pos \in Nat
         /\ ItemSound(s, it)
BY DEF SoundItems, Items

\* The calls about a neighbour, a packet, and a place in a table.
LEMMA NeighborItems ==
  ASSUME NEW s \in Switches, NEW v \in Nbrs(s)
  PROVE  Neighbor(v) \in SoundItems(s) /\ Delete(v) \in SoundItems(s)
<1>1. v \in VIDs
  BY NbrsSwitches
<1> QED BY <1>1, NoPacketFields DEF Neighbor, Delete, Item, SoundItems, Items, ItemOps, ItemSound

LEMMA PacketItem ==
  ASSUME NEW s \in Switches, NEW p \in Packet, NEW op \in ItemOps,
         op \notin {"neighbor", "delete", "expire", "purge"},
         ItemSound(s, Item(op, p, ZeroVID, 0))
  PROVE  Item(op, p, ZeroVID, 0) \in SoundItems(s)
<1>1. ZeroVID \in VIDs
  BY DEF ZeroVID, VIDs
<1> QED BY <1>1 DEF Item, SoundItems, Items

LEMMA PlaceItems ==
  ASSUME NEW s \in Switches, NEW n \in Nat, n >= 1
  PROVE  Expire(n) \in SoundItems(s) /\ Purge(n) \in SoundItems(s)
<1>1. ZeroVID \in VIDs
  BY DEF ZeroVID, VIDs
<1> QED BY <1>1, NoPacketFields DEF Expire, Purge, Item, SoundItems, Items, ItemOps, ItemSound

LEMMA RouteItem ==
  ASSUME NEW s \in Switches, NEW p \in Packet, p.op \in ControlOps, Genuine(p), InSubtree(p, s)
  PROVE  Route(p) \in SoundItems(s)
BY PacketItem DEF Route, Item, ItemOps, ItemSound

LEMMA ProcessItem ==
  ASSUME NEW s \in Switches, NEW p \in Packet, p.op \in ControlOps, Genuine(p),
         p.src = s, p.dst = s
  PROVE  Process(p) \in SoundItems(s)
BY PacketItem DEF Process, Item, ItemOps, ItemSound

LEMMA LearnItem ==
  ASSUME NEW s \in Switches, NEW p \in Packet, p.gws # {},
         \A g \in p.gws : Reaches(g[2], s, p.k)
  PROVE  Learn(p) \in SoundItems(s)
BY PacketItem DEF Learn, Item, ItemOps, ItemSound

LEMMA DataItems ==
  ASSUME NEW s \in Switches, NEW p \in Packet, p.op = "DATA", InSubtree(p, s)
  PROVE  Forward(p) \in SoundItems(s) /\ Source(p) \in SoundItems(s)
BY PacketItem DEF Forward, Source, Item, ItemOps, ItemSound

\* What a job may hold besides must not do harm: entries are only deleted after
\* a connection was refused, and the tables are only checked by the timer, not
\* during its walk.  QuietItems(s) are those that are safe whatever the state,
\* LossItems(s) those that are safe once s was refused a connection.
Threads == {"timer", "handler"}
SafeItems(s, th) ==
  {it \in SoundItems(s) : /\ it.op = "delete" => s \in refused
                          /\ it.op \in {"expire", "purge"} => th = "timer"
                          /\ it.op = "expire" => timer[s].pc # "publish"}
LossItems(s)  == {it \in SoundItems(s) : it.op \notin {"expire", "purge"}}
QuietItems(s) == {it \in LossItems(s) : it.op # "delete"}

LEMMA QuietSafe ==
  ASSUME NEW s, NEW th
  PROVE  /\ QuietItems(s) \subseteq SafeItems(s, th) /\ QuietItems(s) \subseteq SafeItems(s, th)'
         /\ SafeItems(s, th) \subseteq Items /\ SafeItems(s, th)' \subseteq Items
         /\ s \in refused' => LossItems(s) \subseteq SafeItems(s, th)'
BY DEF QuietItems, LossItems, SafeItems, SoundItems

\* Where no refusal is forgotten, what a handler may do it may do later.
LEMMA SafeLater ==
  ASSUME NEW s, refused \subseteq refused'
  PROVE  SafeItems(s, "handler") \subseteq SafeItems(s, "handler")'
BY DEF SafeItems

\* The calls that rendezvousPublish, rendezvousQuery and rendezvousUpdate make.
LEMMA RendezvousSound ==
  ASSUME NEW op \in ControlOps, NEW s \in Switches, NEW k \in BitPos, NEW v \in VIDs,
         NEW level \in Nat,
         op = "QUERY" => level = k,
         op # "QUERY" => v \in Nbrs(s) /\ k = vidDist(s, v)
  PROVE  Rendezvous(op, s, k, v, level) \in Seq(QuietItems(s))
<1> DEFINE Begin(d) == IF d = s THEN Process(ToRdv(op, s, d, v, level))
                       ELSE Route(ToRdv(op, s, d, v, level))
           a == PrimaryRdv(s, k)
           b == BackupRdv(s, k)
<1>1. ASSUME NEW d \in VIDs, IsRdv(d, s, k)
      PROVE  Begin(d) \in QuietItems(s)
  <2> DEFINE p == ToRdv(op, s, d, v, level)
  <2>1. p \in Packet /\ p.op = op /\ p.src = s /\ p.dst = d /\ Genuine(p) /\ InSubtree(p, s)
    BY <1>1, OwnTraffic
  <2> HIDE DEF p
  <2>2. Route(p) \in QuietItems(s)
    BY <2>1, RouteItem DEF Route, Item, QuietItems, LossItems
  <2>3. d = s => Process(p) \in QuietItems(s)
    BY <2>1, ProcessItem DEF Process, Item, QuietItems, LossItems
  <2> QED BY <2>2, <2>3 DEF p
<1>2. a \in VIDs /\ b \in VIDs /\ IsRdv(a, s, k) /\ IsRdv(b, s, k)
  BY JavaAssumption, RdvNear DEF IsRdv
<1>3. Rendezvous(op, s, k, v, level) = IF a = s THEN <<Begin(s)>> ELSE <<Begin(a), Begin(b)>>
  BY DEF Rendezvous, ToRdv
<1> HIDE DEF Begin, a, b
<1>4. Begin(a) \in QuietItems(s) /\ Begin(b) \in QuietItems(s)
  BY <1>1, <1>2
<1> QED BY <1>3, <1>4

\* Giving up the lock before each call changes nothing of a call.
LEMMA UnlockedSound ==
  ASSUME NEW s, NEW todo \in Seq(LossItems(s))
  PROVE  Unlocked(todo) \in Seq(LossItems(s))
<1>1. DOMAIN todo = 1 .. Len(todo) /\ Len(todo) \in Nat
  BY LenProperties
<1>2. ASSUME NEW i \in 1 .. Len(todo)
      PROVE  [todo[i] EXCEPT !.pos = 1] \in LossItems(s)
  <2>1. todo[i] \in LossItems(s)
    BY <1>1, ElementOfSeq
  <2> DEFINE it == todo[i]
  <2> HIDE DEF it
  <2>2. it \in LossItems(s)
    BY <2>1 DEF it
  <2>3. [it EXCEPT !.pos = 1] \in LossItems(s)
    BY <2>2 DEF LossItems, SoundItems, Items, ItemSound
  <2> QED BY <2>3 DEF it
<1>3. Unlocked(todo) = [i \in 1 .. Len(todo) |-> [todo[i] EXCEPT !.pos = 1]]
  BY <1>1 DEF Unlocked
<1> QED BY <1>1, <1>2, <1>3, SeqDef

\* removeRTEntry, and another attempt, with or without the lock.
LEMMA ResendSound ==
  ASSUME NEW s \in Switches, s = job.sw, NEW v \in Nbrs(s), NEW item \in QuietItems(s)
  PROVE  /\ Resend(v, item) \in Seq(LossItems(s))
         /\ Unlocked(Resend(v, item)) \in Seq(LossItems(s))
<1> DEFINE k == vidDist(s, v)
           todo == Resend(v, item)
<1>1. v \in VIDs /\ k \in BitPos
  BY NbrsSwitches, JavaAssumption, Dist
<1>2. Rendezvous("UPDATE", s, k, v, 0) \in Seq(QuietItems(s))
  BY <1>1, RendezvousSound DEF ControlOps
<1>3. Rendezvous("UPDATE", s, k, v, 0) \in Seq(LossItems(s))
  <2>1. QuietItems(s) \subseteq LossItems(s)
    BY DEF QuietItems
  <2> QED BY <1>2, <2>1, SeqMonotonic
<1>4. Delete(v) \in LossItems(s) /\ item \in LossItems(s)
  BY NeighborItems DEF Delete, Item, LossItems, QuietItems
<1>5. RemoveRTEntry(s, v) \in Seq(LossItems(s))
  BY <1>3, <1>4, AppendProperties DEF RemoveRTEntry
<1>6. todo \in Seq(LossItems(s))
  BY <1>4, <1>5, AppendProperties DEF Resend
<1> HIDE DEF todo
<1>7. Unlocked(todo) \in Seq(LossItems(s))
  BY <1>6, UnlockedSound
<1> QED BY <1>6, <1>7 DEF todo

-----------------------------------------------------------------------------
(* The invariant.                                                          *)

Timers == [pc : {"start", "build", "bucket", "publish", "check", "dead"},
           bucket : BitPos, j : Nat \ {0}, end : Nat]

TablesOK == /\ rTable \in [Switches -> Seq(Entries)]
            /\ \A s \in Switches : rTable[s] \in Seq(SoundEntries(s))
EdgesOK  == /\ rdvtable \in [Switches -> Seq(Edges)]
            /\ \A s \in Switches : rdvtable[s] \in Seq(SoundEdges(s))
JobOK    == /\ job \in [sw : VIDs, thread : Threads, todo : Seq(Items)]
            /\ job.todo # <<>> => job.sw \in Switches
            /\ job.todo \in Seq(SafeItems(job.sw, job.thread))
ParkedOK == \A j \in parked : /\ j \in [sw : Switches, thread : {"handler"}, todo : Seq(Items)]
                              /\ j.todo # <<>>
                              /\ j.todo \in Seq(SafeItems(j.sw, "handler"))
ProcsOK  == /\ proc \in [Switches -> ProcStates]
            /\ crashed \subseteq Switches /\ refused \subseteq Switches

\* A timer that walks the table stays inside it, unless a neighbour refused.
WalksInside ==
  \A s \in Switches :
     timer[s].pc = "publish" => timer[s].end <= Len(rTable[s]) \/ s \in refused

IInv ==
  /\ ProcsOK /\ timer \in [Switches -> Timers]
  /\ TablesOK /\ EdgesOK /\ net \subseteq SoundPackets /\ JobOK /\ ParkedOK
  /\ WalksInside /\ FailureNeedsRefusal

LEMMA ParkedKept ==
  ASSUME ParkedOK, parked' \subseteq parked, refused \subseteq refused'
  PROVE  ParkedOK'
<1> SUFFICES ASSUME NEW j \in parked
             PROVE  j.todo \in Seq(SafeItems(j.sw, "handler")')
  BY DEF ParkedOK
<1>1. j.todo \in Seq(SafeItems(j.sw, "handler"))
  BY DEF ParkedOK
<1> QED BY <1>1, SafeLater, SeqMonotonic

LEMMA SetTable ==
  ASSUME TablesOK, NEW s \in Switches, NEW t \in Seq(SoundEntries(s)),
         rTable' = [rTable EXCEPT ![s] = t]
  PROVE  TablesOK'
<1>1. t \in Seq(Entries)
  <2>1. SoundEntries(s) \subseteq Entries
    BY DEF SoundEntries
  <2> QED BY <2>1, SeqMonotonic
<1> QED BY <1>1 DEF TablesOK

LEMMA SetEdges ==
  ASSUME EdgesOK, NEW s \in Switches, NEW r \in Seq(SoundEdges(s)),
         rdvtable' = [rdvtable EXCEPT ![s] = r]
  PROVE  EdgesOK'
<1>1. r \in Seq(Edges)
  <2>1. SoundEdges(s) \subseteq Edges
    BY DEF SoundEdges
  <2> QED BY <2>1, SeqMonotonic
<1> QED BY <1>1 DEF EdgesOK

LEMMA NoJobOK ==
  ASSUME job' = NoJob
  PROVE  JobOK'
<1>1. ZeroVID \in VIDs
  BY DEF ZeroVID, VIDs
<1>2. job'.todo = <<>> /\ <<>> \in Seq(Items) /\ <<>> \in Seq(SafeItems(ZeroVID, "timer")')
  BY EmptySeq DEF NoJob
<1>3. job' \in [sw : VIDs, thread : Threads, todo : Seq(Items)]
  BY <1>1, <1>2 DEF NoJob, Threads
<1>4. job'.sw = ZeroVID /\ job'.thread = "timer"
  BY DEF NoJob
<1> QED BY <1>2, <1>3, <1>4 DEF JobOK, SafeItems

LEMMA CallOK ==
  ASSUME NEW s \in Switches, NEW thread \in Threads,
         NEW todo, todo \in Seq(SafeItems(s, thread)'), Call(s, thread, todo)
  PROVE  JobOK'
<1>1. todo \in Seq(Items)
  BY QuietSafe, SeqMonotonic
<1>2. job' = [sw |-> s, thread |-> thread, todo |-> todo]
  BY DEF Call
<1>3. s \in VIDs
  BY JavaAssumption
<1>4. job'.sw = s /\ job'.thread = thread /\ job'.todo = todo
  BY <1>2
<1>5. job' \in [sw : VIDs, thread : Threads, todo : Seq(Items)]
  BY <1>1, <1>2, <1>3
<1> QED BY <1>4, <1>5 DEF JobOK, SafeItems

LEMMA ContinueOK ==
  ASSUME JobOK, NEW s \in Switches, job.sw = s, NEW th, th = job.thread,
         NEW todo, todo \in Seq(SafeItems(s, th)'), Continue(todo)
  PROVE  JobOK'
<1>1. CASE todo = <<>>
  BY <1>1, NoJobOK DEF Continue
<1>2. CASE todo # <<>>
  <2>1. job' = [sw |-> s, thread |-> th, todo |-> todo] /\ th \in Threads
    BY <1>2 DEF Continue, JobOK
  <2> QED BY <2>1, CallOK DEF Call
<1> QED BY <1>1, <1>2

\* The job at hand: its first item and the rest.
LEMMA JobAtHand ==
  ASSUME JobOK, ~ Idle
  PROVE  /\ job.sw \in Switches /\ job.sw \in VIDs /\ job.thread \in Threads
         /\ Head(job.todo) \in SafeItems(job.sw, job.thread)
         /\ Head(job.todo) \in SoundItems(job.sw)
         /\ Tail(job.todo) \in Seq(SafeItems(job.sw, job.thread))
<1>1. job.todo # <<>> /\ job.todo \in Seq(SafeItems(job.sw, job.thread)) /\ job.sw \in Switches
  BY DEF Idle, JobOK
<1>2. /\ Head(job.todo) \in SafeItems(job.sw, job.thread)
      /\ Tail(job.todo) \in Seq(SafeItems(job.sw, job.thread))
  BY <1>1, HeadTailProperties
<1> QED BY <1>1, <1>2, JavaAssumption DEF SafeItems, JobOK

LEMMA EntryHop ==
  ASSUME NEW s \in Switches, NEW e \in SoundEntries(s)
  PROVE  /\ e.bucket \in BitPos /\ e.nexthop \in Nbrs(s) /\ e.nexthop \in Switches
         /\ e.nexthop \in VIDs /\ e.gateway \in VIDs
         /\ vidDist(s, e.nexthop) <= e.bucket
         /\ e.gateway # s => vidDist(s, e.gateway) < e.bucket /\ vidDist(s, e.nexthop) < e.bucket
<1>1. /\ e.bucket \in BitPos /\ e.nexthop \in Switches /\ e.gateway \in Switches
      /\ EntrySound(s, e)
  BY DEF SoundEntries, Entries
<1>2. e.nexthop \in VIDs /\ e.gateway \in VIDs /\ s \in VIDs
  BY <1>1, JavaAssumption
<1>3. vidDist(s, e.nexthop) \in Nat /\ e.bucket \in Nat
  BY <1>1, <1>2, Dist DEF BitPos
<1>4. vidDist(s, e.nexthop) <= e.bucket
  BY <1>1, <1>3 DEF EntrySound
<1> QED BY <1>1, <1>2, <1>4 DEF EntrySound, Reaches

-----------------------------------------------------------------------------
(* The steps of a job.                                                     *)

\* What is left alone stays as it is.
LEMMA Unmoved ==
  ASSUME IInv, UNCHANGED <<proc, crashed, parked, timer>>,
         refused \subseteq refused', refused' \subseteq Switches,
         \A s \in Switches : timer[s].pc = "publish"
            => Len(rTable'[s]) >= Len(rTable[s]) \/ s \in refused,
         TablesOK'
  PROVE  /\ ProcsOK' /\ ParkedOK'
         /\ timer' \in [Switches -> Timers]
         /\ WalksInside' /\ FailureNeedsRefusal'
         /\ \A s, th : SafeItems(s, th) \subseteq SafeItems(s, th)'
<1>1. WalksInside'
  <2> SUFFICES ASSUME NEW s \in Switches, timer[s].pc = "publish", s \notin refused
               PROVE  timer[s].end <= Len(rTable'[s])
    BY DEF IInv, WalksInside
  <2>1. timer[s].end <= Len(rTable[s]) /\ Len(rTable'[s]) >= Len(rTable[s])
    BY DEF IInv, WalksInside
  <2>2. timer[s].end \in Nat /\ Len(rTable[s]) \in Nat /\ Len(rTable'[s]) \in Nat
    <3>1. rTable[s] \in Seq(Entries) /\ rTable'[s] \in Seq(Entries)
      BY DEF IInv, TablesOK
    <3>2. timer[s] \in Timers
      BY DEF IInv
    <3> QED BY <3>1, <3>2, LenProperties DEF Timers
  <2> QED BY <2>1, <2>2
<1>2. ParkedOK'
  BY ParkedKept DEF IInv
<1>3. ASSUME NEW s, NEW th
      PROVE  SafeItems(s, th) \subseteq SafeItems(s, th)'
  BY DEF SafeItems
<1> QED BY <1>1, <1>2, <1>3 DEF IInv, ProcsOK, FailureNeedsRefusal

\* A send, or the reaction to one that was refused.
LEMMA SendOrSafe ==
  ASSUME IInv, ~ Idle, NEW s \in Switches, s = job.sw,
         NEW p, NEW nh \in Nbrs(s), [p EXCEPT !.to = nh] \in SoundPackets,
         NEW retry \in Seq(LossItems(s)), SendOr(p, nh, retry),
         UNCHANGED <<proc, crashed, parked, timer, rTable, rdvtable>>
  PROVE  IInv'
<1>1. TablesOK' /\ EdgesOK'
  BY DEF IInv, TablesOK, EdgesOK
<1>2. \A u \in Switches : Len(rTable'[u]) >= Len(rTable[u])
  <2> SUFFICES ASSUME NEW u \in Switches PROVE Len(rTable[u]) >= Len(rTable[u])
    OBVIOUS
  <2>1. rTable[u] \in Seq(Entries)
    BY DEF IInv, TablesOK
  <2>2. Len(rTable[u]) \in Nat
    BY <2>1, LenProperties
  <2> QED BY <2>2
<1>3. JobOK /\ Tail(job.todo) \in Seq(SafeItems(s, job.thread)) /\ job.thread \in Threads
  BY JobAtHand DEF IInv
<1>4. PICK th \in Threads : th = job.thread
  BY <1>3
<1>5. refused \subseteq refused' /\ refused' \subseteq Switches
  BY DEF SendOr, IInv, ProcsOK
<1>6. /\ ProcsOK' /\ ParkedOK' /\ timer' \in [Switches -> Timers]
      /\ WalksInside' /\ FailureNeedsRefusal'
      /\ SafeItems(s, th) \subseteq SafeItems(s, th)'
  BY <1>1, <1>2, <1>5, Unmoved
<1>7. Tail(job.todo) \in Seq(SafeItems(s, th)')
  BY <1>3, <1>4, <1>6, SeqMonotonic
<1>8. CASE Listening(nh)
  <2>1. net' \subseteq SoundPackets
    BY <1>8 DEF SendOr, IInv
  <2>2. JobOK'
    BY <1>3, <1>4, <1>7, <1>8, ContinueOK DEF SendOr
  <2> QED BY <1>1, <1>6, <2>1, <2>2 DEF IInv
<1>9. CASE ~ Listening(nh)
  <2>1. s \in refused'
    BY <1>9 DEF SendOr
  <2>2. retry \in Seq(SafeItems(s, th)')
    BY <2>1, QuietSafe, SeqMonotonic
  <2> DEFINE todo == retry \o Tail(job.todo)
  <2>3. todo \in Seq(SafeItems(s, th)')
    BY <1>7, <2>2, ConcatProperties
  <2>4. Continue(todo) /\ net' = net
    BY <1>9 DEF SendOr
  <2> HIDE DEF todo
  <2>5. JobOK'
    BY <1>3, <1>4, <2>3, <2>4, ContinueOK
  <2> QED BY <1>1, <1>6, <2>4, <2>5 DEF IInv
<1> QED BY <1>8, <1>9

\* A call that is done and leaves no trace.
LEMMA DropItem ==
  ASSUME IInv, ~ Idle, Continue(Tail(job.todo)),
         UNCHANGED <<proc, crashed, refused, parked, timer, rTable, rdvtable, net>>
  PROVE  IInv'
<1>1. /\ job.sw \in Switches /\ job.thread \in Threads /\ JobOK
      /\ Tail(job.todo) \in Seq(SafeItems(job.sw, job.thread))
  BY JobAtHand DEF IInv
<1>2. PICK s \in Switches, th \in Threads : s = job.sw /\ th = job.thread
  BY <1>1
<1>3. JobOK'
  <2>1. SafeItems(s, th)' = SafeItems(s, th)
    BY DEF SafeItems
  <2>2. Tail(job.todo) \in Seq(SafeItems(s, th)')
    BY <1>1, <1>2, <2>1
  <2> QED BY <1>1, <1>2, <2>2, ContinueOK
<1>4. ParkedOK'
  BY ParkedKept DEF IInv
<1> QED BY <1>3, <1>4 DEF IInv, ProcsOK, TablesOK, EdgesOK, WalksInside, FailureNeedsRefusal

LEMMA RouteCtrlPacketSafe ==
  ASSUME IInv, ~ Idle, RouteCtrlPacket
  PROVE  IInv'
<1> DEFINE s  == job.sw
           it == Head(job.todo)
           p  == it.pkt
           ks == {k \in 1 .. vidDist(s, p.dst) : InBucket(rTable[s], k) # {}}
           k  == CHOOSE k \in ks : \A n \in ks : n <= k
<1>1. /\ s \in Switches /\ s \in VIDs /\ it \in SoundItems(s) 
      /\ rTable[s] \in Seq(SoundEntries(s))
  BY JobAtHand DEF IInv, TablesOK
<1>2. /\ p \in Packet /\ p.op \in ControlOps /\ Genuine(p) /\ InSubtree(p, s)
      /\ p.dst \in VIDs /\ it.op = "route"
  BY <1>1, ItemFields, PacketFields DEF RouteCtrlPacket, ItemSound
<1> HIDE DEF s, it, p
<1>3. vidDist(s, p.dst) \in Nat /\ vidDist(s, p.dst) <= VidBits
  BY <1>1, <1>2, Dist
<1>4. UNCHANGED <<proc, crashed, parked, timer, rTable, rdvtable>>
  BY DEF RouteCtrlPacket
<1>5. CASE ks = {}
  <2>1. Continue(Tail(job.todo)) /\ UNCHANGED <<net, refused>>
    BY <1>5 DEF RouteCtrlPacket, s, p, it
  <2> HIDE DEF ks, k
  <2> QED BY <1>1, <1>4, <2>1, DropItem DEF s
<1>6. CASE ks # {}
  <2>1. k \in ks
    <3>1. ks \in SUBSET BitPos
      BY <1>3, WidthAssumption DEF BitPos
    <3> HIDE DEF ks
    <3>2. \E m \in ks : \A i \in ks : i <= m
      BY <1>6, <3>1, LeftmostExists
    <3> QED BY <3>2
  <2>2. PICK e \in entryLookup(rTable[s], s, k) : SendOr(p, e.nexthop, Resend(e.nexthop, Route(p)))
    BY <1>6 DEF RouteCtrlPacket, s, p, it
  <2>3. k \in Nat /\ k <= vidDist(s, p.dst)
    BY <1>3, <2>1
  <2> HIDE DEF k, ks
  <2>4. e \in SoundEntries(s) /\ e.bucket = k
    BY <1>1, LookupSound
  <2>5. /\ e.nexthop \in Nbrs(s) /\ e.nexthop \in Switches /\ e.nexthop \in VIDs
        /\ vidDist(s, e.nexthop) <= k
    BY <1>1, <2>4, EntryHop
  <2>6. vidDist(s, e.nexthop) <= vidDist(s, p.dst)
    <3>1. vidDist(s, e.nexthop) \in Nat
      BY <1>1, <2>5, Dist
    <3> QED BY <1>3, <2>3, <2>5, <3>1
  <2>7. InSubtree(p, e.nexthop)
    BY <1>1, <1>2, <2>5, <2>6, ControlMoves DEF ControlOps
  <2>8. [p EXCEPT !.to = e.nexthop] \in SoundPackets
    BY <1>2, <2>5, <2>7, Sent
  <2>9. Resend(e.nexthop, Route(p)) \in Seq(LossItems(s))
    <3>1. Route(p) \in QuietItems(s)
      BY <1>1, <1>2, RouteItem DEF QuietItems, LossItems, Route, Item
    <3> QED BY <1>1, <2>5, <3>1, ResendSound DEF s
  <2> QED BY <1>1, <1>4, <2>2, <2>5, <2>8, <2>9, SendOrSafe DEF s
<1> QED BY <1>5, <1>6

LEMMA RouteDataPacketSafe ==
  ASSUME IInv, ~ Idle, RouteDataPacket
  PROVE  IInv'
<1> DEFINE s  == job.sw
           it == Head(job.todo)
           p  == it.pkt
           k  == vidDist(s, p.fwd)
<1>1. /\ s \in Switches /\ s \in VIDs /\ it \in SoundItems(s)
      /\ rTable[s] \in Seq(SoundEntries(s))
  BY JobAtHand DEF IInv, TablesOK
<1>2. p \in Packet /\ p.op = "DATA" /\ InSubtree(p, s) /\ it.op = "forward"
  BY <1>1, ItemFields DEF RouteDataPacket, ItemSound
<1> HIDE DEF s, it, p
<1>3. UNCHANGED <<proc, crashed, parked, timer, rTable, rdvtable>>
  BY DEF RouteDataPacket
<1>4. CASE Continue(Tail(job.todo)) /\ UNCHANGED <<net, refused>>
  BY <1>3, <1>4, DropItem
<1>5. CASE \E e \in entryLookup(rTable[s], s, k) : SendOr(p, e.nexthop, Unlocked(Resend(e.nexthop, Forward(p))))
  <2>1. PICK e \in entryLookup(rTable[s], s, k) : SendOr(p, e.nexthop, Unlocked(Resend(e.nexthop, Forward(p))))
    BY <1>5
  <2>2. e \in SoundEntries(s) /\ e.bucket = k
    BY <1>1, LookupSound
  <2>3. /\ e.nexthop \in Nbrs(s) /\ e.nexthop \in Switches /\ e.nexthop \in VIDs
        /\ vidDist(s, e.nexthop) <= k
    BY <1>1, <2>2, EntryHop
  <2>4. InSubtree(p, e.nexthop)
    BY <1>1, <1>2, <2>3, DataMoves
  <2>5. [p EXCEPT !.to = e.nexthop] \in SoundPackets
    BY <1>2, <2>3, <2>4, Sent DEF Genuine
  <2>6. Unlocked(Resend(e.nexthop, Forward(p))) \in Seq(LossItems(s))
    <3>1. Forward(p) \in QuietItems(s)
      BY <1>1, <1>2, DataItems DEF QuietItems, LossItems, Forward, Item
    <3> QED BY <1>1, <2>3, <3>1, ResendSound DEF s
  <2> QED BY <1>1, <1>3, <2>1, <2>3, <2>5, <2>6, SendOrSafe DEF s
<1> QED BY <1>4, <1>5 DEF RouteDataPacket, s, p, it

LEMMA ChooseGatewaySafe ==
  ASSUME IInv, ~ Idle, ChooseGateway
  PROVE  IInv'
<1> DEFINE s  == job.sw
           it == Head(job.todo)
           p  == it.pkt
           k  == vidDist(s, p.dst)
           Directed(e) == [p EXCEPT !.fwd = IF e.gateway = s THEN p.dst ELSE e.gateway]
<1>1. /\ s \in Switches /\ s \in VIDs /\ it \in SoundItems(s)
      /\ rTable[s] \in Seq(SoundEntries(s))
  BY JobAtHand DEF IInv, TablesOK
<1>2. /\ p \in Packet /\ p.op = "DATA" /\ InSubtree(p, s) /\ it.op = "source"
      /\ p.dst \in VIDs /\ p.src \in VIDs
  BY <1>1, ItemFields, PacketFields DEF ChooseGateway, ItemSound
<1> HIDE DEF s, it, p
<1>3. UNCHANGED <<proc, crashed, parked, timer, rTable, rdvtable>>
  BY DEF ChooseGateway
<1>4. CASE Continue(Tail(job.todo)) /\ UNCHANGED <<net, refused>>
  BY <1>3, <1>4, DropItem
<1>5. CASE \E e \in entryLookup(rTable[s], s, k) : SendOr(Directed(e), e.nexthop, Unlocked(Resend(e.nexthop, Source(p))))
  <2>1. PICK e \in entryLookup(rTable[s], s, k) : SendOr(Directed(e), e.nexthop, Unlocked(Resend(e.nexthop, Source(p))))
    BY <1>5
  <2>2. e \in SoundEntries(s) /\ e.bucket = k
    BY <1>1, LookupSound
  <2>3. /\ e.nexthop \in Nbrs(s) /\ e.nexthop \in Switches /\ e.nexthop \in VIDs
        /\ e.gateway \in VIDs /\ vidDist(s, e.nexthop) <= k
        /\ e.gateway # s => vidDist(s, e.gateway) < k /\ vidDist(s, e.nexthop) < k
    BY <1>1, <2>2, EntryHop
  <2> DEFINE q == Directed(e)
  <2>4. /\ q \in Packet /\ q.op = "DATA" /\ q.src = p.src /\ q.dst = p.dst
        /\ q.fwd = IF e.gateway = s THEN p.dst ELSE e.gateway
    BY <1>2, <2>3 DEF Packet
  <2> HIDE DEF q
  <2>5. k <= vidDist(p.src, p.dst)
    BY <1>2 DEF InSubtree
  <2>6. InSubtree(q, e.nexthop)
    <3>1. vidDist(e.nexthop, p.dst) <= vidDist(p.src, p.dst)
      <4>1. vidDist(e.nexthop, p.dst) <= vidDist(e.nexthop, s) \/ vidDist(e.nexthop, p.dst) <= k
        BY <1>1, <1>2, <2>3, Detour
      <4>2. /\ vidDist(e.nexthop, s) = vidDist(s, e.nexthop)
            /\ vidDist(e.nexthop, p.dst) \in Nat /\ vidDist(s, e.nexthop) \in Nat
            /\ k \in Nat /\ vidDist(p.src, p.dst) \in Nat
        BY <1>1, <1>2, <2>3, Dist
      <4> HIDE DEF k
      <4> QED BY <2>3, <2>5, <4>1, <4>2
    <3>2. e.gateway # s => vidDist(e.nexthop, e.gateway) < vidDist(p.src, p.dst)
      <4>1. \/ vidDist(e.nexthop, e.gateway) <= vidDist(e.nexthop, s)
            \/ vidDist(e.nexthop, e.gateway) <= vidDist(s, e.gateway)
        BY <1>1, <2>3, Detour
      <4>2. /\ vidDist(e.nexthop, s) = vidDist(s, e.nexthop)
            /\ vidDist(e.nexthop, e.gateway) \in Nat /\ vidDist(s, e.nexthop) \in Nat
            /\ vidDist(s, e.gateway) \in Nat /\ k \in Nat /\ vidDist(p.src, p.dst) \in Nat
        BY <1>1, <1>2, <2>3, Dist
      <4> HIDE DEF k
      <4> QED BY <2>3, <2>5, <4>1, <4>2
    <3> QED BY <2>4, <3>1, <3>2 DEF InSubtree
  <2>7. [q EXCEPT !.to = e.nexthop] \in SoundPackets
    BY <2>3, <2>4, <2>6, Sent DEF Genuine
  <2>8. Unlocked(Resend(e.nexthop, Source(p))) \in Seq(LossItems(s))
    <3>1. Source(p) \in QuietItems(s)
      BY <1>1, <1>2, DataItems DEF QuietItems, LossItems, Source, Item
    <3> QED BY <1>1, <2>3, <3>1, ResendSound DEF s
  <2>9. SendOr(q, e.nexthop, Unlocked(Resend(e.nexthop, Source(p))))
    BY <2>1 DEF q
  <2> QED BY <1>1, <1>3, <2>3, <2>7, <2>8, <2>9, SendOrSafe DEF s
<1> QED BY <1>4, <1>5 DEF ChooseGateway, s, p, it

\* Other steps change one table of the switch and go on.
LEMMA TableStep ==
  ASSUME IInv, ~ Idle, NEW s \in Switches, s = job.sw,
         NEW t \in Seq(SoundEntries(s)), rTable' = [rTable EXCEPT ![s] = t],
         timer[s].pc = "publish" => Len(t) >= Len(rTable[s]) \/ s \in refused,
         NEW todo \in Seq(SafeItems(s, job.thread)), Continue(todo),
         UNCHANGED <<proc, crashed, refused, parked, timer, rdvtable, net>>
  PROVE  IInv'
<1>1. TablesOK' /\ EdgesOK'
  BY SetTable DEF IInv, EdgesOK
<1>2. ASSUME NEW u \in Switches, timer[u].pc = "publish"
      PROVE  Len(rTable'[u]) >= Len(rTable[u]) \/ u \in refused
  <2>1. rTable[u] \in Seq(Entries) /\ DOMAIN rTable = Switches
    BY DEF IInv, TablesOK
  <2>2. Len(rTable[u]) \in Nat
    BY <2>1, LenProperties
  <2>3. CASE u = s
    BY <1>2, <2>1, <2>3
  <2>4. CASE u # s
    <3>1. rTable'[u] = rTable[u]
      BY <2>1, <2>4
    <3> QED BY <2>2, <3>1
  <2> QED BY <2>3, <2>4
<1>3. PICK th : th = job.thread
  OBVIOUS
<1>4. /\ ProcsOK' /\ ParkedOK' /\ timer' \in [Switches -> Timers]
      /\ WalksInside' /\ FailureNeedsRefusal'
      /\ SafeItems(s, th) \subseteq SafeItems(s, th)'
  BY <1>1, <1>2, Unmoved DEF IInv, ProcsOK
<1>5. todo \in Seq(SafeItems(s, th)')
  BY <1>3, <1>4, SeqMonotonic
<1>6. JobOK'
  BY <1>3, <1>5, ContinueOK DEF IInv
<1> QED BY <1>1, <1>4, <1>6 DEF IInv

LEMMA EdgesStep ==
  ASSUME IInv, ~ Idle, NEW s \in Switches, s = job.sw,
         NEW r \in Seq(SoundEdges(s)), rdvtable' = [rdvtable EXCEPT ![s] = r],
         NEW todo \in Seq(SafeItems(s, job.thread)), Continue(todo),
         UNCHANGED <<proc, crashed, refused, parked, timer, rTable, net>>
  PROVE  IInv'
<1>1. EdgesOK' /\ TablesOK'
  BY SetEdges DEF IInv, TablesOK
<1>2. PICK th : th = job.thread
  OBVIOUS
<1>3. SafeItems(s, th)' = SafeItems(s, th)
  BY DEF SafeItems
<1>4. JobOK'
  BY <1>2, <1>3, ContinueOK DEF IInv
<1>5. ParkedOK'
  BY ParkedKept DEF IInv
<1> QED BY <1>1, <1>4, <1>5 DEF IInv, ProcsOK, WalksInside, FailureNeedsRefusal

\* A timer may stop where a neighbour refused a connection, whatever is left of
\* the table it walked.
LEMMA TimerStops ==
  ASSUME IInv, NEW u \in Switches, u \in refused,
         timer' = timer \/ timer' = [timer EXCEPT ![u] = Stopped],
         NEW t, rTable' = [rTable EXCEPT ![u] = t] \/ rTable' = rTable,
         UNCHANGED <<proc, crashed, refused, parked>>,
         TablesOK', EdgesOK', JobOK', net' \subseteq SoundPackets
  PROVE  IInv'
<1>1. timer \in [Switches -> Timers] /\ DOMAIN rTable = Switches
  BY DEF IInv, TablesOK
<1>2. Stopped \in Timers
  BY WidthAssumption DEF Stopped, Timers, BitPos
<1>3. timer' \in [Switches -> Timers]
  BY <1>1, <1>2
<1>4. \A v \in Switches : v # u => timer'[v] = timer[v] /\ rTable'[v] = rTable[v]
  BY <1>1
<1>5. WalksInside'
  <2> SUFFICES ASSUME NEW v \in Switches, timer'[v].pc = "publish", v \notin refused
               PROVE  timer'[v].end <= Len(rTable'[v])
    BY DEF WalksInside
  <2> QED BY <1>4 DEF IInv, WalksInside
<1>6. FailureNeedsRefusal'
  <2> SUFFICES ASSUME NEW v \in Switches, v \notin crashed, timer'[v].pc = "dead"
               PROVE  v \in refused
    BY DEF FailureNeedsRefusal
  <2> QED BY <1>4 DEF IInv, FailureNeedsRefusal
<1>7. ParkedOK' /\ ProcsOK'
  BY ParkedKept DEF IInv, ProcsOK
<1> QED BY <1>3, <1>5, <1>6, <1>7 DEF IInv

LEMMA DeleteEntrySafe ==
  ASSUME IInv, ~ Idle, DeleteEntry
  PROVE  IInv'
<1> DEFINE s  == job.sw
           it == Head(job.todo)
           v  == it.vid
           t  == delEntry(rTable[s], v)
<1>1. /\ s \in Switches /\ s \in VIDs /\ it \in SafeItems(s, job.thread)
      /\ Tail(job.todo) \in Seq(SafeItems(s, job.thread)) /\ rTable[s] \in Seq(SoundEntries(s))
  BY JobAtHand DEF IInv, TablesOK
<1>2. s \in refused
  BY <1>1 DEF DeleteEntry, SafeItems
<1>3. t \in Seq(SoundEntries(s)) /\ rTable' = [rTable EXCEPT ![s] = t]
  BY <1>1, DelEntrySound DEF DeleteEntry
<1>4. UNCHANGED <<proc, crashed, refused, parked, rdvtable, net>>
  BY DEF DeleteEntry
<1>5. \/ Throw
      \/ Continue(Tail(job.todo)) /\ UNCHANGED timer
  BY DEF DeleteEntry
<1> HIDE DEF it, v, t
<1>6. CASE Continue(Tail(job.todo)) /\ UNCHANGED timer
  BY <1>1, <1>2, <1>3, <1>4, <1>6, TableStep
<1>7. CASE Throw
  <2>1. JobOK' /\ TablesOK' /\ EdgesOK'
    BY <1>1, <1>3, <1>4, <1>7, NoJobOK, SetTable DEF Throw, IInv, EdgesOK
  <2>2. PICK u \in Switches : u = s
    BY <1>1
  <2>3. timer' = timer \/ timer' = [timer EXCEPT ![u] = Stopped]
    BY <1>7, <2>2 DEF Throw
  <2>4. u \in refused /\ rTable' = [rTable EXCEPT ![u] = t]
    BY <1>2, <1>3, <2>2
  <2> HIDE DEF s
  <2>5. net' \subseteq SoundPackets
    BY <1>4 DEF IInv
  <2> QED BY <1>4, <2>1, <2>3, <2>4, <2>5, TimerStops
<1> QED BY <1>5, <1>6, <1>7

LEMMA AddNeighborSafe ==
  ASSUME IInv, ~ Idle, AddNeighbor
  PROVE  IInv'
<1> DEFINE s  == job.sw
           it == Head(job.todo)
           v  == it.vid
           e  == Entry(vidDist(s, v), v, s)
           t  == addEntry(rTable[s], e)
<1>1. /\ s \in Switches /\ s \in VIDs /\ it \in SoundItems(s)
      /\ Tail(job.todo) \in Seq(SafeItems(s, job.thread)) /\ rTable[s] \in Seq(SoundEntries(s))
  BY JobAtHand DEF IInv, TablesOK
<1>2. v \in Nbrs(s) /\ v \in Switches /\ v \in VIDs /\ v # s
  BY <1>1, ItemFields, NbrsSwitches, JavaAssumption DEF AddNeighbor, ItemSound
<1>3. e \in SoundEntries(s)
  <2>1. vidDist(s, v) \in BitPos /\ vidDist(s, s) = 0 /\ 0 < vidDist(s, v)
    BY <1>1, <1>2, Dist DEF BitPos
  <2> QED BY <1>1, <1>2, <2>1 DEF Entry, SoundEntries, Entries, EntrySound, Reaches
<1>4. t \in Seq(SoundEntries(s)) /\ Len(t) >= Len(rTable[s])
  BY <1>1, <1>3, AddEntrySound
<1>5. /\ rTable' = [rTable EXCEPT ![s] = t] /\ Continue(Tail(job.todo))
      /\ UNCHANGED <<proc, crashed, refused, parked, timer, rdvtable, net>>
  BY DEF AddNeighbor
<1> HIDE DEF it, v, e, t
<1> QED BY <1>1, <1>4, <1>5, TableStep

\* Only a handler that was refused takes entries out without the lock.
LEMMA OverrunSeen ==
  ASSUME ParkedOK, NEW s, NEW k, Overrun(s, k)
  PROVE  s \in refused
<1>1. PICK j \in parked : j.sw = s /\ Head(j.todo).op = "delete"
  BY DEF Overrun
<1>2. j.todo # <<>> /\ j.todo \in Seq(SafeItems(s, "handler"))
  BY <1>1 DEF ParkedOK
<1>3. Head(j.todo) \in SafeItems(s, "handler")
  BY <1>2, HeadTailProperties
<1> QED BY <1>1, <1>3 DEF SafeItems

LEMMA LearnGatewaySafe ==
  ASSUME IInv, ~ Idle, LearnGateway
  PROVE  IInv'
<1> DEFINE s    == job.sw
           it   == Head(job.todo)
           p    == it.pkt
           g    == FirstGateway(p.gws)
           rest == p.gws \ {g}
           next == IF rest = {} THEN <<>> ELSE <<Learn([p EXCEPT !.gws = rest])>>
           todo == next \o Tail(job.todo)
<1>1. /\ s \in Switches /\ s \in VIDs /\ it \in SoundItems(s)
      /\ Tail(job.todo) \in Seq(SafeItems(s, job.thread)) /\ rTable[s] \in Seq(SoundEntries(s))
  BY JobAtHand DEF IInv, TablesOK
<1>2. /\ p \in Packet /\ p.gws \in SUBSET (Nat \X Switches) /\ p.gws # {}
      /\ \A h \in p.gws : Reaches(h[2], s, p.k)
  BY <1>1, ItemFields, PacketFields DEF LearnGateway, ItemSound
<1>3. /\ UNCHANGED <<proc, crashed, refused, parked, rdvtable, net>>
      /\ \/ Continue(Tail(job.todo)) /\ UNCHANGED <<rTable, timer>>
         \/ Overrun(s, vidDist(s, g[2])) /\ Throw /\ UNCHANGED rTable
         \/ \E nh \in HopsTo(s, g[2], p.k) :
              /\ UNCHANGED timer
              /\ rTable' = [rTable EXCEPT ![s] = addEntry(rTable[s], Entry(p.k, nh, g[2]))]
              /\ Continue(todo)
  BY DEF LearnGateway
<1> HIDE DEF it, p
<1>4. g \in p.gws /\ g[2] \in Switches /\ Reaches(g[2], s, p.k)
  BY <1>2, FirstGatewayExists
<1>5. todo \in Seq(SafeItems(s, job.thread))
  <2> DEFINE q == [p EXCEPT !.gws = rest]
  <2>1. q \in Packet /\ q.gws = rest /\ q.k = p.k
    BY <1>2 DEF Packet
  <2>2. ASSUME rest # {} PROVE Learn(q) \in SafeItems(s, job.thread)
    <3>1. \A h \in q.gws : Reaches(h[2], s, q.k)
      BY <1>2, <2>1
    <3> HIDE DEF q
    <3> QED BY <1>1, <2>1, <2>2, <3>1, LearnItem DEF SafeItems, Learn, Item
  <2> HIDE DEF q
  <2> HIDE DEF s
  <2>3. next \in Seq(SafeItems(s, job.thread))
    <3>1. CASE rest = {}
      BY <3>1, EmptySeq
    <3>2. CASE rest # {}
      <4>1. next = <<Learn(q)>>
        BY <3>2 DEF q
      <4> HIDE DEF next
      <4> QED BY <2>2, <3>2, <4>1
    <3> QED BY <3>1, <3>2
  <2> HIDE DEF next
  <2> QED BY <1>1, <2>3, ConcatProperties
<1> HIDE DEF g, todo
<1>6. CASE Continue(Tail(job.todo)) /\ UNCHANGED <<rTable, timer>>
  BY <1>3, <1>6, DropItem
<1>7. ASSUME NEW nh \in HopsTo(s, g[2], p.k), UNCHANGED timer,
             rTable' = [rTable EXCEPT ![s] = addEntry(rTable[s], Entry(p.k, nh, g[2]))],
             Continue(todo)
      PROVE  IInv'
  <2>1. Entry(p.k, nh, g[2]) \in SoundEntries(s)
    BY <1>1, <1>4, HopsToSound
  <2> DEFINE t == addEntry(rTable[s], Entry(p.k, nh, g[2]))
  <2>2. t \in Seq(SoundEntries(s)) /\ Len(t) >= Len(rTable[s])
    BY <1>1, <2>1, AddEntrySound
  <2>3. rTable' = [rTable EXCEPT ![s] = t]
    BY <1>7
  <2> HIDE DEF t
  <2> QED BY <1>1, <1>3, <1>5, <1>7, <2>2, <2>3, TableStep
<1>8. CASE Overrun(s, vidDist(s, g[2])) /\ Throw /\ UNCHANGED rTable
  <2>1. PICK u \in Switches : u = s
    BY <1>1
  <2>2. u \in refused
    BY <1>8, <2>1, OverrunSeen DEF IInv
  <2>3. JobOK' /\ TablesOK' /\ EdgesOK' /\ net' \subseteq SoundPackets
    BY <1>3, <1>8, NoJobOK DEF Throw, IInv, TablesOK, EdgesOK
  <2>4. timer' = timer \/ timer' = [timer EXCEPT ![u] = Stopped]
    BY <1>8, <2>1 DEF Throw
  <2> HIDE DEF s
  <2> QED BY <1>3, <1>8, <2>2, <2>3, <2>4, TimerStops
<1> QED BY <1>3, <1>6, <1>7, <1>8

LEMMA ProcessPacketSafe ==
  ASSUME IInv, ~ Idle, ProcessPacket
  PROVE  IInv'
<1> DEFINE s   == job.sw
           it  == Head(job.todo)
           p   == it.pkt
           r   == rdvtable[s]
           gws == findEntry(r, s, p.k)
           next == IF gws = {} THEN <<>> ELSE <<Learn([p EXCEPT !.gws = gws])>>
<1>1. /\ s \in Switches /\ s \in VIDs /\ it \in SoundItems(s)
      /\ Tail(job.todo) \in Seq(SafeItems(s, job.thread)) /\ r \in Seq(SoundEdges(s))
  BY JobAtHand DEF IInv, EdgesOK
<1>2. p \in Packet /\ Genuine(p) /\ p.src = s /\ p.dst = s
  BY <1>1, ItemFields DEF ProcessPacket, ItemSound
<1>3. UNCHANGED <<proc, crashed, refused, parked, timer, rTable, net>>
  BY DEF ProcessPacket
<1>4. CASE /\ p.op = "PUBLISH"
           /\ rdvtable' = [rdvtable EXCEPT ![s] = addEdge(r, p.src, p.vid)]
           /\ Continue(Tail(job.todo))
  <2> HIDE DEF it, p, r
  <2>1. addEdge(r, p.src, p.vid) \in Seq(SoundEdges(s))
    BY <1>1, <1>2, <1>4, AddEdgeSound DEF Genuine, Level
  <2> QED BY <1>1, <1>3, <1>4, <2>1, EdgesStep
<1>5. CASE /\ p.op = "UPDATE"
           /\ rdvtable' = [rdvtable EXCEPT ![s] = delEdge(r, p.src, p.vid)]
           /\ Continue(Tail(job.todo))
  <2> HIDE DEF it, p, r
  <2>1. delEdge(r, p.src, p.vid) \in Seq(SoundEdges(s))
    BY <1>1, DelEdgeSound
  <2> QED BY <1>1, <1>3, <1>5, <2>1, EdgesStep
<1>6. CASE Continue(next \o Tail(job.todo)) /\ UNCHANGED rdvtable
  <2>1. /\ gws \in SUBSET (Nat \X Switches)
        /\ \A g \in gws : Reaches(g[2], s, p.k)
    BY <1>1, FoundSound
  <2> DEFINE q == [p EXCEPT !.gws = gws]
  <2> HIDE DEF it, p, gws
  <2>2. q \in Packet /\ q.gws = gws /\ q.k = p.k
    BY <1>2, <2>1 DEF Packet
  <2> HIDE DEF q
  <2>3. ASSUME gws # {} PROVE Learn(q) \in SafeItems(s, job.thread)
    BY <1>1, <2>1, <2>2, <2>3, LearnItem DEF SafeItems, Learn, Item
  <2>4. next \in Seq(SafeItems(s, job.thread))
    <3>1. CASE gws = {}
      BY <3>1, EmptySeq
    <3>2. CASE gws # {}
      <4>1. next = <<Learn(q)>>
        BY <3>2 DEF q
      <4> HIDE DEF next
      <4> QED BY <2>3, <3>2, <4>1
    <3> QED BY <3>1, <3>2
  <2> DEFINE todo == next \o Tail(job.todo)
  <2>5. todo \in Seq(SafeItems(s, job.thread)) /\ Continue(todo)
    BY <1>1, <1>6, <2>4, ConcatProperties
  <2>6. rdvtable' = [rdvtable EXCEPT ![s] = r]
    BY <1>1, <1>6 DEF IInv, EdgesOK
  <2> HIDE DEF todo, r
  <2> QED BY <1>1, <1>3, <2>5, <2>6, EdgesStep
<1> QED BY <1>4, <1>5, <1>6 DEF ProcessPacket

LEMMA ExpireEntrySafe ==
  ASSUME IInv, ~ Idle, ExpireEntry
  PROVE  IInv'
<1> DEFINE s  == job.sw
           it == Head(job.todo)
           n  == it.pos
           t  == rTable[s]
<1>1. /\ s \in Switches /\ s \in VIDs /\ it \in SafeItems(s, job.thread) /\ it \in SoundItems(s)
      /\ Tail(job.todo) \in Seq(SafeItems(s, job.thread)) /\ t \in Seq(SoundEntries(s))
  BY JobAtHand DEF IInv, TablesOK
<1>2. /\ it.op = "expire" /\ job.thread = "timer" /\ timer[s].pc # "publish"
      /\ n \in Nat /\ n >= 1
  BY <1>1, ItemFields DEF ExpireEntry, SafeItems, ItemSound
<1>3. UNCHANGED <<proc, crashed, refused, parked, timer, rdvtable, net>>
  BY DEF ExpireEntry
<1>4. CASE Continue(Tail(job.todo)) /\ UNCHANGED rTable
  BY <1>3, <1>4, DropItem
<1>5. ASSUME NEW m \in Nat, m >= 1
      PROVE  <<Expire(m)>> \o Tail(job.todo) \in Seq(SafeItems(s, job.thread))
  <2>1. Expire(m) \in SafeItems(s, job.thread)
    BY <1>1, <1>2, <1>5, PlaceItems DEF SafeItems, Expire, Item
  <2>2. <<Expire(m)>> \in Seq(SafeItems(s, job.thread))
    BY <2>1
  <2> QED BY <1>1, <2>2, ConcatProperties
<1>6. n <= Len(t) => n \in DOMAIN t
  BY <1>1, <1>2, LenProperties
<1>7. CASE /\ n <= Len(t) /\ t[n].age < 2
           /\ rTable' = [rTable EXCEPT ![s][n].age = @ + 1]
           /\ Continue(<<Expire(n + 1)>> \o Tail(job.todo))
  <2> DEFINE e == [t[n] EXCEPT !.age = t[n].age + 1]
             u == [t EXCEPT ![n] = e]
  <2>1. t[n] \in SoundEntries(s)
    BY <1>1, <1>6, <1>7, LenProperties, ElementOfSeq
  <2>2. t[n].age + 1 \in 0 .. 2
    <3>1. t[n].age \in 0 .. 2
      BY <2>1 DEF SoundEntries, Entries
    <3> QED BY <1>7, <3>1
  <2>3. rTable' = [rTable EXCEPT ![s] = u]
    BY <1>7
  <2>4. e \in SoundEntries(s)
    <3> DEFINE f == t[n]
    <3> HIDE DEF f
    <3>1. f \in SoundEntries(s) /\ f.age + 1 \in 0 .. 2
      BY <2>1, <2>2 DEF f
    <3>2. [f EXCEPT !.age = f.age + 1] \in SoundEntries(s)
      BY <3>1, AgedEntry
    <3> QED BY <3>2 DEF f
  <2> HIDE DEF e
  <2>5. u \in Seq(SoundEntries(s))
    BY <1>1, <1>6, <1>7, <2>4, ReplaceSeq
  <2>6. <<Expire(n + 1)>> \o Tail(job.todo) \in Seq(SafeItems(s, job.thread))
    BY <1>2, <1>5
  <2> HIDE DEF u, n, it, t
  <2> QED BY <1>1, <1>2, <1>3, <1>7, <2>3, <2>5, <2>6, TableStep
<1>8. CASE /\ n <= Len(t)
           /\ rTable' = [rTable EXCEPT ![s] = RemoveAt(t, n)]
           /\ Continue(<<Expire(n)>> \o Tail(job.todo))
  <2>1. RemoveAt(t, n) \in Seq(SoundEntries(s))
    BY <1>1, <1>6, <1>8, RemoveAtSeq
  <2>2. <<Expire(n)>> \o Tail(job.todo) \in Seq(SafeItems(s, job.thread))
    BY <1>2, <1>5
  <2> HIDE DEF n, it, t
  <2> QED BY <1>1, <1>2, <1>3, <1>8, <2>1, <2>2, TableStep
<1> QED BY <1>4, <1>7, <1>8 DEF ExpireEntry

LEMMA PurgeEdgeSafe ==
  ASSUME IInv, ~ Idle, PurgeEdge
  PROVE  IInv'
<1> DEFINE s  == job.sw
           it == Head(job.todo)
           n  == it.pos
           r  == rdvtable[s]
<1>1. /\ s \in Switches /\ s \in VIDs /\ it \in SafeItems(s, job.thread) /\ it \in SoundItems(s)
      /\ Tail(job.todo) \in Seq(SafeItems(s, job.thread)) /\ r \in Seq(SoundEdges(s))
  BY JobAtHand DEF IInv, EdgesOK
<1>2. it.op = "purge" /\ job.thread = "timer" /\ n \in Nat /\ n >= 1
  BY <1>1, ItemFields DEF PurgeEdge, SafeItems, ItemSound
<1>3. UNCHANGED <<proc, crashed, refused, parked, timer, rTable, net>>
  BY DEF PurgeEdge
<1>4. CASE Continue(Tail(job.todo)) /\ UNCHANGED rdvtable
  BY <1>3, <1>4, DropItem
<1>5. ASSUME NEW m \in Nat, m >= 1
      PROVE  <<Purge(m)>> \o Tail(job.todo) \in Seq(SafeItems(s, job.thread))
  <2>1. Purge(m) \in SafeItems(s, job.thread)
    BY <1>1, <1>2, <1>5, PlaceItems DEF SafeItems, Purge, Item
  <2>2. <<Purge(m)>> \in Seq(SafeItems(s, job.thread))
    BY <2>1
  <2> QED BY <1>1, <2>2, ConcatProperties
<1>6. n <= Len(r) => n \in DOMAIN r
  BY <1>1, <1>2, LenProperties
<1>7. CASE /\ n <= Len(r)
           /\ rdvtable' = [rdvtable EXCEPT ![s][n].fresh = FALSE]
           /\ Continue(<<Purge(n + 1)>> \o Tail(job.todo))
  <2> DEFINE e == [r[n] EXCEPT !.fresh = FALSE]
             u == [r EXCEPT ![n] = e]
  <2>1. e \in SoundEdges(s)
    BY <1>1, <1>6, <1>7, LenProperties, ElementOfSeq, FreshEdge
  <2>2. rdvtable' = [rdvtable EXCEPT ![s] = u]
    BY <1>7
  <2> HIDE DEF e
  <2>3. u \in Seq(SoundEdges(s))
    BY <1>1, <1>6, <1>7, <2>1, ReplaceSeq
  <2>4. <<Purge(n + 1)>> \o Tail(job.todo) \in Seq(SafeItems(s, job.thread))
    BY <1>2, <1>5
  <2> HIDE DEF u, n, it, r
  <2> QED BY <1>1, <1>3, <1>7, <2>2, <2>3, <2>4, EdgesStep
<1>8. CASE /\ n <= Len(r)
           /\ rdvtable' = [rdvtable EXCEPT ![s] = RemoveAt(r, n)]
           /\ Continue(<<Purge(n)>> \o Tail(job.todo))
  <2>1. RemoveAt(r, n) \in Seq(SoundEdges(s))
    BY <1>1, <1>6, <1>8, RemoveAtSeq
  <2>2. <<Purge(n)>> \o Tail(job.todo) \in Seq(SafeItems(s, job.thread))
    BY <1>2, <1>5
  <2> HIDE DEF n, it, r
  <2> QED BY <1>1, <1>3, <1>8, <2>1, <2>2, EdgesStep
<1> QED BY <1>4, <1>7, <1>8 DEF PurgeEdge

\* A handler that parks takes its calls with it, and finds them again.
LEMMA ParkSafe ==
  ASSUME IInv, ~ Idle, Park
  PROVE  IInv'
<1>1. /\ job.thread = "handler" /\ parked' = parked \cup {job} /\ job' = NoJob
      /\ UNCHANGED <<proc, crashed, refused, timer, rTable, rdvtable, net>>
  BY DEF Park
<1>2. JobOK'
  BY <1>1, NoJobOK
<1>3. ParkedOK'
  <2>1. /\ job \in [sw : VIDs, thread : Threads, todo : Seq(Items)] /\ job.sw \in Switches
        /\ job.todo # <<>> /\ job.todo \in Seq(SafeItems(job.sw, "handler"))
    BY <1>1 DEF Idle, IInv, JobOK
  <2>2. job \in [sw : Switches, thread : {"handler"}, todo : Seq(Items)]
    BY <1>1, <2>1
  <2>3. ASSUME NEW j \in parked'
        PROVE  /\ j \in [sw : Switches, thread : {"handler"}, todo : Seq(Items)]
               /\ j.todo # <<>> /\ j.todo \in Seq(SafeItems(j.sw, "handler"))
    BY <1>1, <2>1, <2>2 DEF IInv, ParkedOK
  <2>4. ASSUME NEW j \in parked'
        PROVE  j.todo \in Seq(SafeItems(j.sw, "handler")')
    BY <1>1, <2>3, SafeLater, SeqMonotonic
  <2> QED BY <2>3, <2>4 DEF ParkedOK
<1> QED BY <1>1, <1>2, <1>3 DEF IInv, ProcsOK, TablesOK, EdgesOK, WalksInside, FailureNeedsRefusal

LEMMA ResumeSafe ==
  ASSUME IInv, Resume
  PROVE  IInv'
<1>1. /\ UNCHANGED <<proc, crashed, refused, timer, rTable, rdvtable, net>>
      /\ parked' \subseteq parked
  BY DEF Resume
<1>2. ParkedOK'
  BY <1>1, ParkedKept DEF IInv
<1>3. JobOK'
  <2>1. PICK j \in parked : job' = [j EXCEPT !.todo[1].pos = 0]
    BY DEF Resume
  <2>2. /\ j \in [sw : Switches, thread : {"handler"}, todo : Seq(Items)] /\ j.todo # <<>>
        /\ j.todo \in Seq(SafeItems(j.sw, "handler"))
    BY DEF IInv, ParkedOK
  <2> DEFINE s    == j.sw
             S    == SafeItems(s, "handler")
             it   == [j.todo[1] EXCEPT !.pos = 0]
             todo == [j.todo EXCEPT ![1] = it]
  <2>3. 1 \in DOMAIN j.todo /\ j.todo[1] \in S
    <3>1. Len(j.todo) \in Nat /\ Len(j.todo) # 0 /\ DOMAIN j.todo = 1 .. Len(j.todo)
      BY <2>2, EmptySeq, LenProperties
    <3> QED BY <2>2, <3>1, ElementOfSeq
  <2>4. it \in S
    <3> DEFINE f == j.todo[1]
    <3> HIDE DEF f
    <3>1. f \in S
      BY <2>3 DEF f
    <3>2. [f EXCEPT !.pos = 0] \in S
      BY <3>1 DEF SafeItems, SoundItems, Items, ItemSound
    <3> QED BY <3>2 DEF f
  <2>5. job' = [sw |-> s, thread |-> "handler", todo |-> todo]
    BY <2>1, <2>2
  <2>6. S = SafeItems(s, "handler")'
    BY <1>1 DEF SafeItems
  <2> HIDE DEF it, S
  <2>7. todo \in Seq(S)
    BY <2>2, <2>3, <2>4, ReplaceSeq DEF S
  <2>8. s \in Switches
    BY <2>2
  <2> HIDE DEF todo, s
  <2> QED BY <2>5, <2>6, <2>7, <2>8, CallOK DEF Call, Threads
<1> QED BY <1>1, <1>2, <1>3 DEF IInv, ProcsOK, TablesOK, EdgesOK, WalksInside, FailureNeedsRefusal

LEMMA JobStepSafe ==
  ASSUME IInv, JobStep
  PROVE  IInv'
BY RouteCtrlPacketSafe, RouteDataPacketSafe, ChooseGatewaySafe, DeleteEntrySafe,
   AddNeighborSafe, LearnGatewaySafe, ProcessPacketSafe, ExpireEntrySafe, PurgeEdgeSafe,
   ParkSafe DEF JobStep

-----------------------------------------------------------------------------
(* The timer thread.                                                       *)

LEMMA IdleJobOK ==
  ASSUME IInv, Idle, job' = job
  PROVE  JobOK'
<1>1. <<>> \in Seq(SafeItems(job.sw, job.thread)')
  BY EmptySeq
<1> QED BY <1>1 DEF IInv, JobOK, Idle, SafeItems

\* A step of the timer of s that does not stop it.
LEMMA TimerMoves ==
  ASSUME IInv, Idle, NEW s \in Switches, NEW T \in Timers,
         timer' = [timer EXCEPT ![s] = T], T.pc # "dead",
         T.pc = "publish" => T.end <= Len(rTable[s]) \/ s \in refused,
         UNCHANGED <<proc, crashed, refused, parked, rTable, rdvtable, net>>,
         JobOK'
  PROVE  IInv'
<1>1. timer' \in [Switches -> Timers] /\ timer'[s] = T
  BY DEF IInv
<1>2. \A v \in Switches : v # s => timer'[v] = timer[v]
  BY DEF IInv
<1>3. WalksInside'
  BY <1>1, <1>2 DEF IInv, WalksInside
<1>4. FailureNeedsRefusal'
  BY <1>1, <1>2 DEF IInv, FailureNeedsRefusal
<1>5. ParkedOK'
  BY ParkedKept DEF IInv
<1> QED BY <1>1, <1>3, <1>4, <1>5 DEF IInv, ProcsOK, TablesOK, EdgesOK

LEMMA QuietCall ==
  ASSUME NEW s \in Switches, NEW thread \in Threads,
         NEW todo \in Seq(QuietItems(s)), Call(s, thread, todo)
  PROVE  JobOK'
<1>1. todo \in Seq(SafeItems(s, thread)')
  BY QuietSafe, SeqMonotonic
<1> QED BY <1>1, CallOK

LEMMA RTbuilderSafe ==
  ASSUME IInv, Idle, NEW s \in Switches, RTbuilder(s)
  PROVE  IInv'
<1> DEFINE T == [timer[s] EXCEPT !.pc = "bucket", !.bucket = 1]
           todo == [i \in DOMAIN Adjacent[s] |-> Neighbor(Adjacent[s][i])]
<1>1. T \in Timers /\ T.pc = "bucket"
  <2>1. timer[s] \in Timers /\ 1 \in BitPos
    BY WidthAssumption DEF IInv, BitPos
  <2> QED BY <2>1 DEF Timers
<1>2. timer' = [timer EXCEPT ![s] = T] /\ Call(s, "timer", todo)
  BY DEF RTbuilder, IInv
<1>3. todo \in Seq(QuietItems(s))
  <2>1. Adjacent[s] \in Seq(Switches)
    BY JavaAssumption
  <2>2. DOMAIN Adjacent[s] = 1 .. Len(Adjacent[s]) /\ Len(Adjacent[s]) \in Nat
    BY <2>1, LenProperties
  <2>3. ASSUME NEW i \in DOMAIN Adjacent[s]
        PROVE  Neighbor(Adjacent[s][i]) \in QuietItems(s)
    <3>1. Adjacent[s][i] \in Nbrs(s)
      BY DEF Nbrs
    <3>2. Neighbor(Adjacent[s][i]) \in SoundItems(s)
      BY <3>1, NeighborItems
    <3> QED BY <3>2 DEF QuietItems, LossItems, Neighbor, Item
  <2>4. \A i \in 1 .. Len(Adjacent[s]) : Neighbor(Adjacent[s][i]) \in QuietItems(s)
    BY <2>2, <2>3
  <2>5. todo = [i \in 1 .. Len(Adjacent[s]) |-> Neighbor(Adjacent[s][i])]
    BY <2>2
  <2> QED BY <2>2, <2>4, <2>5, SeqDef
<1> HIDE DEF T, todo
<1>4. JobOK'
  BY <1>2, <1>3, QuietCall DEF Threads
<1>5. UNCHANGED <<proc, crashed, refused, parked, rTable, rdvtable, net>>
  BY DEF RTbuilder
<1> QED BY <1>1, <1>2, <1>4, <1>5, TimerMoves

LEMMA NextBucketSafe ==
  ASSUME IInv, Idle, NEW s \in Switches, NextBucket(s)
  PROVE  IInv'
<1> DEFINE T == [timer[s] EXCEPT !.pc = "publish", !.j = 1, !.end = Len(rTable[s])]
<1>1. Len(rTable[s]) \in Nat
  <2>1. rTable[s] \in Seq(Entries)
    BY DEF IInv, TablesOK
  <2> QED BY <2>1, LenProperties
<1>2. T \in Timers /\ T.pc # "dead" /\ T.end = Len(rTable[s])
  <2>1. timer[s] \in Timers /\ 1 \in Nat \ {0}
    BY DEF IInv
  <2> QED BY <1>1, <2>1 DEF Timers
<1>3. T.end <= Len(rTable[s])
  BY <1>1, <1>2
<1>4. timer' = [timer EXCEPT ![s] = T]
  BY DEF NextBucket, IInv
<1> HIDE DEF T
<1>5. JobOK'
  BY IdleJobOK DEF NextBucket
<1> QED BY <1>2, <1>3, <1>4, <1>5, TimerMoves DEF NextBucket

\* A place past the end is only met where an entry was removed.
LEMMA PublishEntrySafe ==
  ASSUME IInv, Idle, NEW s \in Switches, PublishEntry(s)
  PROVE  IInv'
<1> DEFINE t == timer[s]
           T == [t EXCEPT !.j = t.j + 1]
           e == rTable[s][t.j]
<1>1. /\ t \in Timers /\ t.pc = "publish" /\ t.j \in Nat /\ t.end \in Nat /\ t.j <= t.end
      /\ t.end <= Len(rTable[s]) \/ s \in refused
      /\ rTable[s] \in Seq(SoundEntries(s))
  BY DEF PublishEntry, IInv, Timers, WalksInside, TablesOK
<1>2. Len(rTable[s]) \in Nat
  BY <1>1, LenProperties
<1>3. UNCHANGED <<proc, crashed, refused, parked, rTable, rdvtable, net>>
  BY DEF PublishEntry
<1>4. CASE t.j > Len(rTable[s])
  <2>1. s \in refused
    BY <1>1, <1>2, <1>4
  <2>2. timer' = [timer EXCEPT ![s] = Stopped] /\ job' = job
    BY <1>4 DEF PublishEntry
  <2>3. JobOK' /\ TablesOK' /\ EdgesOK' /\ net' \subseteq SoundPackets
    BY <1>3, <2>2, IdleJobOK DEF IInv, TablesOK, EdgesOK
  <2> QED BY <1>3, <2>1, <2>2, <2>3, TimerStops
<1>5. CASE ~ (t.j > Len(rTable[s]))
  <2>1. T \in Timers /\ T.pc = "publish" /\ T.end = t.end
    BY <1>1 DEF Timers
  <2>2. timer' = [timer EXCEPT ![s] = T]
    BY <1>5 DEF PublishEntry, IInv
  <2>3. IF e.gateway = s
          THEN Call(s, "timer", Rendezvous("PUBLISH", s, e.bucket, e.nexthop, 0))
        ELSE UNCHANGED job
    BY <1>5 DEF PublishEntry
  <2>4. JobOK'
    <3>1. CASE e.gateway = s
      <4>1. t.j >= 1
        BY <1>1 DEF Timers
      <4>2. e \in SoundEntries(s)
        BY <1>1, <1>2, <1>5, <4>1, ElementOfSeq
      <4>3. /\ e.nexthop \in Nbrs(s) /\ e.nexthop \in VIDs /\ e.bucket \in BitPos
            /\ e.bucket = vidDist(s, e.nexthop)
        BY <3>1, <4>2, EntryHop DEF SoundEntries, EntrySound
      <4> HIDE DEF e
      <4>4. Rendezvous("PUBLISH", s, e.bucket, e.nexthop, 0) \in Seq(QuietItems(s))
        BY <4>3, RendezvousSound DEF ControlOps
      <4> QED BY <2>3, <3>1, <4>4, QuietCall DEF Threads
    <3>2. CASE e.gateway # s
      BY <2>3, <3>2, IdleJobOK
    <3> QED BY <3>1, <3>2
  <2> HIDE DEF T, t
  <2> QED BY <1>1, <1>3, <2>1, <2>2, <2>4, TimerMoves
<1> QED BY <1>4, <1>5

LEMMA QueryBucketSafe ==
  ASSUME IInv, Idle, NEW s \in Switches, QueryBucket(s)
  PROVE  IInv'
<1> DEFINE k == timer[s].bucket
           T == IF k < VidBits
                  THEN [pc |-> "bucket", bucket |-> k + 1, j |-> 1, end |-> 0]
                ELSE [pc |-> "check", bucket |-> 1, j |-> 1, end |-> 0]
<1>1. k \in BitPos
  BY DEF IInv, Timers
<1>2. T \in Timers /\ T.pc \in {"bucket", "check"}
  BY <1>1, WidthAssumption DEF Timers, BitPos
<1>3. timer' = [timer EXCEPT ![s] = T] /\ Call(s, "timer", Rendezvous("QUERY", s, k, ZeroVID, k))
  BY DEF QueryBucket
<1> HIDE DEF T, k
<1>4. ZeroVID \in VIDs /\ k \in Nat
  BY <1>1 DEF ZeroVID, VIDs, BitPos
<1>5. Rendezvous("QUERY", s, k, ZeroVID, k) \in Seq(QuietItems(s))
  BY <1>1, <1>4, RendezvousSound DEF ControlOps
<1>6. JobOK'
  BY <1>3, <1>5, QuietCall DEF Threads
<1>7. UNCHANGED <<proc, crashed, refused, parked, rTable, rdvtable, net>>
  BY DEF QueryBucket
<1> QED BY <1>2, <1>3, <1>6, <1>7, TimerMoves

LEMMA EndRoundSafe ==
  ASSUME IInv, Idle, NEW s \in Switches, EndRound(s)
  PROVE  IInv'
<1> DEFINE T == [timer[s] EXCEPT !.pc = "build"]
<1>1. T \in Timers /\ T.pc = "build"
  BY DEF IInv, Timers
<1>2. timer' = [timer EXCEPT ![s] = T] /\ Call(s, "timer", <<Expire(1), Purge(1)>>)
  BY DEF EndRound, IInv
<1> HIDE DEF T
<1>3. timer'[s].pc = "build"
  BY <1>1, <1>2 DEF IInv
<1>4. Expire(1) \in SafeItems(s, "timer")' /\ Purge(1) \in SafeItems(s, "timer")'
  <2>1. Expire(1) \in SoundItems(s) /\ Purge(1) \in SoundItems(s)
    BY PlaceItems
  <2> QED BY <1>3, <2>1 DEF SafeItems, Expire, Purge, Item
<1>5. <<Expire(1), Purge(1)>> \in Seq(SafeItems(s, "timer")')
  BY <1>4
<1>6. JobOK'
  BY <1>2, <1>5, CallOK DEF Threads
<1>7. UNCHANGED <<proc, crashed, refused, parked, rTable, rdvtable, net>>
  BY DEF EndRound
<1> QED BY <1>1, <1>2, <1>6, <1>7, TimerMoves

LEMMA TimerStepSafe ==
  ASSUME IInv, NEW s \in Switches, TimerStep(s)
  PROVE  IInv'
BY RTbuilderSafe, NextBucketSafe, PublishEntrySafe, QueryBucketSafe, EndRoundSafe
   DEF TimerStep, Free

-----------------------------------------------------------------------------
(* The handlers.                                                           *)

\* Whatever arrives is sound, and so is what a handler passes on.
LEMMA Arrived ==
  ASSUME IInv, NEW s \in Switches, NEW p \in net, p.to = s, ~ Expired(p)
  PROVE  /\ p \in Packet /\ Genuine(p) /\ InSubtree(p, s)
         /\ Aged(p) \in Packet /\ Genuine(Aged(p)) /\ InSubtree(Aged(p), s)
         /\ Alike(p, Aged(p))
<1>1. p \in Packet /\ Genuine(p) /\ InSubtree(p, s)
  BY DEF IInv, SoundPackets
<1> QED BY <1>1, AgedAlike, AlikeSound DEF Alike

\* A handler leaves the tables alone, takes its packet and may send one.
LEMMA HandlerSends ==
  ASSUME IInv, Idle, net' \subseteq net \cup SoundPackets,
         UNCHANGED <<proc, crashed, refused, parked, timer, rTable, rdvtable, job>>
  PROVE  IInv'
<1>1. JobOK' /\ ParkedOK'
  BY IdleJobOK, ParkedKept DEF IInv
<1> QED BY <1>1 DEF IInv, ProcsOK, TablesOK, EdgesOK, WalksInside, FailureNeedsRefusal

LEMMA DropSafe ==
  ASSUME IInv, Idle, NEW p, Drop(p)
  PROVE  IInv'
BY HandlerSends DEF Drop

LEMMA PassOnSafe ==
  ASSUME IInv, Idle, NEW s \in Switches, NEW p, NEW item \in QuietItems(s), PassOn(s, p, item)
  PROVE  IInv'
<1>1. <<item>> \in Seq(QuietItems(s))
  OBVIOUS
<1>2. JobOK' /\ ParkedOK'
  BY <1>1, QuietCall, ParkedKept DEF PassOn, Threads, IInv
<1> QED BY <1>2 DEF PassOn, IInv, ProcsOK, TablesOK, EdgesOK, WalksInside, FailureNeedsRefusal

\* A refused connection is remembered; the tables stay as they are.
LEMMA RefuseSafe ==
  ASSUME IInv, Idle, NEW s \in Switches, NEW p, NEW nh, NEW todo \in Seq(LossItems(s)),
         Refuse(s, p, nh, todo)
  PROVE  IInv'
<1>1. /\ refused' = refused \cup {s} /\ net' \subseteq net
      /\ UNCHANGED <<proc, crashed, parked, timer, rTable, rdvtable>>
  BY DEF Refuse
<1>2. JobOK'
  <2>1. todo \in Seq(SafeItems(s, "handler")')
    BY <1>1, QuietSafe, SeqMonotonic
  <2> QED BY <2>1, IdleJobOK, CallOK DEF Refuse, Threads
<1>3. ParkedOK'
  BY <1>1, ParkedKept DEF IInv
<1> QED BY <1>1, <1>2, <1>3 DEF IInv, ProcsOK, TablesOK, EdgesOK, WalksInside, FailureNeedsRefusal

\* The handlers of a rendezvous switch change its edges.
LEMMA HandlerStores ==
  ASSUME IInv, Idle, NEW s \in Switches, NEW r \in Seq(SoundEdges(s)),
         rdvtable' = [rdvtable EXCEPT ![s] = r], net' \subseteq net,
         UNCHANGED <<proc, crashed, refused, parked, timer, rTable, job>>
  PROVE  IInv'
<1>1. JobOK' /\ EdgesOK' /\ ParkedOK'
  BY IdleJobOK, SetEdges, ParkedKept DEF IInv
<1> QED BY <1>1 DEF IInv, ProcsOK, TablesOK, WalksInside, FailureNeedsRefusal

LEMMA QuietItem ==
  ASSUME NEW s \in Switches, NEW p \in Packet
  PROVE  /\ p.op \in ControlOps /\ Genuine(p) /\ InSubtree(p, s) => Route(p) \in QuietItems(s)
         /\ p.op = "DATA" /\ InSubtree(p, s)
              => Forward(p) \in QuietItems(s) /\ Source(p) \in QuietItems(s)
         /\ p.gws # {} /\ (\A g \in p.gws : Reaches(g[2], s, p.k)) => Learn(p) \in QuietItems(s)
BY RouteItem, DataItems, LearnItem
   DEF QuietItems, LossItems, Route, Forward, Source, Learn, Item

LEMMA HandlePublishSafe ==
  ASSUME IInv, Idle, NEW s \in Switches, NEW p \in net, p.to = s, HandlePublish(s, p)
  PROVE  IInv'
<1>1. /\ p \in Packet /\ p.op = "PUBLISH" /\ Genuine(p)
      /\ Aged(p) \in Packet /\ Aged(p).op = "PUBLISH" /\ Genuine(Aged(p)) /\ InSubtree(Aged(p), s)
  BY Arrived DEF HandlePublish, Alike
<1>2. CASE p.dst # s /\ PassOn(s, p, Route(Aged(p)))
  BY <1>1, <1>2, QuietItem, PassOnSafe DEF ControlOps
<1>3. CASE /\ p.dst = s
           /\ rdvtable' = [rdvtable EXCEPT ![s] = addEdge(@, p.src, p.vid)]
           /\ net' = net \ {p} /\ UNCHANGED <<proc, crashed, refused, parked, timer, rTable, job>>
  <2>1. rdvtable[s] \in Seq(SoundEdges(s))
    BY DEF IInv, EdgesOK
  <2>2. p.src \in Switches /\ p.vid \in Nbrs(p.src) /\ IsRdv(s, p.src, vidDist(p.src, p.vid))
    BY <1>1, <1>3 DEF Genuine, Level
  <2> DEFINE r == addEdge(rdvtable[s], p.src, p.vid)
  <2>3. r \in Seq(SoundEdges(s))
    BY <2>1, <2>2, AddEdgeSound
  <2>4. rdvtable' = [rdvtable EXCEPT ![s] = r]
    BY <1>3
  <2> HIDE DEF r
  <2> QED BY <1>3, <2>3, <2>4, HandlerStores
<1> QED BY <1>2, <1>3 DEF HandlePublish

LEMMA HandleUpdateSafe ==
  ASSUME IInv, Idle, NEW s \in Switches, NEW p \in net, p.to = s, HandleUpdate(s, p)
  PROVE  IInv'
<1>1. /\ p.op = "UPDATE" /\ Aged(p) \in Packet /\ Aged(p).op = "UPDATE"
      /\ Genuine(Aged(p)) /\ InSubtree(Aged(p), s)
  BY Arrived DEF HandleUpdate, Alike
<1>2. CASE p.dst # s /\ PassOn(s, p, Route(Aged(p)))
  BY <1>1, <1>2, QuietItem, PassOnSafe DEF ControlOps
<1>3. CASE /\ rdvtable' = [rdvtable EXCEPT ![s] = delEdge(@, p.src, p.vid)]
           /\ net' = net \ {p} /\ UNCHANGED <<proc, crashed, refused, parked, timer, rTable, job>>
  <2>1. rdvtable[s] \in Seq(SoundEdges(s))
    BY DEF IInv, EdgesOK
  <2> DEFINE r == delEdge(rdvtable[s], p.src, p.vid)
  <2>2. r \in Seq(SoundEdges(s))
    BY <2>1, DelEdgeSound
  <2>3. rdvtable' = [rdvtable EXCEPT ![s] = r]
    BY <1>3
  <2> HIDE DEF r
  <2> QED BY <1>3, <2>2, <2>3, HandlerStores
<1> QED BY <1>2, <1>3 DEF HandleUpdate

\* A process ends, by a crash or at a connection that was refused; what it held
\* and what was under way to it is gone.
LEMMA StopSafe ==
  ASSUME IInv, NEW s \in Switches, NEW left, left \subseteq net, Stop(s, left), JobOK',
         \/ crashed' = crashed \cup {s} /\ refused' = refused
         \/ crashed' = crashed /\ refused' = refused \cup {s}
  PROVE  IInv'
<1>1. Stopped \in Timers
  BY WidthAssumption DEF Stopped, Timers, BitPos
<1>2. /\ proc' = [proc EXCEPT ![s] = "gone"] /\ timer' = [timer EXCEPT ![s] = Stopped]
      /\ rTable' = [rTable EXCEPT ![s] = <<>>] /\ rdvtable' = [rdvtable EXCEPT ![s] = <<>>]
      /\ net' \subseteq net /\ parked' \subseteq parked
  BY DEF Stop
<1>3. ProcsOK' /\ timer' \in [Switches -> Timers]
  BY <1>1, <1>2 DEF IInv, ProcsOK, ProcStates
<1>4. TablesOK' /\ EdgesOK'
  <2>1. <<>> \in Seq(SoundEntries(s)) /\ <<>> \in Seq(SoundEdges(s))
    BY EmptySeq
  <2> QED BY <1>2, <2>1, SetTable, SetEdges DEF IInv
<1>5. \A v \in Switches : v # s => timer'[v] = timer[v] /\ rTable'[v] = rTable[v]
  BY <1>2 DEF IInv, TablesOK
<1>6. timer'[s] = Stopped /\ refused \subseteq refused' /\ crashed \subseteq crashed'
  BY <1>2 DEF IInv
<1>7. WalksInside'
  BY <1>5, <1>6 DEF IInv, WalksInside, Stopped
<1>8. FailureNeedsRefusal'
  <2> SUFFICES ASSUME NEW v \in Switches, v \notin crashed', timer'[v].pc = "dead"
               PROVE  v \in refused'
    BY DEF FailureNeedsRefusal
  <2>1. CASE v = s
    BY <2>1
  <2>2. CASE v # s
    BY <1>5, <1>6, <2>2 DEF IInv, FailureNeedsRefusal
  <2> QED BY <2>1, <2>2
<1>9. ParkedOK'
  BY <1>2, <1>6, ParkedKept DEF IInv
<1> QED BY <1>2, <1>3, <1>4, <1>7, <1>8, <1>9 DEF IInv

\* The next hop of a reply is no farther than its destination.
LEMMA ReplyHopsNear ==
  ASSUME IInv, NEW s \in Switches, NEW d \in VIDs, NEW nh \in ReplyHops(s, d)
  PROVE  nh \in Nbrs(s) /\ nh \in Switches /\ nh \in VIDs /\ vidDist(s, nh) <= vidDist(s, d)
<1>1. rTable[s] \in Seq(SoundEntries(s)) /\ s \in VIDs
  BY JavaAssumption DEF IInv, TablesOK
<1>2. CASE InBucket(rTable[s], vidDist(s, d)) # {}
  BY <1>1, <1>2, FirstHopSound, JavaAssumption DEF ReplyHops
<1>3. CASE InBucket(rTable[s], vidDist(s, d)) = {}
  <2>1. nh = d /\ nh \in Nbrs(s)
    BY <1>3 DEF ReplyHops
  <2> QED BY <1>1, <2>1, NbrsSwitches, Dist
<1> QED BY <1>2, <1>3

LEMMA SendReplySafe ==
  ASSUME IInv, Idle, NEW s \in Switches, NEW p \in net,
         NEW reply \in Packet, reply.op = "REPLY", Genuine(reply), InSubtree(reply, s),
         SendReply(s, p, reply)
  PROVE  IInv'
<1>1. s \in VIDs /\ reply.dst \in VIDs
  BY JavaAssumption, PacketFields
<1>2. ASSUME NEW nh \in ReplyHops(s, reply.dst),
             net' = (net \ {p}) \cup {[reply EXCEPT !.to = nh]},
             UNCHANGED <<proc, crashed, refused, parked, timer, rTable, rdvtable, job>>
      PROVE  IInv'
  <2>1. nh \in Switches /\ nh \in VIDs /\ vidDist(s, nh) <= vidDist(s, reply.dst)
    BY <1>1, ReplyHopsNear
  <2>2. InSubtree(reply, nh)
    BY <1>1, <2>1, ControlMoves
  <2>3. [reply EXCEPT !.to = nh] \in SoundPackets
    BY <2>1, <2>2, Sent
  <2> QED BY <1>2, <2>3, HandlerSends
<1>3. ASSUME Stop(s, net \ {p}), refused' = refused \cup {s}, UNCHANGED <<crashed, job>>
      PROVE  IInv'
  BY <1>3, StopSafe, IdleJobOK
<1> QED BY <1>2, <1>3, DropSafe DEF SendReply

LEMMA HandleQuerySafe ==
  ASSUME IInv, Idle, NEW s \in Switches, NEW p \in net, p.to = s, HandleQuery(s, p)
  PROVE  IInv'
<1>1. /\ p \in Packet /\ p.op = "QUERY" /\ Genuine(p) /\ InSubtree(p, s)
      /\ Aged(p) \in Packet /\ Aged(p).op = "QUERY" /\ Genuine(Aged(p)) /\ InSubtree(Aged(p), s)
  BY Arrived DEF HandleQuery, Alike
<1>2. CASE PassOn(s, p, Route(Aged(p)))
  BY <1>1, <1>2, QuietItem, PassOnSafe DEF ControlOps
<1>3. CASE Drop(p)
  BY <1>3, DropSafe
<1> DEFINE reply == [NoPacket EXCEPT !.op = "REPLY", !.src = s, !.dst = p.src,
                                     !.k = p.k, !.gws = Found(s, p)]
<1>4. CASE p.dst = s /\ Found(s, p) # {} /\ SendReply(s, p, reply)
  <2>1. p.src \in VIDs /\ s \in VIDs /\ p.k \in Nat
    BY <1>1, PacketFields, JavaAssumption
  <2>2. /\ Readable(p.k) /\ Found(s, p) \in SUBSET (Nat \X Switches)
        /\ \A g \in Found(s, p) : Reaches(g[2], p.src, LevelRead(p.k))
    <3>1. rdvtable[s] \in Seq(SoundEdges(s))
      BY DEF IInv, EdgesOK
    <3> QED BY <1>4, <2>1, <3>1, FoundSound DEF Found
  <2>3. /\ reply \in Packet /\ reply.op = "REPLY" /\ reply.src = s /\ reply.dst = p.src
        /\ reply.k = p.k /\ reply.gws = Found(s, p)
    BY <2>1, <2>2, NoPacketFields DEF Packet
  <2> HIDE DEF reply
  <2>4. Genuine(reply)
    <3>1. p.src \in Switches
      BY <1>1 DEF Genuine
    <3> QED BY <1>4, <2>2, <2>3, <3>1 DEF Genuine
  <2>5. InSubtree(reply, s)
    <3>1. vidDist(p.src, s) < Level(p) /\ Level(p) = p.k
      BY <1>1, <1>4 DEF InSubtree, Level
    <3>2. vidDist(p.src, s) = vidDist(s, p.src) /\ vidDist(s, s) = 0 /\ vidDist(p.src, s) \in Nat
      BY <2>1, Dist
    <3> QED BY <2>1, <2>3, <3>1, <3>2 DEF InSubtree, Level
  <2> QED BY <1>4, <2>3, <2>4, <2>5, SendReplySafe
<1> QED BY <1>2, <1>3, <1>4 DEF HandleQuery

LEMMA HandleReplySafe ==
  ASSUME IInv, Idle, NEW s \in Switches, NEW p \in net, p.to = s, HandleReply(s, p)
  PROVE  IInv'
<1>1. /\ p \in Packet /\ p.op = "REPLY" /\ Genuine(p)
      /\ Aged(p) \in Packet /\ Aged(p).op = "REPLY" /\ Genuine(Aged(p)) /\ InSubtree(Aged(p), s)
  BY Arrived DEF HandleReply, Alike
<1>2. CASE SendReply(s, p, Aged(p))
  BY <1>1, <1>2, SendReplySafe
<1>3. CASE p.dst = s /\ PassOn(s, p, Learn([p EXCEPT !.k = LevelRead(p.k)]))
  <2> DEFINE q == [p EXCEPT !.k = LevelRead(p.k)]
  <2>1. LevelRead(p.k) \in Nat
    BY <1>1, PacketFields DEF LevelRead
  <2>2. q \in Packet /\ q.gws = p.gws /\ q.k = LevelRead(p.k)
    BY <1>1, <2>1 DEF Packet
  <2> HIDE DEF q
  <2>3. q.gws # {} /\ \A g \in q.gws : Reaches(g[2], s, q.k)
    BY <1>1, <1>3, <2>2 DEF Genuine
  <2>4. Learn(q) \in QuietItems(s)
    BY <2>2, <2>3, QuietItem
  <2> QED BY <1>3, <2>4, PassOnSafe DEF q
<1> QED BY <1>2, <1>3 DEF HandleReply

LEMMA HandleDataSafe ==
  ASSUME IInv, Idle, NEW s \in Switches, NEW p \in net, p.to = s, HandleData(s, p)
  PROVE  IInv'
<1> DEFINE q == Aged(p)
<1>1. /\ q \in Packet /\ q.op = "DATA" /\ Genuine(q) /\ InSubtree(q, s)
      /\ q.src = p.src /\ q.dst = p.dst /\ q.fwd = p.fwd
  BY Arrived DEF HandleData, Alike
<1> HIDE DEF q
<1>2. s \in VIDs /\ q.src \in VIDs /\ q.dst \in VIDs /\ q.fwd \in VIDs
  BY <1>1, JavaAssumption, PacketFields
<1>3. CASE Drop(p)
  BY <1>3, DropSafe
<1>4. CASE p.dst \in Nbrs(s) /\ Connect(s, p, [q EXCEPT !.fwd = p.dst], p.dst)
  <2> DEFINE f == [q EXCEPT !.fwd = p.dst]
  <2>1. /\ f \in Packet /\ f.op = "DATA" /\ f.src = q.src /\ f.dst = q.dst /\ f.fwd = q.dst
    BY <1>1, <1>2 DEF Packet
  <2>6. Connect(s, p, f, p.dst)
    BY <1>4
  <2> HIDE DEF f
  <2>2. p.dst \in Switches
    BY <1>4, NbrsSwitches
  <2>3. InSubtree(f, p.dst)
    <3>1. vidDist(q.dst, q.dst) = 0 /\ vidDist(q.src, q.dst) \in Nat
      BY <1>2, Dist
    <3> QED BY <1>1, <2>1, <3>1 DEF InSubtree
  <2>4. [f EXCEPT !.to = p.dst] \in SoundPackets
    BY <2>1, <2>2, <2>3, Sent DEF Genuine
  <2>5. net' \subseteq net \cup SoundPackets
    BY <2>4, <2>6 DEF Connect
  <2> QED BY <2>5, <2>6, HandlerSends DEF Connect
<1>5. CASE PassOn(s, p, Forward([q EXCEPT !.fwd = p.dst]))
  <2> DEFINE f == [q EXCEPT !.fwd = p.dst]
  <2>1. f \in Packet /\ f.op = "DATA" /\ f.src = q.src /\ f.dst = q.dst /\ f.fwd = q.dst
    BY <1>1, <1>2 DEF Packet
  <2>2. PassOn(s, p, Forward(f))
    BY <1>5
  <2> HIDE DEF f
  <2>3. InSubtree(f, s)
    BY <1>1, <2>1 DEF InSubtree
  <2> QED BY <2>1, <2>2, <2>3, QuietItem, PassOnSafe
<1>6. CASE PassOn(s, p, Source(q)) \/ PassOn(s, p, Forward(q))
  BY <1>1, <1>6, QuietItem, PassOnSafe
<1>7. CASE p.fwd \in Nbrs(s) /\ Connect(s, p, q, p.fwd)
  <2>1. q.fwd \in Switches /\ p.fwd = q.fwd
    BY <1>1, <1>7, NbrsSwitches
  <2>2. InSubtree(q, q.fwd)
    <3>1. vidDist(s, q.fwd) \in Nat
      BY <1>2, Dist
    <3> QED BY <1>1, <1>2, <3>1, DataMoves
  <2>3. [q EXCEPT !.to = p.fwd] \in SoundPackets
    BY <1>1, <2>1, <2>2, Sent
  <2>4. net' \subseteq net \cup SoundPackets
    BY <1>7, <2>3 DEF Connect
  <2> QED BY <1>7, <2>4, HandlerSends DEF Connect
<1>8. CASE Refuse(s, p, p.dst, <<>>)
  <2>1. <<>> \in Seq(LossItems(s))
    BY EmptySeq
  <2> QED BY <1>8, <2>1, RefuseSafe
<1>9. CASE Refuse(s, p, p.fwd, Unlocked(<<Forward(q)>>))
  <2>1. Forward(q) \in LossItems(s)
    BY <1>1, QuietItem DEF QuietItems
  <2> DEFINE todo == <<Forward(q)>>
  <2>2. todo \in Seq(LossItems(s))
    BY <2>1
  <2> HIDE DEF todo
  <2>3. Unlocked(todo) \in Seq(LossItems(s))
    BY <2>2, UnlockedSound
  <2> QED BY <1>9, <2>3, RefuseSafe DEF todo
<1> QED BY <1>3, <1>4, <1>5, <1>6, <1>7, <1>8, <1>9 DEF HandleData, q

LEMMA HandlePacketSafe ==
  ASSUME IInv, NEW s \in Switches, HandlePacket(s)
  PROVE  IInv'
<1>1. PICK p \in net : /\ p.to = s
                       /\ \/ Expired(p) /\ Drop(p)
                          \/ HandlePublish(s, p) \/ HandleQuery(s, p) \/ HandleReply(s, p)
                          \/ HandleUpdate(s, p) \/ HandleData(s, p)
  BY DEF HandlePacket
<1> QED BY <1>1, DropSafe, HandlePublishSafe, HandleQuerySafe, HandleReplySafe,
           HandleUpdateSafe, HandleDataSafe DEF HandlePacket, Free

-----------------------------------------------------------------------------
(* The environment, and the theorems.                                      *)

LEMMA TrafficSafe ==
  ASSUME IInv, NEW s \in Switches, NEW d \in VIDs, Traffic(s, d)
  PROVE  IInv'
<1> DEFINE p == [NoPacket EXCEPT !.src = s, !.dst = d, !.fwd = d]
           q == [p EXCEPT !.to = s]
<1>1. p \in Packet /\ p.op = "DATA" /\ p.src = s /\ p.dst = d /\ p.fwd = d
  BY NoPacketFields, JavaAssumption DEF Packet, NoPacket
<1>2. q = [NoPacket EXCEPT !.src = s, !.dst = d, !.fwd = d, !.to = s]
  BY NoPacketFields DEF Packet
<1> HIDE DEF p
<1>3. InSubtree(p, s)
  <2>1. vidDist(s, d) \in Nat
    BY JavaAssumption, Dist
  <2> QED BY <1>1, <2>1 DEF InSubtree
<1>4. q \in SoundPackets
  BY <1>1, <1>3, Sent DEF Genuine
<1> HIDE DEF q
<1>5. net' \subseteq net \cup SoundPackets
  BY <1>2, <1>4 DEF Traffic
<1> QED BY <1>5, HandlerSends DEF Traffic

LEMMA CrashSafe ==
  ASSUME IInv, NEW s \in Switches, Crash(s)
  PROVE  IInv'
<1>1. timer' = [timer EXCEPT ![s] = Stopped] /\ refused' = refused
  BY DEF Crash, Stop
<1>2. JobOK'
  <2>1. CASE job' = NoJob
    BY <2>1, NoJobOK
  <2>2. CASE job' = job /\ job.sw # s /\ job.todo = <<>>
    BY <2>2, EmptySeq DEF IInv, JobOK, SafeItems
  <2>3. CASE job' = job /\ job.sw # s /\ job.todo # <<>>
    <3>1. PICK u \in Switches, th \in Threads : u = job.sw /\ th = job.thread
      BY <2>3 DEF IInv, JobOK
    <3>2. SafeItems(u, th) \subseteq SafeItems(u, th)'
      <4>1. timer'[u] = timer[u]
        BY <1>1, <2>3, <3>1 DEF IInv
      <4> QED BY <1>1, <4>1 DEF SafeItems
    <3>3. job.todo \in Seq(SafeItems(u, th)')
      BY <3>1, <3>2, SeqMonotonic DEF IInv, JobOK
    <3> QED BY <2>3, <3>1, <3>3 DEF IInv, JobOK, SafeItems
  <2> QED BY <2>1, <2>2, <2>3 DEF Crash
<1>3. Stop(s, net) /\ crashed' = crashed \cup {s} /\ net \subseteq net
  BY DEF Crash
<1> QED BY <1>1, <1>2, <1>3, StopSafe

\* A switch that starts, or opens its port, changes nothing for others.
LEMMA StartsSafe ==
  ASSUME IInv, NEW s \in Switches, Start(s) \/ Listen(s)
  PROVE  IInv'
<1>1. /\ proc' = [proc EXCEPT ![s] = "starting"] \/ proc' = [proc EXCEPT ![s] = "up"]
      /\ UNCHANGED <<crashed, refused, timer, rTable, rdvtable, net, job, parked>>
  BY DEF Start, Listen
<1>2. ProcsOK' /\ ParkedOK'
  BY <1>1, ParkedKept DEF IInv, ProcsOK, ProcStates
<1>3. JobOK'
  BY <1>1 DEF IInv, JobOK, SafeItems
<1> QED BY <1>1, <1>2, <1>3 DEF IInv, TablesOK, EdgesOK, WalksInside, FailureNeedsRefusal

LEMMA InitSafe ==
  ASSUME Init
  PROVE  IInv
<1>1. [pc |-> "start", bucket |-> 1, j |-> 1, end |-> 0] \in Timers
  BY WidthAssumption DEF Timers, BitPos
<1>2. timer \in [Switches -> Timers] /\ \A s \in Switches : timer[s].pc = "start"
  BY <1>1 DEF Init
<1>3. TablesOK /\ EdgesOK
  BY EmptySeq DEF Init, TablesOK, EdgesOK
<1>4. JobOK
  <2>1. ZeroVID \in VIDs
    BY DEF ZeroVID, VIDs
  <2> QED BY <2>1, EmptySeq DEF Init, NoJob, JobOK, Threads
<1>5. ProcsOK /\ ParkedOK
  BY DEF Init, ProcsOK, ParkedOK, ProcStates
<1> QED BY <1>2, <1>3, <1>4, <1>5 DEF Init, IInv, WalksInside, FailureNeedsRefusal

LEMMA StepSafe ==
  ASSUME IInv, [Next]_vars
  PROVE  IInv'
<1>1. CASE UNCHANGED vars
  <2>1. JobOK' /\ ParkedOK'
    BY <1>1, ParkedKept DEF vars, IInv, JobOK, SafeItems
  <2> QED BY <1>1, <2>1 DEF vars, IInv, ProcsOK, TablesOK, EdgesOK, WalksInside,
                           FailureNeedsRefusal
<1>2. ASSUME NEW f \in Flows, Traffic(f[1], f[2])
      PROVE  IInv'
  <2>1. f[1] \in Switches /\ f[2] \in VIDs
    BY JavaAssumption
  <2> QED BY <1>2, <2>1, TrafficSafe
<1> QED BY <1>1, <1>2, JobStepSafe, ResumeSafe, TimerStepSafe, HandlePacketSafe, CrashSafe,
           StartsSafe DEF Next

\* What the invariant says is what the properties say.
LEMMA IInvType ==
  ASSUME IInv
  PROVE  TypeOK
<1>1. timer \in [Switches -> [pc : {"start", "build", "bucket", "publish", "check", "dead"},
                              bucket : BitPos, j : Nat, end : Nat]]
  BY DEF IInv, Timers
<1>2. ASSUME NEW j \in parked \cup {job}, NEW i \in DOMAIN j.todo
      PROVE  j.todo[i].pkt \in Packet
  <2>1. j.todo \in Seq(Items)
    BY DEF IInv, JobOK, ParkedOK
  <2>2. j.todo[i] \in Items
    BY <2>1, LenProperties, ElementOfSeq
  <2> QED BY <2>2 DEF Items
<1>3. \A j \in parked : j.sw \in Switches /\ j.thread = "handler" /\ j.todo # <<>>
  BY DEF IInv, ParkedOK
<1> QED BY <1>1, <1>2, <1>3
        DEF IInv, ProcsOK, TablesOK, EdgesOK, JobOK, Threads, SoundPackets, TypeOK

LEMMA IInvTables ==
  ASSUME IInv
  PROVE  TableSound /\ RdvEdgesSound
<1>1. TableSound
  BY TableElements DEF IInv, TablesOK, TableSound
<1>2. RdvEdgesSound
  <2> SUFFICES ASSUME NEW s \in Switches, NEW i \in DOMAIN rdvtable[s]
               PROVE  EdgeSound(s, rdvtable[s][i])
    BY DEF RdvEdgesSound
  <2>1. rdvtable[s] \in Seq(SoundEdges(s))
    BY DEF IInv, EdgesOK
  <2>2. rdvtable[s][i] \in SoundEdges(s)
    BY <2>1, LenProperties, ElementOfSeq
  <2> QED BY <2>2 DEF SoundEdges
<1> QED BY <1>1, <1>2

LEMMA IInvHolds ==
  Spec => []IInv
BY InitSafe, StepSafe, PTL DEF Spec

\* Tables, timers, packets and jobs keep their types (all methods of
\* veil_switch.java and clientHandler.java).
THEOREM TypeCorrect ==
  Spec => []TypeOK
BY IInvHolds, IInvType, PTL

\* Every entry of a routing table goes by way of a neighbour and names a
\* gateway of the switch's own subtree that has a link to the bucket, however
\* it was learnt (RTbuilder, updateRTEntry) and whatever was lost since.
THEOREM TableSoundHolds ==
  Spec => []TableSound
BY IInvHolds, IInvTables, PTL

\* Every edge in a rendezvous table is a link of its source and is where the
\* source's subtree looks for it (rendezvousPublish, processPacket, the
\* handlers of PUBLISH and UPDATE).
THEOREM RdvEdgesSoundHolds ==
  Spec => []RdvEdgesSound
BY IInvHolds, IInvTables, PTL

\* No rendezvous packet leaves the subtree it is about, and no data packet
\* moves farther from its destination than its source was (routeCtrlPacket,
\* routeDataPacket, the five cases of the data handler), with any failures.
THEOREM StaysInSubtreeHolds ==
  Spec => []StaysInSubtree
<1>1. IInv => StaysInSubtree
  BY DEF IInv, SoundPackets, StaysInSubtree
<1> QED BY <1>1, IInvHolds, PTL

\* A switch none of whose neighbours has refused a connection, by not running
\* yet or no more, keeps its timer thread and its process: neither the index of
\* RTConstrut, nor the iterator of delEntry, nor the sockets of the reply
\* handlers then fail.
THEOREM FailureNeedsRefusalHolds ==
  Spec => []FailureNeedsRefusal
<1>1. IInv => FailureNeedsRefusal
  BY DEF IInv
<1> QED BY <1>1, IInvHolds, PTL

=============================================================================
