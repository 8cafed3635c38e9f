------------------------- MODULE VIDClustersProofs --------------------------
(***************************************************************************)
(* Theorems about VIDClusters, for every graph of any number of nodes and  *)
(* every order in which ties are broken: the clusters stay a partition,    *)
(* and within a cluster the bit strings have one length and are different; *)
(* nodes that share a prefix are connected; and if the graph is connected  *)
(* and has at most MAXITER + 1 nodes, one cluster is left in the end.      *)
(*                                                                         *)
(* That strings differ is inductive only together with the partition and   *)
(* with the fact that a string has no one at or beyond its length: the bit *)
(* put in front is then new to both clusters that are joined.              *)
(***************************************************************************)
EXTENDS VIDClusters, FiniteSetTheorems, WellFoundedInduction, TLAPS

\* of is a partition of the nodes.
Partition ==
  /\ \A n \in N : n \in clustering.of[n]
  /\ \A m, n \in N : m \in clustering.of[n] => clustering.of[m] = clustering.of[n]

\* No one of a string is in front of it.
Bounded == \A n \in N : \A i \in clustering.bits[n] : i < clustering.len[n]

IInv == TypeOK /\ Partition /\ Bounded /\ DistinctInCluster

LEMMA InitIInv == Init => IInv
<1> SUFFICES ASSUME NEW S, graph \in Graph(S), NEW z \in S, clustering = Start(S, z),
                    done = FALSE
             PROVE  IInv
  BY DEF Init
<1>1. /\ clustering.of = [n \in S |-> {n}] /\ clustering.len = [n \in S |-> 1]
      /\ clustering.bits = [n \in S |-> {0}] /\ clustering.zero = z
      /\ N = S
  BY DEF Start, N
<1>2. clustering \in [of : [S -> SUBSET S], len : [S -> Nat \ {0}],
                      bits : [S -> SUBSET Nat], zero : S]
  BY DEF Start
<1>3. TypeOK
  BY <1>1, <1>2 DEF TypeOK, ClusteringType, Graph
<1>4. Partition /\ Bounded /\ DistinctInCluster
  BY <1>1 DEF Partition, Bounded, DistinctInCluster
<1> QED  BY <1>3, <1>4 DEF IInv

\* The two clusters that are joined are different parts of the partition, and
\* next to each other.
LEMMA RoundJoins ==
  ASSUME IInv, Round
  PROVE  \E a, b \in N : /\ clustering.of[a] # clustering.of[b]
                         /\ clustering' = Joined(clustering, clustering.of[a], clustering.of[b])
                         /\ \E m \in clustering.of[a] : \E n \in clustering.of[b] : n \in graph[m]
<1>1. PICK p \in UNION {{C} \X Seconds(clustering, graph, C) : C \in Smallest(clustering)} :
         clustering' = Joined(clustering, p[1], p[2])
  BY DEF Round, Rounds
<1> DEFINE C == p[1]
           D == p[2]
<1>0. C \in Smallest(clustering) /\ D \in Seconds(clustering, graph, C)
  BY <1>1
<1>2. clustering.zero \in N
  BY DEF IInv, TypeOK, ClusteringType
<1>3. PICK a \in N : C = clustering.of[a]
  BY <1>0, <1>2 DEF Smallest, Clusters, N
<1>4. D # C /\ \E n \in UNION {graph[m] : m \in C} : D = clustering.of[n]
  BY <1>0 DEF Seconds, Near
<1>5. C \subseteq N /\ UNION {graph[m] : m \in C} \subseteq N
  BY <1>3 DEF IInv, TypeOK, ClusteringType
<1>6. PICK m \in C : \E n \in graph[m] : D = clustering.of[n]
  BY <1>4
<1>7. PICK b \in graph[m] : D = clustering.of[b]
  BY <1>6
<1>8. b \in N /\ b \in clustering.of[b]
  BY <1>5 DEF IInv, Partition
<1> QED  BY <1>1, <1>3, <1>4, <1>7, <1>8

\* The length to which strings are padded.
LEMMA MaxLenSpec ==
  ASSUME IInv, NEW a \in N, NEW b \in N
  PROVE  LET S == clustering.of[a] \cup clustering.of[b]
             l == MaxLen(clustering, S)
         IN  l \in Nat \ {0} /\ \A n \in S : clustering.len[n] <= l
<1> DEFINE S == clustering.of[a] \cup clustering.of[b]
           L == {clustering.len[n] : n \in S}
<1>1. \A n \in S : n \in N /\ clustering.len[n] \in {clustering.len[a], clustering.len[b]}
  BY DEF IInv, TypeOK, ClusteringType, Partition, DistinctInCluster
<1>2. clustering.len[a] \in Nat \ {0} /\ clustering.len[b] \in Nat \ {0} /\ a \in S /\ b \in S
  BY DEF IInv, TypeOK, ClusteringType, Partition
<1>3. \E l \in L : \A n \in S : clustering.len[n] <= l
  <2>1. CASE clustering.len[a] <= clustering.len[b]
    BY <1>1, <1>2, <2>1
  <2>2. CASE clustering.len[b] <= clustering.len[a]
    BY <1>1, <1>2, <2>2
  <2> QED  BY <1>2, <2>1, <2>2
<1>4. MaxLen(clustering, S) \in L /\ \A n \in S : clustering.len[n] <= MaxLen(clustering, S)
  BY <1>3 DEF MaxLen
<1> QED  BY <1>1, <1>2, <1>4

LEMMA NextIInv == IInv /\ [Next]_clustervars => IInv'
<1> SUFFICES ASSUME IInv, [Next]_clustervars PROVE IInv'
  OBVIOUS
<1>1. CASE UNCHANGED clustervars
  BY <1>1 DEF clustervars, IInv, TypeOK, ClusteringType, N, Partition, Bounded, DistinctInCluster
<1>2. CASE Break
  BY <1>2 DEF Break, IInv, TypeOK, ClusteringType, N, Partition, Bounded, DistinctInCluster
<1>3. CASE Round
  <2>1. PICK a \in N, b \in N :
           /\ clustering.of[a] # clustering.of[b]
           /\ clustering' = Joined(clustering, clustering.of[a], clustering.of[b])
    BY <1>3, RoundJoins
  <2> DEFINE C == clustering.of[a]
             D == clustering.of[b]
             l == MaxLen(clustering, C \cup D)
             of == clustering'.of
             len == clustering'.len
             bits == clustering'.bits
  <2>2. l \in Nat \ {0} /\ \A n \in C \cup D : clustering.len[n] <= l
    BY MaxLenSpec
  <2>3. /\ clustering \in [of : [N -> SUBSET N], len : [N -> Nat \ {0}],
                            bits : [N -> SUBSET Nat], zero : N]
        /\ C \subseteq N /\ D \subseteq N
    BY DEF IInv, TypeOK, ClusteringType
  <2>4. /\ of = [n \in N |-> IF n \in C \cup D THEN C \cup D ELSE clustering.of[n]]
        /\ len = [n \in N |-> IF n \in C \cup D THEN l + 1 ELSE clustering.len[n]]
        /\ bits = [n \in N |-> IF n \in C THEN clustering.bits[n] \cup {l} ELSE clustering.bits[n]]
        /\ clustering'.zero = clustering.zero
        /\ clustering' = [clustering EXCEPT !.of = of, !.len = len, !.bits = bits]
    BY <2>1, <2>3 DEF Joined, N
  <2>5. \A n \in N : /\ n \in clustering.of[n]
                     /\ (n \in C <=> clustering.of[n] = C)
                     /\ (n \in D <=> clustering.of[n] = D)
    BY DEF IInv, Partition
  <2>6. \A n \in N : \A i \in clustering.bits[n] : i \in Nat /\ i < clustering.len[n]
    BY <2>3 DEF IInv, Bounded
  <2>7. N' = N
    BY <2>4 DEF N
  <2> HIDE DEF C, D, l, of, len, bits
  <2>8. of \in [N -> SUBSET N] /\ len \in [N -> Nat \ {0}] /\ bits \in [N -> SUBSET Nat]
    BY <2>2, <2>3, <2>4
  <2>9. TypeOK'
    <3>1. clustering' \in [of : [N -> SUBSET N], len : [N -> Nat \ {0}],
                           bits : [N -> SUBSET Nat], zero : N]
      BY <2>3, <2>4, <2>8
    <3>2. graph' = graph /\ done' = done /\ graph \in [N -> SUBSET N] /\ done \in BOOLEAN
      BY <1>3 DEF Round, IInv, TypeOK
    <3> QED  BY <2>7, <3>1, <3>2 DEF TypeOK, ClusteringType
  <2>10. \A n \in N : n \in of[n]
    BY <2>4, <2>5
  <2>11. \A m, n \in N : m \in of[n] => of[m] = of[n]
    <3> SUFFICES ASSUME NEW m \in N, NEW n \in N, m \in of[n] PROVE of[m] = of[n]
      OBVIOUS
    <3>1. CASE n \in C \cup D
      BY <2>4, <3>1
    <3>2. CASE n \notin C \cup D
      <4>1. m \in clustering.of[n] /\ clustering.of[m] = clustering.of[n]
        BY <2>4, <3>2 DEF IInv, Partition
      <4>2. m \notin C \cup D
        BY <2>5, <3>2, <4>1
      <4> QED  BY <2>4, <3>2, <4>1, <4>2
    <3> QED  BY <3>1, <3>2
  <2>12. \A n \in N : \A i \in bits[n] : i < len[n]
    <3> SUFFICES ASSUME NEW n \in N, NEW i \in bits[n] PROVE i < len[n]
      OBVIOUS
    <3>1. CASE i \in clustering.bits[n]
      <4>1. i \in Nat /\ i < clustering.len[n] /\ clustering.len[n] \in Nat
        BY <2>3, <2>6, <3>1
      <4>2. CASE n \in C \cup D
        BY <2>2, <2>4, <4>1, <4>2
      <4>3. CASE n \notin C \cup D
        BY <2>4, <4>1, <4>3
      <4> QED  BY <4>2, <4>3
    <3>2. CASE i \notin clustering.bits[n]
      BY <2>2, <2>4, <3>2
    <3> QED  BY <3>1, <3>2
  <2>13. \A n \in C \cup D : l \notin clustering.bits[n]
    <3> SUFFICES ASSUME NEW n \in C \cup D, l \in clustering.bits[n] PROVE FALSE
      OBVIOUS
    <3>1. l < clustering.len[n] /\ clustering.len[n] \in Nat /\ clustering.len[n] <= l
      BY <2>2, <2>3, <2>6
    <3> QED  BY <2>2, <3>1
  <2>14. ASSUME NEW m \in N, NEW n \in N, of[m] = of[n]
         PROVE  len[m] = len[n] /\ (m # n => bits[m] # bits[n])
    <3>1. CASE m \in C \cup D /\ n \in C \cup D
      <4>1. len[m] = len[n]
        BY <2>4, <3>1
      <4>2. CASE clustering.of[m] = clustering.of[n]
        <5>1. m # n => clustering.bits[m] # clustering.bits[n]
          BY <4>2 DEF IInv, DistinctInCluster
        <5>2. m \in C <=> n \in C
          BY <2>5, <4>2
        <5>3. l \notin clustering.bits[m] /\ l \notin clustering.bits[n]
          BY <2>13, <3>1
        <5>4. m # n => bits[m] # bits[n]
          <6> SUFFICES ASSUME m # n PROVE bits[m] # bits[n]
            OBVIOUS
          <6>1. PICK i : i \in clustering.bits[m] <=> i \notin clustering.bits[n]
            BY <5>1
          <6>2. i # l
            BY <5>3, <6>1
          <6>3. i \in bits[m] <=> i \notin bits[n]
            BY <2>4, <5>2, <6>1, <6>2
          <6> QED  BY <6>3
        <5> QED  BY <4>1, <5>4
      <4>3. CASE clustering.of[m] # clustering.of[n]
        <5>1. (m \in C /\ n \notin C) \/ (n \in C /\ m \notin C)
          BY <2>5, <3>1, <4>3
        <5>2. bits[m] # bits[n]
          BY <2>4, <2>13, <3>1, <5>1
        <5> QED  BY <4>1, <5>2
      <4> QED  BY <4>2, <4>3
    <3>2. CASE m \notin C \cup D /\ n \notin C \cup D
      BY <2>4, <2>14, <3>2 DEF IInv, DistinctInCluster
    <3>3. CASE m \in C \cup D /\ n \notin C \cup D
      BY <2>4, <2>5, <2>14, <3>3
    <3>4. CASE m \notin C \cup D /\ n \in C \cup D
      BY <2>4, <2>5, <2>14, <3>4
    <3> QED  BY <3>1, <3>2, <3>3, <3>4
  <2>15. Partition' /\ Bounded'
    BY <2>7, <2>10, <2>11, <2>12 DEF Partition, Bounded, of, bits, len
  <2>16. DistinctInCluster'
    BY <2>7, <2>14 DEF DistinctInCluster, of, bits, len
  <2> QED  BY <2>9, <2>15, <2>16 DEF IInv
<1> QED  BY <1>1, <1>2, <1>3 DEF Next

LEMMA SpecIInv == Spec => []IInv
BY InitIInv, NextIInv, PTL DEF Spec

\* The loop of performVIDAssignment keeps its tables well typed.
THEOREM TypeCorrect == Spec => []TypeOK
<1>1. IInv => TypeOK
  BY DEF IInv
<1> QED  BY SpecIInv, <1>1, PTL

\* However ties are broken, performVIDAssignment never gives two nodes of one
\* cluster the same string, nor strings of different lengths.
THEOREM DistinctStrings == Spec => []DistinctInCluster
<1>1. IInv => DistinctInCluster
  BY DEF IInv
<1> QED  BY SpecIInv, <1>1, PTL
-----------------------------------------------------------------------------
(* Subtrees: the nodes whose strings agree from some position on are       *)
(* connected.  When two clusters are joined, the subtrees below the new    *)
(* bit are those of before, and the one above it is both clusters          *)
(* together, connected by the link that made them neighbours.              *)

LinksBothWays == \A m, n \in N : m \in graph[n] => n \in graph[m]

TreeInv == IInv /\ LinksBothWays /\ SubtreesConnected

\* Two connected sets with a link from one to the other are connected.
LEMMA ConnectedUnion ==
  ASSUME LinksBothWays, NEW C \in SUBSET N, NEW D \in SUBSET N,
         ConnectedSet(C), ConnectedSet(D),
         NEW m \in C, NEW n \in D, n \in graph[m]
  PROVE  ConnectedSet(C \cup D)
<1> SUFFICES ASSUME NEW T \in SUBSET (C \cup D), T # {},
                    (UNION {graph[x] : x \in T}) \cap (C \cup D) \subseteq T
             PROVE  T = C \cup D
  BY DEF ConnectedSet
<1>1. T \cap C # {} => T \cap C = C
  <2> DEFINE U == T \cap C
  <2>1. U \in SUBSET C /\ (UNION {graph[x] : x \in U}) \cap C \subseteq U
    OBVIOUS
  <2> HIDE DEF U
  <2>2. U # {} => U = C
    BY <2>1 DEF ConnectedSet
  <2> QED  BY <2>2 DEF U
<1>2. T \cap D # {} => T \cap D = D
  <2> DEFINE U == T \cap D
  <2>1. U \in SUBSET D /\ (UNION {graph[x] : x \in U}) \cap D \subseteq U
    OBVIOUS
  <2> HIDE DEF U
  <2>2. U # {} => U = D
    BY <2>1 DEF ConnectedSet
  <2> QED  BY <2>2 DEF U
<1>3. m \in graph[n]
  BY DEF LinksBothWays
<1>4. m \in T <=> n \in T
  BY <1>3
<1> QED  BY <1>1, <1>2, <1>4

\* A cluster is its own topmost subtree.
LEMMA WholeCluster ==
  ASSUME IInv, NEW n \in N
  PROVE  Subtree(n, clustering.len[n]) = clustering.of[n]
<1> SUFFICES ASSUME NEW m \in clustering.of[n], NEW i \in clustering.len[n] .. clustering.len[n]
             PROVE  i \notin clustering.bits[m] /\ i \notin clustering.bits[n]
  BY DEF Subtree
<1>1. m \in N /\ clustering.len[n] \in Nat
  BY DEF IInv, TypeOK, ClusteringType
<1>2. clustering.len[m] = clustering.len[n] /\ i = clustering.len[n]
  BY <1>1 DEF IInv, Partition, DistinctInCluster
<1> QED  BY <1>1, <1>2 DEF IInv, Bounded

\* Every cluster is connected.
LEMMA ClusterConnected ==
  ASSUME TreeInv, NEW n \in N
  PROVE  ConnectedSet(clustering.of[n])
<1>1. clustering.len[n] \in 0 .. clustering.len[n]
  BY DEF TreeInv, IInv, TypeOK, ClusteringType
<1> QED  BY <1>1, WholeCluster DEF TreeInv, SubtreesConnected

LEMMA InitTreeInv == Init => TreeInv
<1> SUFFICES ASSUME Init PROVE TreeInv
  OBVIOUS
<1>1. PICK S : \E z \in S : graph \in Graph(S) /\ clustering = Start(S, z)
  BY DEF Init
<1>2. clustering.of = [n \in S |-> {n}] /\ N = S /\ graph \in Graph(S)
  BY <1>1 DEF Start, N
<1>3. LinksBothWays
  BY <1>2 DEF LinksBothWays, Graph
<1>4. ASSUME NEW n \in N, NEW k \in 0 .. clustering.len[n] PROVE ConnectedSet(Subtree(n, k))
  <2>1. Subtree(n, k) \subseteq {n}
    BY <1>2 DEF Subtree
  <2> QED  BY <2>1 DEF ConnectedSet
<1> QED  BY <1>3, <1>4, InitIInv DEF TreeInv, SubtreesConnected

LEMMA NextTreeInv == TreeInv /\ [Next]_clustervars => TreeInv'
<1> SUFFICES ASSUME TreeInv, [Next]_clustervars PROVE TreeInv'
  OBVIOUS
<1> IInv'
  BY NextIInv DEF TreeInv
<1>1. CASE UNCHANGED clustervars \/ Break
  <2>1. clustering' = clustering /\ graph' = graph
    BY <1>1 DEF Break, clustervars
  <2>2. N' = N /\ \A n, k : Subtree(n, k)' = Subtree(n, k)
    BY <2>1 DEF N, Subtree
  <2>3. \A S : ConnectedSet(S)' <=> ConnectedSet(S)
    BY <2>1 DEF ConnectedSet
  <2> QED  BY <2>1, <2>2, <2>3 DEF TreeInv, LinksBothWays, SubtreesConnected
<1>2. CASE Round
  <2>1. PICK a \in N, b \in N :
           /\ clustering.of[a] # clustering.of[b]
           /\ clustering' = Joined(clustering, clustering.of[a], clustering.of[b])
           /\ \E m \in clustering.of[a] : \E n \in clustering.of[b] : n \in graph[m]
    BY <1>2, RoundJoins DEF TreeInv
  <2> DEFINE C == clustering.of[a]
             D == clustering.of[b]
             l == MaxLen(clustering, C \cup D)
  <2>2. l \in Nat \ {0} /\ \A n \in C \cup D : clustering.len[n] <= l
    BY MaxLenSpec DEF TreeInv
  <2>3. /\ clustering \in [of : [N -> SUBSET N], len : [N -> Nat \ {0}],
                            bits : [N -> SUBSET Nat], zero : N]
        /\ C \subseteq N /\ D \subseteq N
    BY DEF TreeInv, IInv, TypeOK, ClusteringType
  <2>4. /\ \A n \in N : clustering'.of[n] = IF n \in C \cup D THEN C \cup D ELSE clustering.of[n]
        /\ \A n \in N : clustering'.len[n] = IF n \in C \cup D THEN l + 1 ELSE clustering.len[n]
        /\ \A n \in N : clustering'.bits[n] =
                          IF n \in C THEN clustering.bits[n] \cup {l} ELSE clustering.bits[n]
        /\ N' = N /\ graph' = graph
    BY <1>2, <2>1, <2>3 DEF Joined, N, Round
  <2>5. \A n \in N : /\ n \in clustering.of[n]
                     /\ (n \in C <=> clustering.of[n] = C)
                     /\ (n \in D <=> clustering.of[n] = D)
                     /\ \A m \in clustering.of[n] : /\ clustering.of[m] = clustering.of[n]
                                                    /\ clustering.len[m] = clustering.len[n]
    BY <2>3 DEF TreeInv, IInv, Partition, DistinctInCluster
  <2>6. \A n \in N : \A i \in clustering.bits[n] : i < clustering.len[n]
    BY DEF TreeInv, IInv, Bounded
  <2>7. ConnectedSet(C \cup D)
    <3>1. ConnectedSet(C) /\ ConnectedSet(D)
      BY ClusterConnected
    <3>2. PICK m \in C, n \in D : n \in graph[m]
      BY <2>1
    <3> HIDE DEF C, D
    <3> QED  BY <2>3, <3>1, <3>2, ConnectedUnion DEF TreeInv
  <2> HIDE DEF C, D, l
  <2>8. ASSUME NEW n \in N, NEW k \in 0 .. clustering'.len[n]
        PROVE  ConnectedSet(Subtree(n, k)')
    <3>0. clustering.len[n] \in Nat \ {0} /\ k \in Nat
      BY <2>3
    <3>1. CASE n \notin C \cup D
      <4>1. \A m \in clustering.of[n] : m \in N /\ m \notin C \cup D
        BY <2>3, <2>5, <3>1
      <4>2. Subtree(n, k)' = Subtree(n, k) /\ k \in 0 .. clustering.len[n]
        BY <2>4, <3>1, <4>1 DEF Subtree
      <4> QED  BY <4>2 DEF TreeInv, SubtreesConnected
    <3>2. CASE n \in C \cup D /\ k = l + 1
      <4>1. Subtree(n, k)' = {m \in C \cup D : \A i \in l + 1 .. l + 1 :
                                i \in clustering'.bits[m] <=> i \in clustering'.bits[n]}
        BY <2>4, <3>2 DEF Subtree
      <4>2. ASSUME NEW m \in C \cup D PROVE l + 1 \notin clustering'.bits[m]
        <5>1. m \in N /\ clustering.len[m] \in Nat /\ clustering.len[m] <= l
          BY <2>2, <2>3
        <5>2. l + 1 \notin clustering.bits[m]
          BY <2>2, <2>6, <5>1
        <5>3. clustering'.bits[m] \in {clustering.bits[m] \cup {l}, clustering.bits[m]}
          BY <2>4, <5>1
        <5> QED  BY <2>2, <5>2, <5>3
      <4>3. \A i \in l + 1 .. l + 1 : i = l + 1
        BY <2>2
      <4>4. Subtree(n, k)' = C \cup D
        BY <3>2, <4>1, <4>2, <4>3
      <4> QED  BY <2>7, <4>4
    <3>3. CASE n \in C \cup D /\ k # l + 1
      <4>1. k \in 0 .. l /\ clustering'.len[n] = l + 1 /\ clustering.len[n] <= l
        BY <2>2, <2>4, <3>0, <3>3
      <4> DEFINE h == IF k <= clustering.len[n] THEN k ELSE clustering.len[n]
      <4>2. h \in 0 .. clustering.len[n]
        BY <3>0
      <4>3. ASSUME NEW m \in C \cup D,
                   \A i \in k .. l + 1 : i \in clustering'.bits[m] <=> i \in clustering'.bits[n]
            PROVE  m \in Subtree(n, h)
        <5>1. m \in N /\ l \in k .. l + 1
          BY <2>2, <2>3, <4>1
        <5>2. l \notin clustering.bits[m] /\ l \notin clustering.bits[n]
          <6>1. clustering.len[m] \in Nat /\ clustering.len[m] <= l
            BY <2>2, <2>3, <5>1
          <6> QED  BY <2>2, <2>6, <3>0, <4>1, <5>1, <6>1
        <5>3. m \in C <=> n \in C
          BY <2>4, <4>3, <5>1, <5>2
        <5>4. clustering.of[m] = clustering.of[n] /\ m \in clustering.of[n]
          BY <2>5, <3>3, <5>1, <5>3
        <5>5. ASSUME NEW i \in h .. clustering.len[n]
              PROVE  i \in clustering.bits[m] <=> i \in clustering.bits[n]
          <6>1. CASE i \in k .. l
            <7>1. i \in k .. l + 1 /\ (i \in clustering'.bits[m] <=> i \in clustering'.bits[n])
              BY <2>2, <4>3, <6>1
            <7>2. i # l => /\ (i \in clustering'.bits[m] <=> i \in clustering.bits[m])
                           /\ (i \in clustering'.bits[n] <=> i \in clustering.bits[n])
              <8>1. \A x \in N : clustering'.bits[x] \in {clustering.bits[x] \cup {l}, clustering.bits[x]}
                BY <2>4
              <8> QED  BY <5>1, <8>1
            <7> QED  BY <5>2, <7>1, <7>2
          <6>2. CASE i \notin k .. l
            <7>1. i = clustering.len[n]
              BY <3>0, <4>1, <6>2, <2>2
            <7>2. clustering.len[m] = clustering.len[n]
              BY <2>5, <5>4
            <7> QED  BY <2>6, <3>0, <5>1, <7>1, <7>2
          <6> QED  BY <6>1, <6>2
        <5> QED  BY <5>4, <5>5 DEF Subtree
      <4>4. ASSUME NEW m \in Subtree(n, h)
            PROVE  /\ m \in C \cup D
                   /\ \A i \in k .. l + 1 : i \in clustering'.bits[m] <=> i \in clustering'.bits[n]
        <5>1. m \in clustering.of[n]
          BY DEF Subtree
        <5>2. m \in N /\ clustering.of[m] = clustering.of[n] /\ clustering.len[m] = clustering.len[n]
          BY <2>3, <2>5, <5>1
        <5>3. (m \in C <=> n \in C) /\ (m \in D <=> n \in D)
          BY <2>5, <5>2
        <5>4. ASSUME NEW i \in k .. l + 1
              PROVE  i \in clustering.bits[m] <=> i \in clustering.bits[n]
          <6>1. CASE i < clustering.len[n]
            <7>1. i \in h .. clustering.len[n]
              BY <2>2, <3>0, <4>1, <6>1
            <7> QED  BY <7>1 DEF Subtree
          <6>2. CASE ~ (i < clustering.len[n])
            BY <2>6, <5>2, <6>2
          <6> QED  BY <6>1, <6>2
        <5> QED  BY <2>4, <3>3, <5>2, <5>3, <5>4
      <4>5. Subtree(n, k)' = {m \in C \cup D : \A i \in k .. l + 1 :
                                i \in clustering'.bits[m] <=> i \in clustering'.bits[n]}
        BY <2>4, <3>3, <4>1 DEF Subtree
      <4>6. Subtree(n, h) \subseteq C \cup D
        BY <4>4
      <4>7. Subtree(n, k)' = Subtree(n, h)
        BY <4>3, <4>4, <4>5, <4>6
      <4> HIDE DEF h
      <4> QED  BY <4>2, <4>7 DEF TreeInv, SubtreesConnected
    <3> QED  BY <3>1, <3>2, <3>3
  <2>9. SubtreesConnected'
    BY <2>4, <2>8 DEF SubtreesConnected, ConnectedSet
  <2> QED  BY <2>4, <2>9 DEF TreeInv, LinksBothWays
<1> QED  BY <1>1, <1>2 DEF Next

LEMMA SpecTreeInv == Spec => []TreeInv
BY InitTreeInv, NextTreeInv, PTL DEF Spec

\* Whatever the graph and the ties, the interfaces performVIDAssignment gives a
\* common prefix are a connected part of the network.
THEOREM PrefixesConnected == Spec => []SubtreesConnected
<1>1. TreeInv => SubtreesConnected
  BY DEF TreeInv
<1> QED  BY SpecTreeInv, <1>1, PTL

-----------------------------------------------------------------------------
(* The end: in a connected network a smallest cluster always has a         *)
(* neighbour, so the loop breaks with one cluster, unless there are nodes  *)
(* for more than MAXITER rounds.                                           *)

LEMMA LeastExists ==
  ASSUME NEW S \in SUBSET Nat, S # {}
  PROVE  \E k \in S : \A i \in S : k <= i
<1>1. PICK m \in S : \A y \in S : ~ (<<y, m>> \in OpToRel(<, Nat))
  BY NatLessThanWellFounded, WFMin
<1>2. \A i \in S : ~ (i < m)
  BY <1>1 DEF OpToRel
<1> QED  BY <1>2

\* Among some finite sets one is smallest.
LEMMA SmallestExists ==
  ASSUME NEW X, X # {}, \A C \in X : IsFiniteSet(C)
  PROVE  \E D \in X : \A E \in X : ~ Smaller(E, D)
<1> DEFINE sizes == {Cardinality(C) : C \in X}
<1>1. \A C \in X : Cardinality(C) \in Nat
  BY FS_CardinalityType
<1>2. PICK k \in sizes : \A i \in sizes : k <= i
  <2>1. sizes \in SUBSET Nat /\ sizes # {}
    BY <1>1
  <2> HIDE DEF sizes
  <2> QED  BY <2>1, LeastExists
<1>3. PICK D \in X : Cardinality(D) = k
  BY <1>2
<1>4. \A E \in X : Cardinality(D) <= Cardinality(E)
  BY <1>2, <1>3
<1> QED  BY <1>1, <1>3, <1>4 DEF Smaller

OneCluster == \A m, n \in N : clustering.of[m] = clustering.of[n]

EndInv == TreeInv /\ IsFiniteSet(N) /\ (done => Breaks(clustering, graph))

LEMMA InitEndInv == Init => EndInv
<1> SUFFICES ASSUME Init PROVE EndInv
  OBVIOUS
<1>1. PICK S \in SUBSET Nodes : \E z \in S : clustering = Start(S, z)
  BY DEF Init
<1>2. N = S
  BY <1>1 DEF Start, N
<1>3. IsFiniteSet(N)
  BY <1>2, NodesAssumption, FS_Subset
<1> QED  BY <1>3, InitTreeInv DEF Init, EndInv

LEMMA NextEndInv == EndInv /\ [Next]_clustervars => EndInv'
<1> SUFFICES ASSUME EndInv, [Next]_clustervars PROVE EndInv'
  OBVIOUS
<1> TreeInv'
  BY NextTreeInv DEF EndInv
<1>1. CASE UNCHANGED clustervars \/ Break
  BY <1>1 DEF Break, clustervars, EndInv, N
<1>2. CASE Round
  <2>1. \E a, b \in N : clustering' = Joined(clustering, clustering.of[a], clustering.of[b])
    BY <1>2, RoundJoins DEF EndInv, TreeInv
  <2>2. clustering \in [of : [N -> SUBSET N], len : [N -> Nat \ {0}],
                        bits : [N -> SUBSET Nat], zero : N]
    BY DEF EndInv, TreeInv, IInv, TypeOK, ClusteringType
  <2>3. N' = N
    BY <2>1, <2>2 DEF Joined, N
  <2> QED  BY <1>2, <2>3 DEF Round, EndInv
<1> QED  BY <1>1, <1>2 DEF Next

LEMMA SpecEndInv == Spec => []EndInv
BY InitEndInv, NextEndInv, PTL DEF Spec

\* of is onto the clusters, so there are finitely many.
LEMMA ClustersFinite ==
  ASSUME EndInv
  PROVE  /\ IsFiniteSet(Clusters(clustering)) /\ Clusters(clustering) # {}
         /\ Cardinality(Clusters(clustering)) <= 1 <=> OneCluster
<1> DEFINE K == Clusters(clustering)
<1>1. clustering.of \in [N -> SUBSET N] /\ clustering.zero \in N
  BY DEF EndInv, TreeInv, IInv, TypeOK, ClusteringType
<1>2. K = {clustering.of[n] : n \in N}
  BY DEF Clusters, N
<1>3. clustering.of \in Surjection(N, K)
  BY <1>1, <1>2 DEF Surjection
<1>4. IsFiniteSet(K)
  BY <1>3, FS_Surjection DEF EndInv
<1>5. K # {}
  BY <1>1, <1>2
<1>6. Cardinality(K) \in Nat /\ Cardinality(K) # 0
  BY <1>4, <1>5, FS_CardinalityType, FS_EmptySet
<1>7. Cardinality(K) = 1 <=> \E C : K = {C}
  BY <1>4, FS_Singleton
<1>8. OneCluster <=> \E C : K = {C}
  <2>1. ASSUME NEW C, K = {C} PROVE OneCluster
    BY <1>2, <2>1 DEF OneCluster
  <2>2. ASSUME OneCluster PROVE K = {clustering.of[clustering.zero]}
    BY <1>1, <1>2, <2>2 DEF OneCluster
  <2> QED  BY <2>1, <2>2
<1> HIDE DEF K
<1>9. Cardinality(K) <= 1 <=> OneCluster
  BY <1>6, <1>7, <1>8
<1> QED  BY <1>4, <1>5, <1>9 DEF K

\* In a connected network that MAXITER is enough for, the loop breaks with one
\* cluster only: with two or more left, MAXITER rounds are not made yet.
LEMMA BreaksWithOne ==
  ASSUME EndInv, ConnectedSet(N), Cardinality(N) <= MAXITER + 1, Breaks(clustering, graph)
  PROVE  OneCluster
<1>1. CASE ~ Goes(clustering)
  <2>1. Cardinality(N) \in Nat /\ Cardinality(Clusters(clustering)) \in Nat
    BY ClustersFinite, FS_CardinalityType DEF EndInv
  <2>2. \/ Cardinality(N) - Cardinality(Clusters(clustering)) >= MAXITER
        \/ Cardinality(Clusters(clustering)) <= 1
    BY <1>1, <2>1, ClusterAssumption DEF Goes, Joinings, N
  <2>3. Cardinality(Clusters(clustering)) <= 1
    BY <2>1, <2>2, ClusterAssumption
  <2> QED  BY <2>3, ClustersFinite
<1>2. ASSUME NEW C \in Smallest(clustering), Seconds(clustering, graph, C) = {}
      PROVE  OneCluster
  <2>1. clustering.of \in [N -> SUBSET N] /\ clustering.zero \in N /\ graph \in [N -> SUBSET N]
    BY DEF EndInv, TreeInv, IInv, TypeOK, ClusteringType
  <2>2. PICK a \in N : C = clustering.of[a]
    BY <2>1 DEF Smallest, Clusters, N
  <2>3. a \in C /\ C \subseteq N
    BY <2>1, <2>2 DEF EndInv, TreeInv, IInv, Partition
  <2>4. Near(clustering, graph, C) = {}
    <3> SUFFICES ASSUME Near(clustering, graph, C) # {} PROVE FALSE
      OBVIOUS
    <3>1. \A D \in Near(clustering, graph, C) : D \in SUBSET N
      BY <2>1, <2>3 DEF Near
    <3>2. \A D \in Near(clustering, graph, C) : IsFiniteSet(D)
      BY <3>1, FS_Subset DEF EndInv
    <3> QED  BY <1>2, <3>2, SmallestExists DEF Seconds
  <2>5. (UNION {graph[m] : m \in C}) \cap N \subseteq C
    <3> SUFFICES ASSUME NEW m \in C, NEW n \in graph[m] PROVE n \in C
      OBVIOUS
    <3>1. n \in N /\ n \in clustering.of[n]
      BY <2>1, <2>3 DEF EndInv, TreeInv, IInv, Partition
    <3>2. clustering.of[n] = C
      BY <2>4 DEF Near
    <3> QED  BY <3>1, <3>2
  <2>6. C = N
    BY <2>3, <2>5 DEF ConnectedSet
  <2> QED  BY <2>2, <2>6 DEF OneCluster, EndInv, TreeInv, IInv, Partition
<1> QED  BY <1>1, <1>2 DEF Breaks

\* Strings of one length that fit stay different when they are put into VIDs.
LEMMA VIDsDiffer ==
  ASSUME IInv, OneCluster, Fits(clustering), NEW m \in N, NEW n \in N, m # n
  PROVE  NodeVID(clustering, m) # NodeVID(clustering, n)
<1> DEFINE len == clustering.len[clustering.zero]
           shift == Suffix(clustering)
<1>1. clustering.zero \in N /\ len \in Nat /\ len <= VidLen
  BY DEF IInv, TypeOK, ClusteringType, Fits
<1>2. shift \in Nat /\ len + shift <= VidLen
  BY <1>1, ClusterAssumption DEF Suffix
<1>3. \A x \in N : clustering.bits[x] \subseteq Nat /\ \A i \in clustering.bits[x] : i < len
  <2> SUFFICES ASSUME NEW x \in N
               PROVE  clustering.bits[x] \subseteq Nat /\ \A i \in clustering.bits[x] : i < len
    OBVIOUS
  <2>1. clustering.len[x] = len
    BY <1>1 DEF OneCluster, IInv, DistinctInCluster
  <2> QED  BY <2>1 DEF IInv, TypeOK, ClusteringType, Bounded
<1>4. clustering.bits[m] # clustering.bits[n]
  BY DEF OneCluster, IInv, DistinctInCluster
<1> HIDE DEF len, shift
<1>5. ASSUME NEW x \in N, NEW i \in Nat, i < len
      PROVE  i + shift \in NodeVID(clustering, x) <=> i \in clustering.bits[x]
  <2>1. NodeVID(clustering, x) = {j + shift : j \in clustering.bits[x]} \cap (0 .. VidLen - 1)
    BY DEF NodeVID, shift
  <2>2. i + shift \in 0 .. VidLen - 1
    BY <1>1, <1>2, <1>5, ClusterAssumption
  <2>3. ASSUME NEW j \in clustering.bits[x], j + shift = i + shift PROVE j = i
    <3>1. j \in Nat
      BY <1>3
    <3> QED  BY <1>2, <2>3, <3>1
  <2> QED  BY <2>1, <2>2, <2>3
<1>6. PICK i : i \in clustering.bits[m] <=> i \notin clustering.bits[n]
  BY <1>4
<1>7. i \in Nat /\ i < len
  BY <1>3, <1>6
<1> QED  BY <1>5, <1>6, <1>7

\* In every connected network of at most MAXITER + 1 interfaces
\* performVIDAssignment ends with one cluster, and gives all interfaces
\* different VIDs if it gives them any.
THEOREM ConnectedUnique == Spec => []UniqueIfConnected
<1>1. ASSUME EndInv PROVE UniqueIfConnected
  <2> SUFFICES ASSUME done, ConnectedSet(N), Cardinality(N) <= MAXITER + 1
               PROVE  /\ Cardinality(Clusters(clustering)) = 1
                      /\ Fits(clustering) =>
                           \A m, n \in N : m # n =>
                             NodeVID(clustering, m) # NodeVID(clustering, n)
    BY DEF UniqueIfConnected
  <2>1. OneCluster
    BY <1>1, BreaksWithOne DEF EndInv
  <2>2. Cardinality(Clusters(clustering)) = 1
    <3>1. /\ Cardinality(Clusters(clustering)) <= 1
          /\ Cardinality(Clusters(clustering)) \in Nat
          /\ Cardinality(Clusters(clustering)) # 0
      BY <1>1, <2>1, ClustersFinite, FS_CardinalityType, FS_EmptySet
    <3> QED  BY <3>1
  <2> QED  BY <1>1, <2>1, <2>2, VIDsDiffer DEF EndInv, TreeInv
<1> QED  BY SpecEndInv, <1>1, PTL

=============================================================================
