---------------------------- MODULE VIDClusters -----------------------------
(***************************************************************************)
(* The loop of performVIDAssignment (see Clusters) as a state machine, one *)
(* joining per step, from any graph of the nodes: what holds of the        *)
(* clusters on the way and of the VIDs in the end.                         *)
(***************************************************************************)
EXTENDS Clusters

CONSTANT Nodes

ASSUME NodesAssumption == IsFiniteSet(Nodes)

VARIABLES graph, clustering, done
clustervars == <<graph, clustering, done>>

Init ==
  /\ \E S \in SUBSET Nodes : /\ Cardinality(S) > 1
                             /\ graph \in Graph(S)
                             /\ clustering \in {Start(S, z) : z \in S}
  /\ done = FALSE

Round ==
  /\ ~ done
  /\ clustering' \in Rounds(clustering, graph)
  /\ UNCHANGED <<graph, done>>

Break ==
  /\ ~ done /\ Breaks(clustering, graph)
  /\ done' = TRUE
  /\ UNCHANGED <<graph, clustering>>

Next == Round \/ Break

Spec == Init /\ [][Next]_clustervars

-----------------------------------------------------------------------------
N == DOMAIN clustering.of

ClusteringType ==
  clustering \in [of : [N -> SUBSET N], len : [N -> Nat \ {0}],
                  bits : [N -> SUBSET Nat], zero : N]

TypeOK == ClusteringType /\ graph \in [N -> SUBSET N] /\ done \in BOOLEAN

\* Nodes of one cluster have strings of one length, and different ones.
DistinctInCluster ==
  \A m, n \in N : clustering.of[m] = clustering.of[n] =>
     /\ clustering.len[m] = clustering.len[n]
     /\ m # n => clustering.bits[m] # clustering.bits[n]

\* S is connected in the graph: no proper part of it is closed.
ConnectedSet(S) ==
  \A T \in SUBSET S : T # {} /\ (UNION {graph[m] : m \in T}) \cap S \subseteq T => T = S

\* The nodes of n's cluster that share n's string down to position k: they
\* form a connected part of the network, which is what routing by levels
\* relies on.
Subtree(n, k) ==
  {m \in clustering.of[n] :
     \A i \in k .. clustering.len[n] : i \in clustering.bits[m] <=> i \in clustering.bits[n]}
SubtreesConnected ==
  \A n \in N : \A k \in 0 .. clustering.len[n] : ConnectedSet(Subtree(n, k))

\* In a connected network that MAXITER rounds are enough for (n nodes take n - 1
\* of them) all nodes end in one cluster; their VIDs differ if they fit at all.
UniqueIfConnected ==
  done /\ ConnectedSet(N) /\ Cardinality(N) <= MAXITER + 1 =>
    /\ Cardinality(Clusters(clustering)) = 1
    /\ Fits(clustering) =>
         \A m, n \in N : m # n => NodeVID(clustering, m) # NodeVID(clustering, n)
=============================================================================
