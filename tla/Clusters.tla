------------------------------ MODULE Clusters ------------------------------
(***************************************************************************)
(* The algorithm of networkTopoVIDAssignment.cc, performVIDAssignment: the *)
(* reported interfaces are clustered, the smallest cluster with its        *)
(* smallest neighbour, until one is left; each joining puts one bit in     *)
(* front of the VIDs of both.                                              *)
(*                                                                         *)
(* The bit string of a node is given by its length and the set of the      *)
(* positions of its ones, counted from the right: zeros in front change    *)
(* the length alone.  Hash tables are walked in any order, so any smallest *)
(* cluster may be taken, except that the cluster of the node with id 0 is  *)
(* looked at first.                                                        *)
(***************************************************************************)
EXTENDS Integers, FiniteSets

CONSTANTS VidLen,    \* 32, the bits of the switch part of a VID
          SuffixLen, \* 2, the zeros at its end, if there is room
          MAXITER    \* 5000, the rounds after which the loop gives up

ASSUME ClusterAssumption ==
  VidLen \in Nat /\ SuffixLen \in Nat /\ SuffixLen <= VidLen /\ MAXITER \in Nat

\* The positions of the ones of a VID the algorithm makes.
NodeVIDs == SUBSET (0 .. VidLen - 1)

\* A graph g: a node's neighbours among the nodes of g.
Graph(N) == {g \in [N -> SUBSET N] : \A m, n \in N : m \in g[n] <=> n \in g[m]}

\* Mutant: the strings are empty at first.
StartEmpty(N, z) == [of   |-> [n \in N |-> {n}],
                     len  |-> [n \in N |-> 0],
                     bits |-> [n \in N |-> {}],
                     zero |-> z]

\* A clustering: of[n] is the cluster of n, len[n] and bits[n] its bit string,
\* zero the node with id 0.
Start(N, z) == [of   |-> [n \in N |-> {n}],
                len  |-> [n \in N |-> 1],
                bits |-> [n \in N |-> {0}],
                zero |-> z]

Clusters(c) == {c.of[n] : n \in DOMAIN c.of}

Smaller(C, D) == Cardinality(C) < Cardinality(D)

Smallest(c) ==
  LET least == {C \in Clusters(c) : \A D \in Clusters(c) : ~ Smaller(D, C)}
  IN  IF c.of[c.zero] \in least THEN {c.of[c.zero]} ELSE least

\* Mutant: any other cluster will do.
NearAny(c, g, C) == Clusters(c) \ {C}

\* The clusters next to C, and the smallest of them.
Near(c, g, C)    == {c.of[n] : n \in UNION {g[m] : m \in C}} \ {C}
Seconds(c, g, C) == {D \in Near(c, g, C) : \A E \in Near(c, g, C) : ~ Smaller(E, D)}

\* Mutant: the shorter strings are not padded.
JoinedUnpadded(c, C, D) ==
  [c EXCEPT
     !.of   = [n \in DOMAIN c.of |-> IF n \in C \cup D THEN C \cup D ELSE c.of[n]],
     !.len  = [n \in DOMAIN c.of |-> IF n \in C \cup D THEN c.len[n] + 1 ELSE c.len[n]],
     !.bits = [n \in DOMAIN c.of |-> IF n \in C THEN c.bits[n] \cup {c.len[n]} ELSE c.bits[n]]]

\* Strings are padded to equal length; C gets a one in front and D a zero.
MaxLen(c, S) == CHOOSE l \in {c.len[n] : n \in S} : \A n \in S : c.len[n] <= l
Joined(c, C, D) ==
  LET l == MaxLen(c, C \cup D)
  IN  [c EXCEPT
         !.of   = [n \in DOMAIN c.of |-> IF n \in C \cup D THEN C \cup D ELSE c.of[n]],
         !.len  = [n \in DOMAIN c.of |-> IF n \in C \cup D THEN l + 1 ELSE c.len[n]],
         !.bits = [n \in DOMAIN c.of |-> IF n \in C THEN c.bits[n] \cup {l} ELSE c.bits[n]]]

\* A round that does not break joins two clusters, so the joinings count the
\* rounds (c_iter).
Joinings(c) == Cardinality(DOMAIN c.of) - Cardinality(Clusters(c))

\* Mutant: the last round allowed is not made.
GoesOneLess(c) == Joinings(c) + 1 < MAXITER /\ Cardinality(Clusters(c)) > 1

\* The loop's condition.
Goes(c) == Joinings(c) < MAXITER /\ Cardinality(Clusters(c)) > 1

\* One round of the loop, unless it breaks: the smallest cluster may have no
\* neighbour at all.
Rounds(c, g) ==
  IF ~ Goes(c) THEN {}
  ELSE {Joined(c, p[1], p[2]) :
          p \in UNION {{C} \X Seconds(c, g, C) : C \in Smallest(c)}}
Breaks(c, g) == \/ ~ Goes(c)
                \/ \E C \in Smallest(c) : Seconds(c, g, C) = {}

\* Mutant: the zeros at the end never give way.
SuffixFixed(c) == SuffixLen

\* The VIDs: the zeros at the end give way to a string that is too long, and a
\* string that is longer than a VID makes the whole assignment fail.
Fits(c) == c.len[c.zero] <= VidLen
Suffix(c) ==
  IF c.len[c.zero] <= VidLen - SuffixLen THEN SuffixLen ELSE VidLen - c.len[c.zero]
NodeVID(c, n) == {i + Suffix(c) : i \in c.bits[n]} \cap (0 .. VidLen - 1)
=============================================================================
