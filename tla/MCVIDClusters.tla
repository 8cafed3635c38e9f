--------------------------- MODULE MCVIDClusters ----------------------------
EXTENDS VIDClusters, TLC

\* The algorithm does not look at the MACs themselves.
AllNodesAlike == Permutations(Nodes)
=============================================================================
