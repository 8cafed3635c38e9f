CONSTANTS
  Nodes = {n1, n2, n3, n4, n5}
  VidLen = 4
  SuffixLen = 2
  MAXITER = 4
SPECIFICATION Spec
SYMMETRY AllNodesAlike
INVARIANTS
  TypeOK
  DistinctInCluster
  SubtreesConnected
  UniqueIfConnected
CHECK_DEADLOCK FALSE
