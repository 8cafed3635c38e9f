CONSTANTS
  Switches <- PairSwitches
  Macs <- PairMacs
  Links <- PairLinks
  VCCs <- OneVCC
  Distance <- PairDistance
  vccmac <- Server0
  CostMod = 8
  MaxCost = 3
  MaxInFlight = 0
  VidLen = 4
  SuffixLen = 1
  MAXITER = 5000
  MAX_TTL = 3
SPECIFICATION Spec
VIEW AllButVids
INVARIANTS
  TypeOK
  TopologySound
  CostNotBelowDistance
