CONSTANTS
  Switches <- LineSwitches
  Macs <- LineMacs
  Links <- LineLinks
  VCCs <- OneVCC
  Distance <- LineDistance
  vccmac <- Server0
  CostMod = 8
  MaxCost = 4
  MaxInFlight = 0
  VidLen = 4
  SuffixLen = 1
  MAXITER = 5000
  MAX_TTL = 3
SPECIFICATION SteadySpec
PROPERTY Distributed
INVARIANTS
  ParentCloser
