CONSTANTS
  VidBits = 2
  HostBits = 0
  MaxGw = 2
  Switches <- TwoSwitches
  Macs <- TwoMacs
  Links <- TwoLinks
  ConfigVID <- TwoVID
  UseStatic = TRUE
  Assignable <- TwoAssignable
  ActiveBits = 2
  MaxTTL = 4
  MaxInFlight = 0
SPECIFICATION Spec
INVARIANTS
  TypeOK
  RouteLevels
  NeverMovesAway
  GatewaysReachLevel
  AssignedResolves
