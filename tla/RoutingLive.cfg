CONSTANTS
  VidBits = 3
  HostBits = 0
  MaxGw = 2
  Switches <- LineSwitches
  Macs <- LineMacs
  Links <- LineLinks
  ConfigVID <- LineVID
  UseStatic = TRUE
  Assignable <- NoneAssignable
  ActiveBits = 3
  MaxTTL = 4
  MaxInFlight = 0
SPECIFICATION StableSpec
INVARIANT MultipathStaysNear
PROPERTY Convergence
