CONSTANTS
  VidBits = 2
  HostBits = 0
  MaxPerBucket = 3
  MaxGateways = 3
  MaxTTL = 4
  MaxInFlight = 1
  MaxDrift = 1
  MaxBusy = 3
  MaxCrashes = 1
  LateStarts <- ShortLate
  Switches <- ShortSwitches
  Adjacent <- ShortAdjacent
  Flows <- NoFlows
SPECIFICATION FairSpec
CHECK_DEADLOCK FALSE
INVARIANTS
  FailureNeedsRefusal
PROPERTIES
  TablesComplete
  StaleGatewaysExpire
