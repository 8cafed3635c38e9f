CONSTANTS
  VidBits = 4
  HostBits = 0
  MaxPerBucket = 3
  MaxGateways = 3
  MaxTTL = 5
  MaxInFlight = 1
  MaxDrift = 1
  MaxBusy = 1
  MaxCrashes = 1
  LateStarts <- NoneLate
  Switches <- MCSwitches
  Adjacent <- MCAdjacent
  Flows <- MCFlows
SPECIFICATION Spec
CHECK_DEADLOCK FALSE
INVARIANTS
  TypeOK
  TableSound
  RdvEdgesSound
  StaysInSubtree
