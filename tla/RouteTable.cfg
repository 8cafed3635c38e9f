CONSTANTS
  VidBits = 2
  HostBits = 1
  MaxGw = 3
  Ports = {0, 1}
  Vias <- MCVias
SPECIFICATION FairSpec
INVARIANTS
  TypeOK
  ValidPrefix
  RoundRobinReturnsValid
  DefaultIsFirst
  ValidArmed
PROPERTY RoutesAgeOut
