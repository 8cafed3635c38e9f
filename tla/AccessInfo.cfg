CONSTANTS
  Switches = {"A", "B"}
  Interfaces = {"a1", "a2", "b1"}
  SwitchOf <- MCSwitchOf
  IPs = {"h", "p"}
  Places <- MCPlaces
  Talks <- MCTalks
  NumIds = 1
  AccessOf <- MCAccessOf
  MaxInFlight = 1
SPECIFICATION FairSpec
INVARIANTS
  TypeOK
  MisdeliveryNeedsSharedPlace
PROPERTIES
  ImplementsDirectory
  DirectoryFollows
  PacketsFollow
