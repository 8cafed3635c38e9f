CONSTANTS
  IPs = {ip1, ip2, ip3}
  MACs = {m1, m2}
  Ports = {0, 1}
  SwitchVIDs = {s1, s2}
  NumIds = 2
SPECIFICATION Spec
INVARIANTS
  TypeOK
  HostVIDsUnique
  TablesAgree
  OneTimerPerHost
PROPERTIES
  ImplementsRegistry
