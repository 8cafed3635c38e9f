CONSTANTS
  Switches <- LineSwitches
  Macs <- LineMacs
  Links <- LineLinks
  VCCs <- OneVCC
  Distance <- LineDistance
  CostMod = 10
  MaxCost = 6
  MaxInFlight = 0
SPECIFICATION StaleSpec
PROPERTY Stabilizes
