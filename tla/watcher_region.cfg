SPECIFICATION Spec
CONSTANTS
  NoName = NoName
  Worlds <- ZonedWorld
  DynamicKinds <- MCDynamicKinds
  MaxChanges = 2
  MaxResyncs = 0
  MaxFaults = 0
  FaultKinds = {}
INVARIANT RegionContainsZone
CHECK_DEADLOCK FALSE
