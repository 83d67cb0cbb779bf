SPECIFICATION FairSpec
CONSTANTS
  NoName = NoName
  Worlds <- AllWorlds
  DynamicKinds <- MCDynamicKinds
  MaxChanges = 3
  MaxResyncs = 1
  MaxFaults = 1
  FaultKinds = {"restart", "batch", "loss"}
INVARIANTS
  TypeOK
  NothingMissing
  NothingStale
  OwnersOfSettled
  HandlersCommute
PROPERTY EventuallyCurrent
CHECK_DEADLOCK FALSE
