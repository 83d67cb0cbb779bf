SPECIFICATION Spec
CONSTANTS
  NoName = NoName
  Worlds <- DeployedWorld
  DynamicKinds <- MCDynamicKinds
  MaxChanges = 2
  MaxResyncs = 0
  MaxFaults = 0
  FaultKinds = {}
INVARIANT NoEdgeToDeletedPod
CHECK_DEADLOCK FALSE
