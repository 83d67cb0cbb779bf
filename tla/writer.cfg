SPECIFICATION FairSpec
CONSTANTS
  pod = pod
  node = node
  Id <- MCId
  Edge <- MCEdge
  Field = {label}
  Value = {v}
  NoValue = NoValue
  Handler = {h1, h2}
  BatchSize = 5
  MaxCalls = 3
  MaxFaults = 1
  FaultKinds = {"fail", "replay"}
INVARIANTS
  TypeOK
  LagIsTheBuffer
  BufferBounded
  ClosedIsDrained
PROPERTIES
  ImplementsLateWriter
  ShowsWholeCalls
  EventuallyWritten
  CloseReturns
CHECK_DEADLOCK FALSE
