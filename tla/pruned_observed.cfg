SPECIFICATION PrunedSpec
CONSTANTS
  container = 1
  endpoint = 2
  calls = calls
  Emitter <- MCEmitter
  Rel <- MCRel
  Label <- MCLabel
  Link <- MCLink
  TTL = 1
  ChunkSize = 4
  MaxTime = 3
  MaxFaults = 0
  FaultKinds = {}
  Older = 2
INVARIANT DroppedWasUnseen
