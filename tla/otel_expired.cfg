SPECIFICATION Spec
CONSTANTS
  c1 = c1
  c2 = c2
  endpoint = endpoint
  topic = topic
  calls = calls
  publishes = publishes
  Emitter <- MCEmitter
  Rel <- MCRel
  Label <- MCLabel
  Link <- TwoLinks
  TTL = 1
  ChunkSize = 4
  MaxTime = 4
  MaxFaults = 1
  FaultKinds = {"fail"}
INVARIANT ExpiredIsGone
