SPECIFICATION FairSpec
CHECK_DEADLOCK FALSE
CONSTANTS
  a = a
  i = i
  j = j
  Id = {a}
  Peer = {i, j}
  Pool <- Pools
  ChunkSize <- SmallChunks
  Concurrency <- OneByOne
  Call <- TwoCalls
  AsksFor <- SameId
  PeerOf <- TwoCallers
  MaxQueueSize = 4
  Existing = {a}
  FaultKinds = {"crash", "remote", "parse"}
  MaxFaults = 1
  MaxCalls = 2
INVARIANTS
  NothingForgotten
PROPERTIES
  CallsAreAnswered
