SPECIFICATION FairSpec
CONSTANTS
  LastDate = 1
  ChunkTimeframe = 0
  Merger = {job}
  MaxNonce = 3
  NoNonce = noNonce
  SlowReads = {FALSE, TRUE}
  FaultKinds = {"crash", "rpc", "domain"}
  MaxFaults = 1
INVARIANTS
  HandledOnce
PROPERTIES
  CatchesUp
