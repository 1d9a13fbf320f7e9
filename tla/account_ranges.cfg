SPECIFICATION MCSpec
CONSTANTS
  LastDate = 2
  ChunkTimeframe = 1
  Merger = {job}
  MaxNonce = 3
  NoNonce = noNonce
  SlowReads = {FALSE}
  FaultKinds = {"crash", "rpc", "domain"}
  MaxFaults = 1
  LongLastDate = 5
  LongMerger = {longJob, longApi}
SYMMETRY MCSymmetry
CONSTRAINT Unnested
INVARIANTS
  ReadyHasRequest
  NothingFetchedTwice
PROPERTIES
  ApartMergesKeepCoverage
  LongKeepsCoverage
