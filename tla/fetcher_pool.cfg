SPECIFICATION FairSpec
CONSTANTS
  a = a
  b = b
  i = i
  Id = {a, b}
  Peer = {i}
  Pool <- OnePool
  ChunkSize <- One
  Concurrency <- Two
  Coupled = {b}
  Depth = 2
  MaxCalls = 2
  MaxFaults = 1
INVARIANTS
  OneLoopEach
  StopsOnlyWhenEmpty
PROPERTIES
  HistoriesComplete
CHECK_DEADLOCK FALSE
