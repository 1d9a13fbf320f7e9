SPECIFICATION FairSpec
CONSTANTS
  Fetcher <- OneFetcher
  Once <- OneFetcher
  Last = 9
  AllHistoric = FALSE
  SlotOf <- TwoASlot
  Failing = {2, 5, 6}
  PageSize = 2
  OwnFrom = 4
  FaultKinds = {"rpc", "crash", "empty", "pool", "overlap"}
  MaxFaults = 3
INVARIANTS
  RangeIsStored
  CompleteIsWhole
PROPERTIES
  HistoryCompletes
