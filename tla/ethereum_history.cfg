SPECIFICATION FairSpec
CONSTANTS
  Fetcher <- Fetchers
  Once <- Pooled
  Last = 4
  AllHistoric = TRUE
  Ours = {0, 1, 4}
  MinHeight = 0
  PageLimit <- TwoAPage
  RunLimit <- OneOrTwoPages
  FaultKinds = {"rpc", "crash", "overlap", "pool"}
  MaxFaults = 1
INVARIANTS
  NoGaps
  CompleteIsWhole
PROPERTIES
  BlocksComplete
