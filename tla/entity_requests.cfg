SPECIFICATION FairSpec
CONSTANTS
  MaxNonce = 2
  Id = {a}
  Offers <- WideOffers
  Worker = worker
  NoNonce = noNonce
  FaultKinds = {"crash", "store", "rpc", "drain"}
  MaxFaults = 1
INVARIANTS
  IInv
  CompleteIsAnswered
  MissingIsPending
PROPERTIES
  NoEarlyFilter
  ImplementsBoard
  ServedUnlessPoisoned
  CallsReturn
