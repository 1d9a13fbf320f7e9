SPECIFICATION FairSpec
CONSTANTS
  a = a
  b = b
  none = none
  Key = {a, b}
  Val <- Vals
  None = none
  Proc <- Procs
  Kind <- Kinds
  Batch <- Batches
  Check <- United
  IndexOf <- Same
  Locking <- StoreOrIds
  Reader = {"reader"}
  MaxFaults = 1
INVARIANTS
  IndexAgrees
  CountIsExact
  LockedStreamIsExact
PROPERTIES
  ImplementsAtomicStore
