SPECIFICATION FairSpec
CONSTANTS
  p1 = p1
  f1 = f1
  f2 = f2
  i1 = i1
  a1 = a1
  a2 = a2
  Parser = {p1}
  Fetcher = {f1, f2}
  LocalFetcher = {f1, f2}
  Indexer = {i1}
  Prompt = TRUE
  Account = {a1, a2}
  Prefers <- MCPrefers
  MaxCalls = 2
  MaxFaults = 2
INVARIANTS
  RegisteredIsFetched
  FewIndexers
PROPERTIES
  DiscoveredIsKnown
CHECK_DEADLOCK FALSE
