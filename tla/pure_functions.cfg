SPECIFICATION Spec
CONSTANTS
  LastInstant = 4
  MaxItems = 5
  LastValue = 3
  Null = Null
  Failure = Failure
INVARIANTS
  RangesAreExact
  KeysAreExact
  StreamsAreExact
  RequestsAreLimited
  AnswersAreExact
  PaceIsKept
  CallsMeet
CHECK_DEADLOCK FALSE
