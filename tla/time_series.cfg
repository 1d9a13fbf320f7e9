SPECIFICATION FairStatsSpec
CONSTANTS
  TimeFrames <- HourToAll
  Size <- Sizes
  Oldest = 1
  Newest = 14
  Chunks <- UnevenChunks
  Event = {1, 2, 4, 5, 9, 10, 11, 14}
  StartDate = 0
  NewestFirst = FALSE
  BatchSize = 4
  MaxCrashes = 1
INVARIANTS
  RecordedIsExact
PROPERTIES
  EventuallyRecorded
