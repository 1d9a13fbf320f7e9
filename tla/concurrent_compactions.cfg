SPECIFICATION CompactionSpec
CONSTANTS
  LastDate = 5
  ChunkTimeframe = 0
  Merger = {job, api}
SYMMETRY MergerSymmetry
PROPERTIES
  CoverageKept
