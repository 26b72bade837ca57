SPECIFICATION PipeliningSpec
CONSTANTS
  MaxSize = 4
  MaxRate = 12
  MaxLen = 30
  MaxPipeline = 4
INVARIANTS RateMet LargestBatch
