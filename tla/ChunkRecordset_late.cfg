CONSTANTS
  MaxRows = 4
  SizeUpTo <- Sizes
  ChunkSize = 2
  MaxQueries = 2
  MaxDrops = 1
SPECIFICATION FairSpec
INVARIANTS RowsArrive RunOnce
PROPERTY EndsForGood
