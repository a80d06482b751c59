SPECIFICATION AshmemSpec
CONSTANTS
  heap = heap
  bitmap = bitmap
  Area <- MCArea
  Sizes <- MCSizes
  MaxRanges = 2
INVARIANTS
  RangesSorted
  LruExact
  PurgeIsReported
  OnlyUnpinnedDropped
CHECK_DEADLOCK FALSE
CONSTRAINT OneFails
