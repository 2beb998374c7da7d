SPECIFICATION PartSpec
CONSTANTS
  Modes <- BothModes
  Total = 5
  ChunkSize = 2
  Drivers <- MCDrivers
  MaxRuns = 3
  LineKinds <- MCTableKinds
  MaxPieces = 6
  HeapBlocks = 8
INVARIANT FinalPanesAgree
CHECK_DEADLOCK FALSE
