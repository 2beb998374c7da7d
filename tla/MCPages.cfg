SPECIFICATION PartSpec
CONSTANTS
  Modes <- BothModes
  Total = 5
  ChunkSize = 2
  Drivers <- MCDrivers
  MaxRuns = 3
  LineKinds <- MCLineKinds
  MaxPieces = 6
  HeapBlocks = 8
INVARIANTS
  UrgentsKeepTheirOrder
  StablePaneIsSound
PROPERTIES
  ImplementsMeasuredRun
  HeavyWorkCompletes
  PassedBlocksStay
\* Runs are over, and texts complete, at some time.
CHECK_DEADLOCK FALSE
