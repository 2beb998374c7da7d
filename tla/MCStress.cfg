SPECIFICATION PartSpec
CONSTANTS
  VisibleWindow = 4
  DomLimit = 9
  Matrix <- MCMatrix
  Used <- AllCollectors
  Inputs <- MCInputs
  MaxRuns = 2
  Scenario <- MCScenario
  PhaseCount = 2
  LaneCount = 3
  MaxClicks = 3
INVARIANTS
  ResultsCoverTheMatrix
  ComparedAlike
  TranscriptIsSound
  AcceptedIsOneSend
\* Nobody has to click, or to run a collector.
CHECK_DEADLOCK FALSE
