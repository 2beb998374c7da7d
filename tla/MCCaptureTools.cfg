SPECIFICATION PartSpec
CONSTANTS
  Method = {tracingComplete, other}
  MaxCalls = 2
  MaxWaits = 3
  MaxEvents = 2
  Stray = 9
  Faults <- MCFaults
  MaxPolls = 1
  MaxSignals = 2
  Enabled = {TRUE, FALSE}
  EarlierLoops = {0, 1}
  Seconds = 1
  MinFps = 2
  MaxFps = 3
  MaxFrames = 4
  MaxChanges = 4
INVARIANTS
  SuccessIsWhole
  EveryExitCleansUp
  UsableMeansSeen
PROPERTIES
  ImplementsCalls
  EveryRunEnds
\* A capture and its probe come to an end.
CHECK_DEADLOCK FALSE
