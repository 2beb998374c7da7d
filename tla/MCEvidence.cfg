SPECIFICATION PartSpec
CONSTANTS
  Targets = {1, 2}
  MaxStarts = 3
  MaxAttempts = 4
  Plan <- MCPlan
  Work <- MCWork
  LongTask = 5
  TopLimit = 2
  Null = null
INVARIANTS
  CommittedAreCounted
  ReportIsOfTheTrace
PROPERTY RecordedRunsAreKept
\* A session is over, and a trace is written, at some time.
CHECK_DEADLOCK FALSE
