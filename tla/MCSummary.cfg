SPECIFICATION PartSpec
CONSTANTS
  Targets = {2}
  MaxStarts = 2
  MaxAttempts = 4
  Plan <- MCPlan
  Work <- MCWork
  LongTask = 5
  TopLimit = 2
  Null = null
INVARIANT FirstValidAreCounted
CHECK_DEADLOCK FALSE
