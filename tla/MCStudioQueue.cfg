SPECIFICATION QueueSpec
INVARIANTS OneJobPerEffort
CONSTANTS
  Contents = {"x"}
  Outcomes = {"succeeded"}
  Outsiders = {}
  NoData = NoData
  NoRetry = NoRetry
  MaxJobs = 3
  MaxCalls = 1
  MaxKeys = 2
  MaxRev = 0
CHECK_DEADLOCK FALSE
