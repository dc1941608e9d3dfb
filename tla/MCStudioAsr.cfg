SPECIFICATION AsrSpec
INVARIANTS OneJobPerEffort
PROPERTIES AcceptedTakesItsOwn
CONSTANTS
  Files = {"a", "b"}
  NoFile = NoFile
  Languages = {"vi", "en"}
  Recognised = {"vi", "en"}
  Contents <- AllRequests
  Outcomes = {"succeeded"}
  Outsiders = {}
  NoData = NoData
  NoRetry = NoRetry
  MaxJobs = 2
  MaxCalls = 1
  MaxKeys = 2
  MaxRev = 0
CHECK_DEADLOCK FALSE
