SPECIFICATION FairEditorSpec
PROPERTIES NoBlindOverwrite SettledShown
CONSTANTS
  Contents = {"x"}
  Outcomes = {"succeeded"}
  Outsiders = {"revise", "delete"}
  NoData = NoData
  NoRetry = NoRetry
  MaxJobs = 1
  MaxCalls = 2
  MaxKeys = 0
  MaxRev = 2
CHECK_DEADLOCK FALSE
