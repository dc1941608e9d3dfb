SPECIFICATION FairTtsSpec
INVARIANTS OneJobPerEffort
PROPERTIES NoSecondRender RenderShown
CONSTANTS
  v1 = v1
  v2 = v2
  Scripts <- SomeScripts
  Voices = {v1, v2}
  NoVoice = NoVoice
  Tongues = {"vi", "en"}
  Modes = {"preview"}
  DefaultMode = "preview"
  NativeTongue <- Native
  Configured = {"vi"}
  VoiceLists <- Lists
  Contents <- AllContents
  Outcomes = {"succeeded"}
  Outsiders = {}
  NoData = NoData
  NoRetry = NoRetry
  MaxJobs = 2
  MaxCalls = 1
  MaxRev = 0
  MaxKeys = 3
CHECK_DEADLOCK FALSE
