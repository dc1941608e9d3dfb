SPECIFICATION ViewSpec
PROPERTIES IdleIsConfirmed
CONSTANTS
  Sockets = {s1}
  NoSocket = NoSocket
  Durations = {2, 4}
  SampleCount <- TwoPerChunk
  Encodings = {"pcm_f32le"}
  Settings <- StudioSettings
  Candidates = {}
  MaxSpoken = 3
  MaxTakes = 2
  MaxWaiting = 1
  MaxAnswers = 2
CHECK_DEADLOCK FALSE
