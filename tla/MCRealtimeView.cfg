SPECIFICATION FairViewSpec
INVARIANTS ViewTypeOK MicrophoneOnlyListening NothingLeftBehind ClearSticks
PROPERTIES StoppedIsConfirmed StopEnds
CONSTANTS
  Sockets = {s1, s2}
  NoSocket = NoSocket
  Durations = {2, 4}
  SampleCount <- TwoPerChunk
  Encodings = {"pcm_f32le"}
  Settings <- StudioSettings
  Candidates = {}
  MaxSpoken = 2
  MaxTakes = 2
  MaxWaiting = 1
  MaxAnswers = 2
CHECK_DEADLOCK FALSE
