SPECIFICATION FairSpec
INVARIANTS TypeOK BufferBound NoSampleLost ClearForgets ClosedIsLast
PROPERTIES CloseEnds
CONSTANTS
  Sockets = {s1}
  Durations = {1, 4, 7, 10}
  SampleCount <- CountOf
  Encodings = {"pcm_f32le", "pcm_s16le"}
  Settings <- ServerSettings
  Candidates <- Requests
  MaxSpoken = 4
  MaxTakes = 2
  MaxWaiting = 2
  MaxAnswers = 4
CHECK_DEADLOCK FALSE
