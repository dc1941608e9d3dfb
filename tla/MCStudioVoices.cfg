SPECIFICATION Spec
INVARIANTS CreatedAsReviewed OneVoicePerRecording MicrophoneOnlyRecording
CONSTRAINT OneForm
CONSTANTS
  Uploads = {"file"}
  Locals = {"local"}
  Cuts = {"whole", "part"}
  Quality <- Judgement
  NoData = NoData
  NoDraft = NoDraft
  MaxVoices = 2
  MaxCalls = 1
  MaxVersions = 1
CHECK_DEADLOCK FALSE
