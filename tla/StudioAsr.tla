------------------------------ MODULE StudioAsr ------------------------------
(***************************************************************************)
(* The Transcribe page over the transcription queue.                       *)
(***************************************************************************)
EXTENDS TranscribeView

asrVars == <<page, jobs, list, calls, lock, retry, effort, drawn, staged, language, accepted,
             preference>>

AsrInit == JobsInit /\ jobs = <<>> /\ TranscribeInit

OpenTranscribe == Navigate("transcribe") /\ TranscribeOpens
LeaveTranscribe == Navigate("other") /\ TranscribeLeft

AsrNext == \/ TranscribeSteps
           \/ (Queue \/ ListSteps) /\ UNCHANGED transcribeVars
           \/ OpenTranscribe \/ LeaveTranscribe

AsrSpec == AsrInit /\ [][AsrNext]_asrVars

-----------------------------------------------------------------------------
\* An upload that is accepted takes away the recording that was uploaded, never another one
\* that was staged while it was on its way.
AcceptedTakesItsOwn ==
  [][\A c \in calls :
       (c.op = "create" /\ c.held /\ c.st = "answered" /\ c \notin calls' /\ accepted'.job = c.job)
         => staged \in {c.what.file, NoFile}]_asrVars
=============================================================================
