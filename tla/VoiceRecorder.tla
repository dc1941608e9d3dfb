---------------------------- MODULE VoiceRecorder ----------------------------
(***************************************************************************)
(* The microphone recorder of the Voices page (VoiceRecorder.tsx).  It is  *)
(* mounted while the panel shows it; the browser may grant the microphone  *)
(* after it is gone, which the generation tells (here: whose request it    *)
(* is, that of the recorder that is mounted or of one that is not).        *)
(***************************************************************************)
VARIABLES
  recorder,   \* "idle", "asking", "recording", "stopping": the recorder that is mounted
  asked,      \* owners of getUserMedia() requests on their way: "mounted", "gone"
  open        \* owners of microphone streams that are open

recorderVars == <<recorder, asked, open>>

RecorderInit == recorder = "idle" /\ asked = {} /\ open = {}

StartRecording == /\ recorder = "idle"
                  /\ recorder' = "asking" /\ asked' = asked \cup {"mounted"}
                  /\ UNCHANGED open

\* The microphone is granted: a request of an earlier generation stops the tracks.
AnyGeneration(owner) == TRUE
SameGeneration(owner) == owner = "mounted"
Granted(owner) ==
  /\ owner \in asked /\ asked' = asked \ {owner}
  /\ IF SameGeneration(owner) THEN open' = open \cup {owner} ELSE UNCHANGED open
  /\ IF owner = "mounted" THEN recorder' = "recording" ELSE UNCHANGED recorder

Denied(owner) == /\ owner \in asked /\ asked' = asked \ {owner}
                 /\ IF owner = "mounted" THEN recorder' = "idle" ELSE UNCHANGED recorder
                 /\ UNCHANGED open

\* stop(), by the user or after a minute; the audio comes with the stop event.
StopRecording == recorder = "recording" /\ recorder' = "stopping" /\ UNCHANGED <<asked, open>>

\* releaseRecorder() at the stop event, or at an error of the recorder.
Released == recorder' = "idle" /\ open' = open \ {"mounted"} /\ UNCHANGED asked
RecorderStopped == recorder = "stopping" /\ Released
RecorderFailed  == recorder \in {"recording", "stopping"} /\ Released

\* The panel shows something else, or the page is left.
Unmounted == /\ recorder' = "idle" /\ open' = open \ {"mounted"}
             /\ asked' = IF "mounted" \in asked THEN {"gone"} ELSE asked

-----------------------------------------------------------------------------
\* The microphone is open only for a recorder that is shown and recording, also when
\* permission comes after the user went elsewhere.
MicrophoneOnlyRecording == open # {} => open = {"mounted"} /\ recorder \in {"recording", "stopping"}
=============================================================================
