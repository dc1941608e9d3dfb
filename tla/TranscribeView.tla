--------------------------- MODULE TranscribeView ---------------------------
(***************************************************************************)
(* The Transcribe page (TranscribeView.tsx): a recording is staged, queued *)
(* with a retry key for file and language, and let go of when the server   *)
(* has accepted it.  A file that is empty or of another kind is as none;   *)
(* previews and the editor (TranscriptReview) are left out.                *)
(***************************************************************************)
EXTENDS StudioJobs

CONSTANTS Files, NoFile, Languages,
          Recognised    \* languages the runtime is configured for

ASSUME FilesAssumption == NoFile \notin Files
ASSUME RecognisedAssumption == Recognised \subseteq Languages

VARIABLES
  staged,      \* selectedFile
  language,    \* selectedLanguage
  accepted,    \* uploadMutation.data: the job as it was accepted, or none
  preference   \* the language remembered in localStorage

transcribeVars == <<staged, language, accepted, preference>>

Requests == [file : Files, language : Languages]
ASSUME RequestsAssumption == Requests \subseteq Contents
NothingAccepted == [job |-> 0, seen |-> Absent]

TranscribeInit == /\ staged = NoFile /\ language \in Languages /\ accepted = NothingAccepted
                  /\ preference = language

-----------------------------------------------------------------------------
OnTranscribe == page = "transcribe"
Uploading == Followed("transcribe", "create") # {}

\* stageAudioFile(): choosing, dropping or removing a recording starts over, and waits until
\* an upload on its way is answered.
AtAnyTime == TRUE
CanStage == ~Uploading
Stage(f) ==
  /\ OnTranscribe /\ CanStage
  /\ staged' = f /\ accepted' = NothingAccepted
  /\ retry' = [retry EXCEPT !["transcribe"] = NoRetry]
  /\ effort' = [effort EXCEPT !["transcribe"] = NoRetry]
  /\ UNCHANGED <<page, jobs, list, calls, lock, drawn, language, preference>>

\* handleLanguageSelect() stays possible during an upload.
SelectLanguage(l) == /\ OnTranscribe /\ l # language
                     /\ language' = l /\ preference' = l
                     /\ UNCHANGED <<jobVars, staged, accepted>>

\* queueSelectedFile()
QueueSelectedFile ==
  /\ OnTranscribe /\ staged # NoFile
  /\ language \in Recognised /\ ~Uploading
  /\ LET r == [file |-> staged, language |-> language] IN Submit("transcribe", r, r)
  /\ accepted' = NothingAccepted
  /\ UNCHANGED <<page, jobs, list, staged, language, preference>>

\* The recent transcripts: Cancel is disabled for all of them while one is being cancelled.
CancelTranscription(i) == /\ OnTranscribe /\ Shown(i).status = "live"
                          /\ Followed("transcribe", "cancel") = {}
                          /\ Send(Call("transcribe", "cancel", i))
                          /\ UNCHANGED <<page, jobs, list, lock, retry, effort, drawn>>
                          /\ UNCHANGED transcribeVars

\* sendTranscriptToGenerate(): the text (GenerateOpens) and its language are left for the page
\* that opens.
SendToGenerate(i) == /\ OnTranscribe /\ Shown(i).status = "succeeded"
                     /\ Navigate("other")
                     /\ preference' = jobs[i].what.language
                     /\ staged' = NoFile /\ accepted' = NothingAccepted /\ UNCHANGED language

-----------------------------------------------------------------------------
\* Answers.

OfTranscribe(c, op) == c.page = "transcribe" /\ c.op = op

\* uploadMutation.onSuccess; what is set belongs to the page that sent the call.
UploadAccepted(c) ==
  /\ OfTranscribe(c, "create") /\ Succeeds(c)
  /\ Accepted(c)
  /\ list' = Refreshed(Prepended(list, c.job, c.seen))
  /\ IF c.held THEN staged' = NoFile /\ accepted' = [job |-> c.job, seen |-> c.seen]
     ELSE UNCHANGED <<staged, accepted>>
  /\ UNCHANGED <<page, jobs, drawn, language, preference>>

UploadFailed(c) == /\ OfTranscribe(c, "create") /\ Errs(c)
                   /\ Rejected(c)
                   /\ UNCHANGED <<page, jobs, list, effort, drawn>> /\ UNCHANGED transcribeVars

Cancelled(c) == /\ OfTranscribe(c, "cancel") /\ Succeeds(c)
                /\ calls' = calls \ {c} /\ list' = Refreshed(list)
                /\ UNCHANGED <<page, jobs, lock, retry, effort, drawn>> /\ UNCHANGED transcribeVars
CancelFailed(c) == /\ OfTranscribe(c, "cancel") /\ Errs(c)
                   /\ calls' = calls \ {c}
                   /\ UNCHANGED <<page, jobs, list, lock, retry, effort, drawn>>
                   /\ UNCHANGED transcribeVars

TranscribeSteps ==
  \/ \E f \in Files \cup {NoFile} : Stage(f)
  \/ \E l \in Languages : SelectLanguage(l)
  \/ QueueSelectedFile
  \/ \E i \in JobIds : CancelTranscription(i) \/ SendToGenerate(i)
  \/ \E c \in calls : UploadAccepted(c) \/ UploadFailed(c) \/ Cancelled(c) \/ CancelFailed(c)

\* The page opens with the language that was used last, anywhere.
TranscribeOpens == /\ staged' = NoFile /\ accepted' = NothingAccepted
                   /\ language' = preference /\ UNCHANGED preference
TranscribeLeft  == /\ staged' = NoFile /\ accepted' = NothingAccepted
                   /\ UNCHANGED <<language, preference>>
=============================================================================
