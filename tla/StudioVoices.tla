---------------------------- MODULE StudioVoices ----------------------------
(***************************************************************************)
(* The Voices page with its recorder over the voice library, among the     *)
(* other pages, which may choose another voice, and other tabs.            *)
(***************************************************************************)
EXTENDS VoicesView

vars == <<library, version, calls, recorder, asked, open,
          shown, list, selected, panel, staged, draft, editing, target>>

VoicesInit == /\ PageInit /\ RecorderInit
              /\ library = <<>> /\ version = [c \in Clips |-> 0] /\ calls = {}

\* The recorder reports to the page: a start drops the file, a stop that captured audio stages it.
Recording ==
  /\ shown /\ panel = "record"
  /\ UNCHANGED <<shown, list, selected, panel, draft, editing, target>> /\ UNCHANGED storeVars
  /\ \/ draft = NoDraft /\ target = 0 /\ StartRecording /\ UNCHANGED staged
     \/ StopRecording /\ UNCHANGED staged           \* by the user, or after a minute
     \/ Granted("mounted") /\ staged' = NoClip
     \/ (Denied("mounted") \/ RecorderFailed) /\ UNCHANGED staged
     \/ \E clip \in Uploads \cup {staged} : RecorderStopped /\ staged' = clip
LateAnswer == (Granted("gone") \/ Denied("gone")) /\ UNCHANGED <<storeVars, pageVars>>

Enter == /\ ~shown /\ shown' = TRUE
         /\ selected' = Selection(selected, list)
         /\ UNCHANGED <<list, panel, staged, draft, editing, target>> /\ UNCHANGED storeVars
         /\ UNCHANGED recorderVars
Leave == /\ shown /\ shown' = FALSE
         /\ \/ UNCHANGED selected                           \* the address changes, a session ends
            \/ Free /\ selected' \in Listed                 \* "Use in Generate"
         /\ panel' = "upload" /\ staged' = NoClip /\ draft' = NoDraft /\ editing' = 0 /\ target' = 0
         /\ UNCHANGED <<list, library, version>>
         /\ calls' = {[c EXCEPT !.held = FALSE] : c \in calls}
         /\ Unmounted

VoicesNext == \/ (LibrarySteps \/ (StoreSteps /\ UNCHANGED pageVars)) /\ UNCHANGED recorderVars
              \/ IntakeSteps
              \/ Recording \/ LateAnswer
              \/ Enter \/ Leave

Spec == VoicesInit /\ [][VoicesNext]_vars

-----------------------------------------------------------------------------
\* "passed review and is selected for Generate": a page that saves a profile leaves it selected.
CreatedIsSelected ==
  [][\A c \in calls : (/\ c.op = "create" /\ c.held /\ c.st = "answered" /\ c \notin calls'
                      /\ draft' = NoDraft /\ shown')
                         => selected' = c.voice]_vars
=============================================================================
