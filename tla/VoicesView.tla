----------------------------- MODULE VoicesView -----------------------------
(***************************************************************************)
(* The Voices page (VoicesView.tsx) with its review dialog                 *)
(* (VoiceIntakeReviewDialog.tsx): profiles are chosen, edited and deleted; *)
(* a recording is analysed, reviewed, perhaps cut and analysed again, and  *)
(* saved.  The list lags behind the library until it is fetched again;     *)
(* effects follow in the step of the render that causes them.  Search and  *)
(* players are left out.                                                   *)
(***************************************************************************)
EXTENDS VoiceStore, VoiceRecorder

CONSTANTS NoDraft, NoData

VARIABLES
  shown,      \* the page is mounted
  list,       \* the query ['voices']: the profiles it was last answered with, or NoData
  selected,   \* the preferred voice, in localStorage and on the page; 0 for none
  panel,      \* how a recording is added: "upload", "record", "local"
  staged,     \* uploadFile
  draft,      \* the recording under review
  editing,    \* the profile whose form is open, 0 for none
  target      \* the profile to be deleted, 0 for none

pageVars == <<shown, list, selected, panel, staged, draft, editing, target>>

\* Creations of this page, and the requests it waits for.
Mine(op)     == {c \in calls : c.op = op /\ c.held}
Busy(op)     == \E c \in Mine(op) : c.latest
Analyzing    == Busy("analyze")
Creating     == Busy("create")
AnalyzingA(clips) == \E c \in Mine("analyze") : c.latest /\ c.clip \in clips

PageInit == /\ shown = FALSE /\ list = NoData /\ selected = 0 /\ panel = "upload"
            /\ staged = NoClip /\ draft = NoDraft /\ editing = 0 /\ target = 0

\* The effect on selection and list: a selected profile that is not listed gives way to the
\* newest one.
Newest(vs) == CHOOSE v \in vs : \A w \in vs : w <= v
Selection(v, data) == IF data = NoData \/ data = {} THEN v
                      ELSE IF v \in data THEN v ELSE Newest(data)

-----------------------------------------------------------------------------
\* The library on the page.  The dialogs are modal.

Free == shown /\ draft = NoDraft /\ target = 0
Listed == IF list = NoData THEN {} ELSE list
StoreOnly == UNCHANGED storeVars

\* "Use in Generate": the page is left (Leave).
StartEdit(v) == /\ Free /\ v \in Listed /\ editing' = v
                /\ UNCHANGED <<shown, list, selected, panel, staged, draft, target>> /\ StoreOnly
CancelEdit == /\ Free /\ editing # 0 /\ editing' = 0
              /\ UNCHANGED <<shown, list, selected, panel, staged, draft, target>> /\ StoreOnly
SaveEdit == /\ Free /\ editing \in Listed /\ ~Busy("update")
            /\ Send([Call("update", NoClip, NoReport.cut) EXCEPT !.voice = editing])
            /\ UNCHANGED <<library, version>> /\ UNCHANGED pageVars
AskDelete(v) == /\ Free /\ v \in Listed /\ v # editing /\ target' = v
                /\ UNCHANGED <<shown, list, selected, panel, staged, draft, editing>> /\ StoreOnly
CloseDelete == /\ target # 0 /\ target' = 0
               /\ UNCHANGED <<shown, list, selected, panel, staged, draft, editing>> /\ StoreOnly
ConfirmDelete == /\ target # 0 /\ ~Busy("delete")
                 /\ Send([Call("delete", NoClip, NoReport.cut) EXCEPT !.voice = target])
                 /\ UNCHANGED <<library, version>> /\ UNCHANGED pageVars

-----------------------------------------------------------------------------
\* Adding a recording.

\* Leaving "record" unmounts the recorder; a change to "upload" or "record" drops the file.
ChangePanel(p) ==
  /\ Free /\ p # panel /\ panel' = p
  /\ staged' = IF p = "local" THEN staged ELSE NoClip
  /\ IF panel = "record" THEN Unmounted ELSE UNCHANGED recorderVars
  /\ UNCHANGED <<shown, list, selected, draft, editing, target>> /\ StoreOnly

\* handleUploadFile(), for a file chosen, dropped or removed; a bad file is as none.
ChooseFile(clip) == /\ Free /\ panel = "upload" /\ staged' = clip
                    /\ UNCHANGED <<shown, list, selected, panel, draft, editing, target>>
                    /\ StoreOnly /\ UNCHANGED recorderVars

\* beginIntakeReview(); what reads the transcript is left out.
Analyze(clip, cut) == /\ Send(Call("analyze", clip, cut))
                      /\ UNCHANGED <<library, version>> /\ UNCHANGED pageVars
                      /\ UNCHANGED recorderVars
ReviewUpload == /\ Free /\ panel # "local" /\ staged # NoClip /\ ~AnalyzingA(Uploads)
                /\ Analyze(staged, "whole")
ReviewLocal(clip) == Free /\ panel = "local" /\ ~Analyzing /\ Analyze(clip, "whole")

Blocked(d) == Quality[d.clip, d.report.cut] = "blocked" \/ d.report.twin # 0
Warns(d)   == Quality[d.clip, d.report.cut] = "review"
InDialog   == shown /\ draft # NoDraft
DraftOnly  == /\ UNCHANGED <<shown, list, selected, panel, staged, editing, target>> /\ StoreOnly
              /\ UNCHANGED recorderVars

\* Trim, language and text stay open while the recording is analysed or saved.
EditDraft(cut) == /\ InDialog /\ cut # draft.cut
                  /\ draft' = [draft EXCEPT !.cut = cut, !.dirty = TRUE, !.ack = FALSE]
                  /\ DraftOnly
Acknowledge == /\ InDialog /\ Warns(draft) /\ ~Blocked(draft) /\ ~draft.dirty
               /\ draft' = [draft EXCEPT !.ack = ~@]
               /\ DraftOnly
Reanalyze == /\ InDialog /\ draft.dirty /\ ~Analyzing /\ ~Creating
             /\ Analyze(draft.clip, draft.cut)

\* createDisabled
StaleEnabled(d) == ~Analyzing /\ ~Creating /\ ~Blocked(d) /\ (Warns(d) => d.ack)
CreateEnabled(d) == ~Analyzing /\ ~Creating /\ ~d.dirty /\ ~Blocked(d) /\ (Warns(d) => d.ack)
Create == /\ InDialog /\ CreateEnabled(draft)
          /\ Send([Call("create", draft.clip, draft.cut) EXCEPT !.report = draft.report,
                                                               !.ack = draft.ack])
          /\ UNCHANGED <<library, version>> /\ UNCHANGED pageVars /\ UNCHANGED recorderVars

\* reuseVoice(): a profile that is not listed is asked for, and the dialog stays.
Reuse == /\ InDialog /\ draft.report.twin # 0
         /\ IF draft.report.twin \in Listed
            THEN selected' = draft.report.twin /\ draft' = NoDraft
            ELSE UNCHANGED <<selected, draft>>
         /\ UNCHANGED <<shown, list, panel, staged, editing, target>> /\ StoreOnly
         /\ UNCHANGED recorderVars
CloseReview == /\ InDialog /\ ~Creating /\ draft' = NoDraft /\ DraftOnly

-----------------------------------------------------------------------------
\* Answers.  A callback of a page that is gone still writes localStorage.

Done(c) == c \in calls /\ calls' = calls \ {c} /\ UNCHANGED <<library, version>>
Answer(c, op) == c.op = op /\ c.st = "answered" /\ Done(c)

\* The report opens the dialog, or replaces what it shows.
Analyzed(c) ==
  /\ Answer(c, "analyze")
  /\ draft' = IF c.held THEN [clip |-> c.clip, cut |-> c.cut, report |-> c.report,
                              ack |-> FALSE, dirty |-> FALSE]
              ELSE draft
  /\ UNCHANGED <<shown, list, selected, panel, staged, editing, target>>

\* The new profile is selected, and the effect judges that by the list as it is.
Created(c) ==
  /\ Answer(c, "create")
  /\ IF c.held
     THEN selected' = Selection(c.voice, list) /\ draft' = NoDraft /\ staged' = NoClip
     ELSE selected' = c.voice /\ UNCHANGED <<draft, staged>>
  /\ UNCHANGED <<shown, list, panel, editing, target>>

Updated(c) == /\ Answer(c, "update")
              /\ editing' = IF c.held THEN 0 ELSE editing
              /\ UNCHANGED <<shown, list, selected, panel, staged, draft, target>>

Deleted(c) ==
  /\ Answer(c, "delete")
  /\ LET s == IF selected = c.voice THEN 0 ELSE selected
     IN selected' = IF shown THEN Selection(s, list) ELSE s
  /\ target' = IF c.held THEN 0 ELSE target
  /\ UNCHANGED <<shown, list, panel, staged, draft, editing>>

\* Refused, or request or answer lost: the page shows the error and keeps what it had.
CallFailed(c) == /\ c.st \in {"sent", "refused", "answered"} /\ Done(c)
                 /\ UNCHANGED pageVars

-----------------------------------------------------------------------------
\* The list.

\* The list is fetched when the page opens, after every change, by Refresh and on focus.
ListLands == /\ shown /\ list # Here
             /\ list' = Here /\ selected' = Selection(selected, list')
             /\ UNCHANGED <<shown, panel, staged, draft, editing, target>> /\ StoreOnly

LibrarySteps == \/ \E v \in VoiceIds : StartEdit(v) \/ AskDelete(v)
                \/ CancelEdit \/ SaveEdit \/ CloseDelete \/ ConfirmDelete
                \/ \E c \in calls : \/ Analyzed(c) \/ Created(c) \/ Updated(c) \/ Deleted(c)
                                    \/ CallFailed(c)
                \/ ListLands
IntakeSteps == \/ \E p \in {"upload", "record", "local"} : ChangePanel(p)
               \/ \E clip \in Uploads \cup {NoClip} : ChooseFile(clip)
               \/ ReviewUpload \/ \E clip \in Locals : ReviewLocal(clip)
               \/ \E cut \in Cuts : EditDraft(cut)
               \/ Acknowledge \/ Reanalyze \/ Create \/ Reuse \/ CloseReview
=============================================================================
