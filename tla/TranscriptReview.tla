-------------------------- MODULE TranscriptReview --------------------------
(***************************************************************************)
(* The transcript editor (TranscriptReviewDialog.tsx) over the job list of *)
(* its page.  The dialog shows the listed job; its effect drops the draft  *)
(* whenever another revision of the job, or no job, is listed, so it is    *)
(* part of every step that changes the list (DialogEffect).  A transcript  *)
(* is its revision number; playback, export and copying are left out.      *)
(***************************************************************************)
EXTENDS StudioJobs

VARIABLES
  reviewing,  \* reviewJobId of the page, 0 for none
  draft,      \* editing, changed, valid; and the revision whose text was taken over
  warned      \* closeWarning

reviewVars == <<reviewing, draft, warned>>

NoDraft == [editing |-> FALSE, changed |-> FALSE, valid |-> TRUE, from |-> 0]
ReviewInit == reviewing = 0 /\ draft = NoDraft /\ warned = FALSE

\* The job the dialog gets from the list; nothing closes it.
Job == IF reviewing = 0 THEN Absent ELSE Shown(reviewing)
JobAfter == IF reviewing' = 0 \/ list'.data = NoData THEN Absent ELSE list'.data[reviewing']
DialogOpen == Job # Absent
Dirty == draft.editing /\ draft.changed
Saving == Followed(page, "revise") # {}

CanSave == Dirty /\ draft.valid /\ ~Saving
CanDiscard == draft.editing /\ ~Saving

\* The effect on job, text, revision and segments.
Another(before, after) == before.rev # after.rev \/ (before = Absent) # (after = Absent)
NeverAnother(before, after) == (before = Absent) # (after = Absent)
Replaced(before, after) == Another(before, after)
DialogEffect(edit) == IF Replaced(Job, JobAfter) THEN draft' = NoDraft /\ warned' = FALSE
                      ELSE edit
DraftStays == draft' = draft /\ warned' = warned

-----------------------------------------------------------------------------
\* The user.

Review(i) == /\ Shown(i).status = "succeeded" /\ ~DialogOpen
             /\ reviewing' = i /\ draft' = NoDraft /\ warned' = FALSE
             /\ UNCHANGED jobVars

\* saveMutation.reset(): the observer lets go of a save on its way, which runs on.
LetGo == calls' = {IF c \in Pending(page, "revise") THEN [c EXCEPT !.latest = FALSE] ELSE c : c \in calls}
NoCall == UNCHANGED <<page, jobs, list, lock, retry, effort, drawn>>

StartEditing == /\ DialogOpen /\ ~draft.editing
                /\ draft' = [NoDraft EXCEPT !.editing = TRUE, !.from = Job.rev]
                /\ warned' = FALSE /\ LetGo
                /\ NoCall /\ UNCHANGED reviewing

\* The text areas stay open while a save is on its way.
Type == /\ DialogOpen /\ draft.editing
        /\ \E v \in BOOLEAN : draft' = [draft EXCEPT !.changed = TRUE, !.valid = v]
        /\ UNCHANGED <<jobVars, reviewing, warned>>

DiscardEdits == /\ DialogOpen /\ CanDiscard /\ ~warned
                /\ draft' = NoDraft /\ LetGo
                /\ NoCall /\ UNCHANGED <<reviewing, warned>>

Save == /\ DialogOpen /\ CanSave /\ ~warned /\ Job.rev < MaxRev
        /\ Send([Call(page, "revise", reviewing) EXCEPT !.base = Job.rev, !.effort = draft.from])
        /\ NoCall /\ UNCHANGED reviewVars

\* requestClose() asks first when there are unsaved changes.
RequestClose == /\ DialogOpen
                /\ IF Dirty THEN warned' = TRUE /\ UNCHANGED <<reviewing, draft>>
                   ELSE reviewing' = 0 /\ draft' = NoDraft /\ warned' = FALSE
                /\ UNCHANGED jobVars
KeepEditing == DialogOpen /\ warned /\ warned' = FALSE /\ UNCHANGED <<jobVars, reviewing, draft>>
DiscardAndClose == /\ DialogOpen /\ warned
                   /\ reviewing' = 0 /\ draft' = NoDraft /\ warned' = FALSE
                   /\ UNCHANGED jobVars

\* Offered after an error.
ReloadLatest == /\ DialogOpen /\ ~Saving
                /\ draft' = [draft EXCEPT !.editing = FALSE] /\ warned' = FALSE
                /\ LetGo /\ list' = Invalidated(list)
                /\ UNCHANGED <<page, jobs, lock, retry, effort, drawn, reviewing>>

-----------------------------------------------------------------------------
\* Answers.

\* onSuccess writes the saved job over the listed one; a list on its way is not dropped.
Saved(c) == /\ c.op = "revise" /\ Succeeds(c)
            /\ calls' = calls \ {c}
            /\ list' = IF Shown(c.job) = Absent THEN list
                       ELSE WithData(list, [list.data EXCEPT ![c.job] = c.seen])
            /\ UNCHANGED <<page, jobs, lock, retry, effort, drawn, reviewing>>
            /\ DialogEffect(IF c.held THEN draft' = [draft EXCEPT !.editing = FALSE] /\ warned' = FALSE
                            ELSE DraftStays)

SaveFailed(c) == /\ c.op = "revise" /\ Errs(c)
                 /\ calls' = calls \ {c}
                 /\ NoCall /\ UNCHANGED reviewVars

ReviewSteps == \/ StartEditing \/ Type \/ DiscardEdits \/ Save \/ RequestClose \/ KeepEditing
               \/ DiscardAndClose \/ ReloadLatest
               \/ \E c \in calls : Saved(c) \/ SaveFailed(c)

-----------------------------------------------------------------------------
\* A save never replaces a text its writer has not seen: the revision the server replaces is
\* the one the draft was made from, not only the one the request names.
NoBlindOverwrite ==
  [][\A i \in JobIds : \A c \in calls :
       (/\ c.op = "revise" /\ c.job = i /\ c.st = "sent" /\ c \notin calls'
        /\ Has(i, {"succeeded"}) /\ jobs'[i].rev = jobs[i].rev + 1)
         => c.effort = jobs[i].rev]_<<calls, jobs>>
=============================================================================
