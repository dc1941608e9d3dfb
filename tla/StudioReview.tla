---------------------------- MODULE StudioReview ----------------------------
(***************************************************************************)
(* The transcript editor on the Jobs page, or alike on the Transcribe page,*)
(* while other tabs revise or delete the transcript.                       *)
(***************************************************************************)
EXTENDS TranscriptReview

editorVars == <<page, jobs, list, calls, lock, retry, effort, drawn, reviewing, draft, warned>>

EditorInit == /\ JobsInit /\ ReviewInit
              /\ \E w \in Contents : jobs = <<Made(w, "succeeded")>>

OpenReview(i) == page = "jobs" /\ Review(i)

\* The list lands under the editor too.
ListLands == LandList /\ UNCHANGED reviewing /\ DialogEffect(DraftStays)

EditorMove(p) == /\ Navigate(p)
                 /\ reviewing' = 0 /\ draft' = NoDraft /\ warned' = FALSE

EditorNext ==
  \/ \E i \in JobIds : OpenReview(i)
  \/ ReviewSteps
  \/ ListLands
  \/ (Queue \/ Poll \/ AnswerList \/ FailList) /\ UNCHANGED reviewVars
  \/ EditorMove("jobs") \/ EditorMove("other")

EditorSpec == EditorInit /\ [][EditorNext]_editorVars

\* Intervals fire, and a server that is asked again and again answers some time.
FairEditorSpec == /\ EditorSpec
                  /\ WF_editorVars(Poll /\ UNCHANGED reviewVars)
                  /\ SF_editorVars(AnswerList /\ UNCHANGED reviewVars)
                  /\ SF_editorVars(ListLands)
=============================================================================
