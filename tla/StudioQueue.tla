----------------------------- MODULE StudioQueue -----------------------------
(***************************************************************************)
(* The Jobs page over a job queue that holds an ended job when the Studio  *)
(* is opened.                                                              *)
(***************************************************************************)
EXTENDS JobsView

queueVars == <<page, jobs, list, calls, lock, retry, effort, drawn, inspected, target, cleaning>>

QueueInit == /\ JobsInit /\ JobsViewInit
             /\ \E w \in Contents : jobs = <<Made(w, "succeeded")>>

JobsMove(p) == Navigate(p) /\ JobsViewReset

QueueNext ==
  \/ JobsViewUser
  \/ JobsViewAnswers
  \/ (Queue \/ ListSteps) /\ UNCHANGED jobsViewVars
  \/ JobsMove("jobs") \/ JobsMove("other")

QueueSpec == QueueInit /\ [][QueueNext]_queueVars
=============================================================================
