------------------------------ MODULE JobsView ------------------------------
(***************************************************************************)
(* The Jobs page (JobsView.tsx, JobInspector.tsx): rows with the actions   *)
(* the shown status allows, an inspector, two confirmation dialogs, and    *)
(* running a job again with the retry key of its source.  The two queues   *)
(* behave alike and one is modelled; filter, search and paging are left    *)
(* out, so every listed job has its row.                                   *)
(***************************************************************************)
EXTENDS StudioJobs

VARIABLES
  inspected,  \* selectedJobKey, 0 for none
  target,     \* deleteTarget, 0 for none
  cleaning    \* cleanupConfirmOpen

jobsViewVars == <<inspected, target, cleaning>>

JobsViewInit == inspected = 0 /\ target = 0 /\ cleaning = FALSE
JobsViewReset == inspected' = 0 /\ target' = 0 /\ cleaning' = FALSE

-----------------------------------------------------------------------------
\* What the page offers.

Listing == {i \in JobIds : Shown(i) # Absent}
\* A job inspected that is no longer listed closes the inspector.
Inspecting == inspected \in Listing
PendingFor(op, i) == \E c \in Followed("jobs", op) : c.job = i

CanCancel(i)   == Shown(i).status = "live" /\ ~PendingFor("cancel", i)
CanDelete(i)   == Shown(i).status \in Settled /\ ~(Pending("jobs", "delete") # {} /\ target = i)
CanRunAgain(i) == Shown(i).status \in Settled
CanClean       == (\E i \in Listing : Shown(i).status \in Settled) /\ Pending("jobs", "cleanup") = {}

-----------------------------------------------------------------------------
\* The user.

OnJobs == page = "jobs"
\* Dialogs and the inspector are modal.
Free == target = 0 /\ ~cleaning /\ ~Inspecting
At(i) == i \in Listing /\ (Free \/ inspected = i)
LocalOnly == UNCHANGED jobVars
CallOnly == UNCHANGED <<page, jobs, list, lock, retry, effort, drawn>>

Inspect(i) == /\ OnJobs /\ i \in Listing /\ Free
              /\ inspected' = i
              /\ LocalOnly /\ UNCHANGED <<target, cleaning>>
CloseInspector == /\ OnJobs /\ Inspecting /\ inspected' = 0
                  /\ LocalOnly /\ UNCHANGED <<target, cleaning>>

CancelJob(i) == /\ OnJobs /\ At(i) /\ CanCancel(i)
                /\ Send(Call("jobs", "cancel", i))
                /\ CallOnly /\ UNCHANGED jobsViewVars

\* The row or the inspector asks; the dialog keeps the job as it was shown.
AskDelete(i) == /\ OnJobs /\ At(i) /\ CanDelete(i)
                /\ target' = i /\ inspected' = 0
                /\ LocalOnly /\ UNCHANGED cleaning
CloseDelete == /\ OnJobs /\ target # 0 /\ target' = 0
               /\ LocalOnly /\ UNCHANGED <<inspected, cleaning>>
ConfirmDelete == /\ OnJobs /\ target # 0 /\ Pending("jobs", "delete") = {}
                 /\ Send(Call("jobs", "delete", target))
                 /\ CallOnly /\ UNCHANGED jobsViewVars

AskCleanup == /\ OnJobs /\ Free /\ CanClean /\ cleaning' = TRUE
              /\ LocalOnly /\ UNCHANGED <<inspected, target>>
CloseCleanup == /\ OnJobs /\ cleaning /\ cleaning' = FALSE
                /\ LocalOnly /\ UNCHANGED <<inspected, target>>
ConfirmCleanup == /\ OnJobs /\ cleaning /\ Pending("jobs", "cleanup") = {}
                  /\ Send(Call("jobs", "cleanup", 0))
                  /\ CallOnly /\ UNCHANGED jobsViewVars

\* runJobAgain(): the source job stands for the request.
RunAgain == /\ OnJobs /\ Inspecting /\ CanRunAgain(inspected)
            /\ Submit("jobs", inspected, jobs[inspected].what)
            /\ UNCHANGED <<page, jobs, list>> /\ UNCHANGED jobsViewVars

Refresh == /\ OnJobs /\ list' = Invalidated(list)
           /\ UNCHANGED <<page, jobs, calls, lock, retry, effort, drawn>> /\ UNCHANGED jobsViewVars

-----------------------------------------------------------------------------
\* Answers.  What a callback sets belongs to the page that sent the call.

OfJobs(c, op) == c.page = "jobs" /\ c.op = op
Closed(c, v, closed) == IF c.held THEN closed ELSE v

JobCancelled(c) == /\ OfJobs(c, "cancel") /\ Succeeds(c)
                   /\ calls' = calls \ {c} /\ list' = Refreshed(list)
                   /\ UNCHANGED <<page, jobs, lock, retry, effort, drawn>> /\ UNCHANGED jobsViewVars
JobDeleted(c) == /\ OfJobs(c, "delete") /\ Succeeds(c)
                 /\ calls' = calls \ {c} /\ list' = Refreshed(list)
                 /\ target' = Closed(c, target, 0)
                 /\ UNCHANGED <<page, jobs, lock, retry, effort, drawn, inspected, cleaning>>
QueueCleaned(c) == /\ OfJobs(c, "cleanup") /\ Succeeds(c)
                   /\ calls' = calls \ {c} /\ list' = Refreshed(list)
                   /\ cleaning' = Closed(c, cleaning, FALSE)
                   /\ UNCHANGED <<page, jobs, lock, retry, effort, drawn, inspected, target>>
\* One of the two queues' answers lost is the whole cleanup failed, and nothing is refetched.
ActionFailed(c) == /\ \E op \in {"cancel", "delete", "cleanup"} : OfJobs(c, op)
                   /\ Errs(c)
                   /\ calls' = calls \ {c}
                   /\ UNCHANGED <<page, jobs, list, lock, retry, effort, drawn>> /\ UNCHANGED jobsViewVars

RunAgainAccepted(c) == /\ OfJobs(c, "create") /\ Succeeds(c)
                       /\ Accepted(c) /\ list' = Refreshed(list)
                       /\ inspected' = Closed(c, inspected, 0)
                       /\ UNCHANGED <<page, jobs, drawn, target, cleaning>>
RunAgainFailed(c) == /\ OfJobs(c, "create") /\ Errs(c)
                     /\ Rejected(c)
                     /\ UNCHANGED <<page, jobs, list, effort, drawn>> /\ UNCHANGED jobsViewVars

JobsViewUser == \/ \E i \in JobIds : Inspect(i) \/ CancelJob(i) \/ AskDelete(i)
                \/ CloseInspector \/ CloseDelete \/ ConfirmDelete
                \/ AskCleanup \/ CloseCleanup \/ ConfirmCleanup \/ RunAgain \/ Refresh
JobsViewAnswers == \E c \in calls : \/ JobCancelled(c) \/ JobDeleted(c) \/ QueueCleaned(c)
                                    \/ ActionFailed(c) \/ RunAgainAccepted(c)
                                    \/ RunAgainFailed(c)
=============================================================================
