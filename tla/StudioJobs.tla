----------------------------- MODULE StudioJobs -----------------------------
(***************************************************************************)
(* What the Studio's job pages share: the list of one job queue in the     *)
(* query cache, the calls on their way to the server, the retry key of a   *)
(* submission, and the queue as the pages see it (the service itself is    *)
(* AsrJobs).  Pages are mounted one at a time; a call outlives its page.   *)
(* A call may be lost before the server sees it, or its answer may be.     *)
(***************************************************************************)
EXTENDS QueryCache, Integers, Sequences, FiniteSets

CONSTANTS Contents,   \* what a job can be made from
          Outcomes,   \* how the server may end a job
          Outsiders,  \* what other tabs and scripts do to the queue
          NoRetry, MaxJobs, MaxCalls,
          MaxKeys, MaxRev   \* keys drawn, revisions of one transcript

ASSUME BoundsAssumption == {MaxJobs, MaxCalls, MaxKeys, MaxRev} \subseteq Nat /\ MaxJobs # 0
ASSUME OutsidersAssumption == Outsiders \subseteq {"delete", "revise"}

\* A request stands for what the job is made from, or for the job it repeats.
Sources == Contents \cup Nat
ASSUME NoRetryAssumption == NoRetry \notin [source : Sources, key : Nat] \cup [source : Sources, no : Nat]

VARIABLES
  page,      \* the page that is mounted
  jobs,      \* the server's records, oldest first; a deleted one stays as "gone"
  list,      \* the query ['tts-jobs'] or ['asr-jobs']
  calls,     \* mutations on their way
  lock,      \* pages whose submit lock is taken
  retry,     \* [SubmitPages -> the submission that was not answered, or NoRetry]
  effort,    \* the same, by what the user did: for the properties only
  drawn      \* idempotency keys drawn so far

jobVars == <<page, jobs, list, calls, lock, retry, effort, drawn>>

SubmitPages == {"generate", "transcribe", "jobs"}
Pages       == SubmitPages \cup {"other"}
JobIds      == 1..MaxJobs
Live        == {"live", "cancelling"}      \* "live" is queued or running
Settled     == {"succeeded", "failed", "cancelled"}
Absent      == [status |-> "absent", rev |-> 0]
ASSUME OutcomesAssumption == Outcomes \subseteq Settled
ASSUME NoDataAssumption ==
  NoData \notin [JobIds -> [status : Live \cup Settled \cup {"gone", "absent"}, rev : Nat]]

Seen(j)  == [status |-> j.status, rev |-> j.rev]
Listed   == [i \in JobIds |-> IF i <= Len(jobs) /\ jobs[i].status # "gone" THEN Seen(jobs[i])
                              ELSE Absent]
\* The list on the page; nothing while it loads.
Shown(i) == IF list.data = NoData THEN Absent ELSE list.data[i]

\* A job nobody on this page asked for.
Made(w, status) == [what |-> w, key |-> 0, effort |-> 0, status |-> status, rev |-> 0]
JobsInit == /\ page = "other" /\ list = NoQuery /\ calls = {}
            /\ lock = {} /\ drawn = 0
            /\ retry = [p \in SubmitPages |-> NoRetry]
            /\ effort = [p \in SubmitPages |-> NoRetry]

-----------------------------------------------------------------------------
\* Calls.

Pending(p, op) == {c \in calls : c.page = p /\ c.op = op /\ c.held}

\* A mutation observer follows its latest call only; earlier ones still run their callbacks.
Followed(p, op) == {c \in Pending(p, op) : c.latest}

Send(c) == /\ Cardinality(calls) < MaxCalls
           /\ calls' = {IF d \in Pending(c.page, c.op) THEN [d EXCEPT !.latest = FALSE] ELSE d
                          : d \in calls} \cup {c}

Call(p, op, j) == [op |-> op, page |-> p, held |-> TRUE, latest |-> TRUE, st |-> "sent", job |-> j,
                   what |-> NoRetry, key |-> 0, effort |-> 0, seen |-> Absent, base |-> 0]

\* The key of a submission: the one of the last attempt if that was the same request and
\* has not been answered (retryRequestRef), a new one otherwise.
KeyEachTime(p, source) == drawn + 1
KeyFor(p, source) == IF retry[p] # NoRetry /\ retry[p].source = source THEN retry[p].key
                     ELSE drawn + 1
EffortOf(p, source) == IF effort[p] # NoRetry /\ effort[p].source = source THEN effort[p].no
                       ELSE drawn + 1

Submit(p, source, what) ==
  /\ p \notin lock
  /\ lock' = lock \cup {p}
  /\ drawn < MaxKeys
  /\ LET key == KeyFor(p, source)
         no  == EffortOf(p, source)
     IN /\ retry' = [retry EXCEPT ![p] = [source |-> source, key |-> key]]
        /\ effort' = [effort EXCEPT ![p] = [source |-> source, no |-> no]]
        /\ drawn' = IF key > drawn THEN key ELSE drawn
        /\ Send([Call(p, "create", 0) EXCEPT !.what = what, !.key = key, !.effort = no])

\* onSuccess and onError of a submission; onSettled gives the lock back.  The refs are those
\* of the page that sent it, which may be gone.
ForgottenOnError(p) == NoRetry
RetryAfterError(p)  == retry[p]
Unlocked(c) == IF c.held THEN lock \ {c.page} ELSE lock
Accepted(c) == /\ lock' = Unlocked(c)
               /\ retry' = IF c.held THEN [retry EXCEPT ![c.page] = NoRetry] ELSE retry
               /\ effort' = IF c.held THEN [effort EXCEPT ![c.page] = NoRetry] ELSE effort
               /\ calls' = calls \ {c}
Rejected(c) == /\ lock' = Unlocked(c)
               /\ retry' = IF c.held THEN [retry EXCEPT ![c.page] = RetryAfterError(c.page)]
                           ELSE retry
               /\ calls' = calls \ {c}

\* An error reaches the page: the server refused, or the request or its answer was lost.
Unanswered(c) == c.st \in {"sent", "refused", "answered"}
Errs(c) == c \in calls /\ Unanswered(c)
Succeeds(c) == c \in calls /\ c.st = "answered"

-----------------------------------------------------------------------------
\* The list.

\* Pages that observe the list; without one, an invalidated query is only marked stale.
Observed == page \in {"generate", "transcribe", "jobs"}
Refreshed(q) == IF Observed THEN Invalidated(q) ELSE q

\* jobRefetchInterval() in seconds; 0 would be no polling.
ActiveShown == \E i \in JobIds : Shown(i).status \in Live
IntervalWhileActive == IF ActiveShown THEN 1 ELSE 0
PollInterval == IF ActiveShown THEN 1 ELSE 8

Poll == /\ Observed /\ list.fetch = "idle" /\ PollInterval > 0
        /\ list' = Fetched(list)
        /\ UNCHANGED <<page, jobs, calls, lock, retry, effort, drawn>>

AnswerList == /\ list.fetch = "asked"
              /\ list' = AnsweredWith(list, Listed)
              /\ UNCHANGED <<page, jobs, calls, lock, retry, effort, drawn>>

LandList == /\ list.fetch = "answered"
            /\ list' = Landed(list)
            /\ UNCHANGED <<page, jobs, calls, lock, retry, effort, drawn>>

FailList == /\ list.fetch = "asked"
            /\ list' = Failed(list)
            /\ UNCHANGED <<page, jobs, calls, lock, retry, effort, drawn>>

\* The job a creation returned, put first in the list (setQueryData) as it was at the answer.
Prepended(q, i, seen) ==
  WithData(q, [k \in JobIds |-> IF k = i THEN seen ELSE IF q.data = NoData THEN Absent ELSE q.data[k]])

-----------------------------------------------------------------------------
\* The server.

Has(i, statuses) == i \in 1..Len(jobs) /\ jobs[i].status \in statuses
SetStatus(i, s) == jobs' = [jobs EXCEPT ![i].status = s]
Reply(c, st) == calls' = (calls \ {c}) \cup {[c EXCEPT !.st = st]}
ServerOnly == UNCHANGED <<page, list, lock, retry, effort, drawn>>

\* The record a key has made, while it exists.
OfKey(k) == {i \in 1..Len(jobs) : jobs[i].key = k /\ jobs[i].status # "gone"}

ServeCreate(c) ==
  /\ c.op = "create" /\ c.st = "sent"
  /\ LET made(i, seen) == calls' = (calls \ {c}) \cup
                            {[c EXCEPT !.st = "answered", !.job = i, !.seen = seen]}
     IN \/ \E i \in OfKey(c.key) : made(i, Seen(jobs[i])) /\ UNCHANGED jobs
        \/ /\ OfKey(c.key) = {} /\ Len(jobs) < MaxJobs
           /\ jobs' = Append(jobs, [Made(c.what, "live") EXCEPT !.key = c.key, !.effort = c.effort])
           /\ made(Len(jobs) + 1, [status |-> "live", rev |-> 0])
        \/ Reply(c, "refused") /\ UNCHANGED jobs          \* queue full, voice gone
  /\ ServerOnly

\* A queued job is cancelled at once, a running one at its next safe point.
ServeCancel(c) ==
  /\ c.op = "cancel" /\ c.st = "sent"
  /\ \/ /\ Has(c.job, {"live"})
        /\ \E s \in {"cancelling", "cancelled"} : SetStatus(c.job, s)
        /\ Reply(c, "answered")
     \/ ~Has(c.job, {"live"}) /\ Reply(c, "refused") /\ UNCHANGED jobs
  /\ ServerOnly

ServeDelete(c) ==
  /\ c.op = "delete" /\ c.st = "sent"
  /\ \/ Has(c.job, Settled) /\ SetStatus(c.job, "gone") /\ Reply(c, "answered")
     \/ ~Has(c.job, Settled) /\ Reply(c, "refused") /\ UNCHANGED jobs
  /\ ServerOnly

ServeCleanup(c) ==
  /\ c.op = "cleanup" /\ c.st = "sent"
  /\ jobs' = [i \in 1..Len(jobs) |-> IF jobs[i].status \in Settled
                                     THEN [jobs[i] EXCEPT !.status = "gone"] ELSE jobs[i]]
  /\ Reply(c, "answered")
  /\ ServerOnly

\* revise_transcript(): the revision must be the one the editor has seen.
ServeRevise(c) ==
  /\ c.op = "revise" /\ c.st = "sent"
  /\ \/ /\ Has(c.job, {"succeeded"}) /\ jobs[c.job].rev = c.base
        /\ jobs' = [jobs EXCEPT ![c.job].rev = @ + 1]
        /\ calls' = (calls \ {c}) \cup
             {[c EXCEPT !.st = "answered", !.seen = [status |-> "succeeded", rev |-> c.base + 1]]}
     \/ /\ ~(Has(c.job, {"succeeded"}) /\ jobs[c.job].rev = c.base)
        /\ Reply(c, "refused") /\ UNCHANGED jobs
  /\ ServerOnly

\* The worker ends a job; other clients of the server act on the queue.
WorkerEnds(i) == /\ \/ Has(i, {"live"}) /\ \E s \in Outcomes : SetStatus(i, s)
                    \/ Has(i, {"cancelling"}) /\ SetStatus(i, "cancelled")
                 /\ ServerOnly /\ UNCHANGED calls

OutsiderActs(i) ==
  /\ \/ "delete" \in Outsiders /\ Has(i, Settled) /\ SetStatus(i, "gone")
     \/ /\ "revise" \in Outsiders /\ Has(i, {"succeeded"}) /\ jobs[i].rev < MaxRev
        /\ jobs' = [jobs EXCEPT ![i].rev = @ + 1]
  /\ ServerOnly /\ UNCHANGED calls

Queue == \/ \E c \in calls : \/ ServeCreate(c) \/ ServeCancel(c) \/ ServeDelete(c)
                             \/ ServeCleanup(c) \/ ServeRevise(c)
         \/ \E i \in JobIds : WorkerEnds(i) \/ OutsiderActs(i)

ListSteps == Poll \/ AnswerList \/ LandList \/ FailList

-----------------------------------------------------------------------------
\* Leaving a page drops its state; its calls run on for nobody.
Orphaned == {[c EXCEPT !.held = FALSE] : c \in calls}

Navigate(p) == /\ p # page /\ page' = p
               /\ calls' = Orphaned /\ lock' = {}
               /\ retry' = [q \in SubmitPages |-> NoRetry]
               /\ effort' = [q \in SubmitPages |-> NoRetry]
               /\ \/ list' = IF p = "other" THEN list ELSE Fetched(list)
                  \/ list.data # NoData /\ list' = list        \* fresh enough
               /\ UNCHANGED <<jobs, drawn>>
-----------------------------------------------------------------------------
\* Submitting the same request again after an error never makes a second job beside the
\* first: a lost answer and a lost request look alike on the page.
OneJobPerEffort ==
  \A i, k \in 1..Len(jobs) :
     (i # k /\ jobs[i].effort # 0 /\ jobs[i].effort = jobs[k].effort)
       => "gone" \in {jobs[i].status, jobs[k].status}

\* A job that has ended is shown as it ended and in its latest revision, or is gone, if a page
\* with the list stays open: also one made by a call whose answer was lost, and after lists
\* that failed to load or landed late.
InStep(i) == Shown(i) = Listed[i]
SettledShown ==
  \A i \in JobIds : (Has(i, Settled) ~> (InStep(i) \/ ~Has(i, Settled) \/ ~Observed))
=============================================================================
