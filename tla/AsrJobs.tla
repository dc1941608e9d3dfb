------------------------------ MODULE AsrJobs ------------------------------
(***************************************************************************)
(* AsrJobService (backend/vvoice/domains/asr/jobs.py): the job store, the  *)
(* executor's queue and worker threads, and the HTTP handlers that create, *)
(* cancel, revise, delete and clean up jobs.  One step is one critical     *)
(* section of self._lock, or what a thread does between two of them.       *)
(*                                                                         *)
(* job, input and issued are on disk and survive a crash; the rest is      *)
(* memory.  A definition whose comment starts with "Mutated" is a bug the  *)
(* code does not have, kept to show that a property would notice it.       *)
(***************************************************************************)
EXTENDS JobRecord, Sequences, FiniteSets

CONSTANTS
  JobIds,      \* uuid4 values: each is drawn at most once
  Workers,     \* executor threads: asr_max_workers
  Clients,     \* request threads inside create_from_audio()
  NoJob,       \* the thread holds no job
  MaxPending,  \* asr_max_pending_jobs
  MaxRevision, \* bound: transcript edits of one job
  MaxCrashes,  \* bound: process crashes
  MaxIoFaults  \* bound: failing reads, writes and unlinks

ASSUME BoundsAssumption == /\ MaxPending \in Nat \ {0}
                           /\ MaxRevision \in Nat
                           /\ MaxCrashes \in Nat
                           /\ MaxIoFaults \in Nat
ASSUME NoJobAssumption == NoJob \notin JobIds
ASSUME FiniteAssumption == IsFiniteSet(JobIds)

VARIABLES
  job,       \* [JobIds -> record or NoRecord]: <job_id>/metadata.json
  input,     \* the ids whose directory holds input.wav
  issued,    \* the ids drawn so far
  phase,     \* "recovering" inside the constructor, then "serving"
  accepting, \* self._accepting
  pending,   \* self._pending_job_ids
  queue,     \* the executor's work queue, oldest first
  pc,        \* [Workers -> what the thread does next]
  holds,     \* [Workers -> the job it does it for]
  request,   \* [Clients -> a create_from_audio() call]: key and fingerprint of a call
             \* between its two critical sections
  sweep,     \* the ids a running cleanup() has still to delete
  crashes, ioFaults

vars == <<job, input, issued, phase, accepting, pending, queue, pc, holds, request,
          sweep, crashes, ioFaults>>
store   == <<job, input, issued>>
threads == <<queue, pc, holds>>
calls   == <<request, sweep>>
faults  == <<crashes, ioFaults>>

Exists(j)   == job[j] # NoRecord
IsLive(j)   == Exists(j) /\ job[j].status \in Live
Terminal(j) == Exists(j) /\ job[j].status \in TERMINAL

Idle == [pc |-> "idle", key |-> NoKey, print |-> NoKey]

NewJob(k, f) ==
  [status |-> "queued", cancel |-> FALSE, attempt |-> 0, stage |-> "queued",
   reason |-> "none", key |-> k, print |-> IF k = NoKey THEN NoKey ELSE f, rev |-> 0]

Init ==
  /\ job = [j \in JobIds |-> NoRecord]
  /\ input = {} /\ issued = {} /\ pending = {} /\ sweep = {}
  /\ phase = "serving" /\ accepting = TRUE
  /\ queue = <<>>
  /\ pc = [w \in Workers |-> "idle"]
  /\ holds = [w \in Workers |-> NoJob]
  /\ request = [c \in Clients |-> Idle]
  /\ crashes = 0 /\ ioFaults = 0

-----------------------------------------------------------------------------
(* Creation: two critical sections with the audio decoded between them.    *)

Answered(k) == \E j \in JobIds : Answers(job[j], k)

\* _check_queue_capacity(): a job counts until its executor entry is consumed, and a
\* live record counts even if no executor entry is left for it.
HasCapacity == Cardinality(pending \cup {j \in JobIds : IsLive(j)}) < MaxPending

\* A replay (same key, same fingerprint) returns the stored job and a conflict (same
\* key, other fingerprint) is refused: neither changes any state.
Admissible(k) == ~Answered(k) /\ accepting /\ HasCapacity

BeginCreate(c, k, f) ==
  /\ phase = "serving"
  /\ request[c] = Idle
  /\ Admissible(k)
  /\ request' = [request EXCEPT ![c] = [pc |-> "decoding", key |-> k, print |-> f]]
  /\ UNCHANGED <<store, phase, accepting, pending, threads, sweep, faults>>

\* The decoder raised, or the second critical section replays or refuses the request.
AbandonCreate(c) ==
  /\ request[c].pc = "decoding"
  /\ request' = [request EXCEPT ![c] = Idle]
  /\ UNCHANGED <<store, phase, accepting, pending, threads, sweep, faults>>

\* Mutated: the second critical section trusts the key lookup of the first.
AdmissibleWithoutLookup(k) == accepting /\ HasCapacity

\* Mutated: the second critical section trusts the capacity check of the first.
AdmissibleWithoutCapacity(k) == ~Answered(k) /\ accepting

\* What the second critical section checks again.
StillAdmissible(k) == Admissible(k)

CreateJob(c, j) ==
  /\ request[c].pc = "decoding"
  /\ StillAdmissible(request[c].key)
  /\ j \notin issued
  /\ issued' = issued \cup {j}
  /\ input' = input \cup {j}
  /\ job' = [job EXCEPT ![j] = NewJob(request[c].key, request[c].print)]
  /\ pending' = pending \cup {j}
  /\ queue' = Append(queue, j)
  /\ request' = [request EXCEPT ![c] = Idle]
  /\ UNCHANGED <<phase, accepting, pc, holds, sweep, faults>>

\* Writing input.wav or metadata.json raises: the directory stays, with or without audio.
CreateFails(c, j) ==
  /\ ioFaults < MaxIoFaults
  /\ request[c].pc = "decoding"
  /\ StillAdmissible(request[c].key)
  /\ j \notin issued
  /\ issued' = issued \cup {j}
  /\ input' \in {input, input \cup {j}}
  /\ request' = [request EXCEPT ![c] = Idle]
  /\ ioFaults' = ioFaults + 1
  /\ UNCHANGED <<job, phase, accepting, pending, threads, sweep, crashes>>

-----------------------------------------------------------------------------
(* The other handlers.                                                     *)

\* Mutated: cancel() without its status checks.
CancellableAnyStatus(j) == Exists(j)

Cancellable(j) == IsLive(j)

Cancel(j) ==
  /\ phase = "serving"
  /\ Cancellable(j)
  /\ job' = [job EXCEPT ![j] = IF job[j].status = "queued" THEN Cancelled(job[j])
                                                           ELSE Cancelling(job[j])]
  /\ UNCHANGED <<input, issued, phase, accepting, pending, threads, calls, faults>>

\* An accepted revision: its expected_revision is the stored one and its text differs.
Revise(j) ==
  /\ phase = "serving"
  /\ Exists(j) /\ job[j].status = "succeeded"
  /\ job[j].rev < MaxRevision
  /\ job' = [job EXCEPT ![j].rev = @ + 1]
  /\ UNCHANGED <<input, issued, phase, accepting, pending, threads, calls, faults>>

\* Mutated: delete() without its status check.
DeletableAnyStatus(j) == Exists(j)

Deletable(j) == Terminal(j)

Erase(j) == /\ job' = [job EXCEPT ![j] = NoRecord]
            /\ input' = input \ {j}

Delete(j) ==
  /\ phase = "serving"
  /\ Deletable(j)
  /\ Erase(j)
  /\ UNCHANGED <<issued, phase, accepting, pending, threads, calls, faults>>

\* An unlink raises half way: one of the two files is gone, in directory order.
DeleteFails(j) ==
  /\ phase = "serving"
  /\ ioFaults < MaxIoFaults
  /\ Deletable(j)
  /\ \/ job' = [job EXCEPT ![j] = NoRecord] /\ UNCHANGED input
     \/ input' = input \ {j} /\ UNCHANGED job
  /\ ioFaults' = ioFaults + 1
  /\ UNCHANGED <<issued, phase, accepting, pending, threads, calls, crashes>>

\* Mutated: cleanup() without its status filter.
SweepableAnyStatus == {j \in JobIds : Exists(j)}

Sweepable == {j \in JobIds : Terminal(j)}

\* cleanup() takes a snapshot (max_age_seconds may keep any part of it) and lets go
\* of the lock before it deletes.
BeginSweep ==
  /\ phase = "serving"
  /\ sweep = {}
  /\ \E S \in SUBSET Sweepable : S # {} /\ sweep' = S
  /\ UNCHANGED <<store, phase, accepting, pending, threads, request, faults>>

\* delete() of the next id; an id it cannot delete any more ends the whole cleanup().
SweepNext(j) ==
  /\ j \in sweep
  /\ IF Terminal(j) THEN Erase(j) /\ sweep' = sweep \ {j}
                    ELSE sweep' = {} /\ UNCHANGED <<job, input>>
  /\ UNCHANGED <<issued, phase, accepting, pending, threads, request, faults>>

\* Queued futures are cancelled; their ids stay in pending, their records "queued".
Shutdown ==
  /\ phase = "serving" /\ accepting
  /\ accepting' = FALSE
  /\ queue' = <<>>
  /\ UNCHANGED <<store, phase, pending, pc, holds, calls, faults>>

-----------------------------------------------------------------------------
(* A worker thread: _run_queued() around _run().  Each step that reads the *)
(* record goes to "done" when the record is gone (AsrJobNotFoundError).    *)

\* Where a thread goes after a step that went well.
After(l) ==
  CASE l = "check_input" -> "load"         [] l = "load"  -> "check_audio"
    [] l = "check_audio" -> "stage_model"  [] l = "stage_model"  -> "model"
    [] l = "model"       -> "check_result" [] l = "check_result" -> "stage_final"
    [] l = "stage_final" -> "complete"

\* Mutated: a stage name outside PROGRESS_STAGES.
StageMisnamed(l) == IF l = "stage_model" THEN "transcribing" ELSE "finalizing"

StageAt(l) == IF l = "stage_model" THEN "running_model" ELSE "finalizing"

Checks     == {"check_input", "check_audio", "check_result"}
Computes   == {"load", "model"}
Stagings   == {"stage_model", "stage_final"}
Attempting == Checks \cup Computes \cup Stagings \cup {"complete"}
Handling   == {"cancelled", "retryable", "fatal", "failing"}
Labels     == Attempting \cup Handling \cup {"idle", "start", "backoff", "done"}

Goto(w, l) == pc' = [pc EXCEPT ![w] = l]
Save(j, r) == job' = [job EXCEPT ![j] = r]

\* What a worker's own step on the job it holds leaves alone.
Own == UNCHANGED <<input, issued, phase, accepting, pending, queue, holds, calls, crashes>>

Take(w) ==
  /\ pc[w] = "idle" /\ queue # <<>>
  /\ Goto(w, "start")
  /\ holds' = [holds EXCEPT ![w] = Head(queue)]
  /\ queue' = Tail(queue)
  /\ UNCHANGED <<store, phase, accepting, pending, calls, faults>>

Startable(j) == Exists(j) /\ ~Terminal(j)

StartAttempt(w) ==
  LET j == holds[w] IN
  /\ pc[w] = "start"
  /\ IF Startable(j) /\ ~CancelAsked(job[j])
     THEN Save(j, Running(job[j])) /\ Goto(w, "check_input")
     ELSE /\ Goto(w, "done")
          /\ IF Startable(j) THEN Save(j, Cancelled(job[j])) ELSE UNCHANGED job
  /\ Own /\ UNCHANGED ioFaults

\* A safe point; the first one also finds out whether input.wav is missing.
SafePoint(w) ==
  LET j == holds[w]
      Missing == pc[w] = "check_input" /\ j \notin input
  IN
  /\ pc[w] \in Checks
  /\ Goto(w, IF Missing THEN "fatal"
             ELSE IF ~Exists(j) THEN "done"
             ELSE IF CancelAsked(job[j]) THEN "cancelled"
             ELSE After(pc[w]))
  /\ Own /\ UNCHANGED <<job, ioFaults>>

\* Decoding the input, or the model call: it returns, or raises a VVoiceError ("fatal")
\* or anything else ("retryable").
Compute(w) ==
  /\ pc[w] \in Computes
  /\ \E l \in {After(pc[w]), "retryable", "fatal"} : Goto(w, l)
  /\ Own /\ UNCHANGED <<job, ioFaults>>

SetStage(w) ==
  LET j == holds[w] IN
  /\ pc[w] \in Stagings
  /\ IF ~Exists(j) THEN Goto(w, "done") /\ UNCHANGED job
     ELSE IF CancelAsked(job[j]) THEN Goto(w, "cancelled") /\ UNCHANGED job
     ELSE Save(j, AtStage(job[j], StageAt(pc[w]))) /\ Goto(w, After(pc[w]))
  /\ Own /\ UNCHANGED ioFaults

\* Success also resets the transcript to revision 0.
Succeeded(r) == [r EXCEPT !.status = "succeeded", !.stage = "succeeded", !.reason = "none",
                          !.rev = 0]

\* Mutated: _complete_successfully() without its cancellation check.
CompleteAnyway(w) ==
  LET j == holds[w] IN
  /\ pc[w] = "complete"
  /\ IF Exists(j) THEN Save(j, Succeeded(job[j])) ELSE UNCHANGED job
  /\ Goto(w, "done")
  /\ Own /\ UNCHANGED ioFaults

Complete(w) ==
  LET j == holds[w] IN
  /\ pc[w] = "complete"
  /\ IF ~Exists(j) THEN Goto(w, "done") /\ UNCHANGED job
     ELSE IF CancelAsked(job[j]) THEN Goto(w, "cancelled") /\ UNCHANGED job
     ELSE Save(j, Succeeded(job[j])) /\ Goto(w, "done")
  /\ Own /\ UNCHANGED ioFaults

MarkCancelled(w) ==
  LET j == holds[w] IN
  /\ pc[w] = "cancelled"
  /\ IF IsLive(j) THEN Save(j, Cancelled(job[j])) ELSE UNCHANGED job
  /\ Goto(w, "done")
  /\ Own /\ UNCHANGED ioFaults

\* Mutated: one attempt too many.
RetryAllowedOnceMore(w) == pc[w] = "retryable" /\ job[holds[w]].attempt <= MaxAttempts

RetryAllowed(w) == pc[w] = "retryable" /\ job[holds[w]].attempt < MaxAttempts

\* _queue_retry(): a retry (or a cancellation it finds) is saved and the thread sleeps
\* retry_backoff_seconds; otherwise it goes on to _mark_failed().
HandleFailure(w) ==
  LET j == holds[w] IN
  /\ pc[w] \in {"retryable", "fatal"}
  /\ IF IsLive(j) /\ CancelAsked(job[j]) THEN Save(j, Cancelled(job[j])) /\ Goto(w, "backoff")
     ELSE IF IsLive(j) /\ RetryAllowed(w) THEN Save(j, Retrying(job[j])) /\ Goto(w, "backoff")
     ELSE Goto(w, "failing") /\ UNCHANGED job
  /\ Own /\ UNCHANGED ioFaults

MarkFailed(w) ==
  LET j == holds[w] IN
  /\ pc[w] = "failing"
  /\ IF IsLive(j)
     THEN Save(j, IF CancelAsked(job[j]) THEN Cancelled(job[j]) ELSE Failed(job[j], "error"))
     ELSE UNCHANGED job
  /\ Goto(w, "done")
  /\ Own /\ UNCHANGED ioFaults

\* Mutated: the retry loop returns instead of continuing.
WakeAndReturn(w) ==
  /\ pc[w] = "backoff" /\ Goto(w, "done")
  /\ Own /\ UNCHANGED <<job, ioFaults>>

Wake(w) ==
  /\ pc[w] = "backoff" /\ Goto(w, "start")
  /\ Own /\ UNCHANGED <<job, ioFaults>>

\* _save() raises.  Inside the try block the exception is one more retryable failure; in
\* the except handlers it leaves _run() and only the finally clause runs.
SaveFails(w) ==
  LET j == holds[w] IN
  /\ ioFaults < MaxIoFaults
  /\ j # NoJob /\ IsLive(j)
  /\ \/ /\ \/ pc[w] = "start"
           \/ pc[w] \in Stagings \cup {"complete"} /\ ~CancelAsked(job[j])
        /\ Goto(w, "retryable")
     \/ /\ \/ pc[w] \in {"cancelled", "failing"}
           \/ pc[w] \in {"retryable", "fatal"} /\ (CancelAsked(job[j]) \/ RetryAllowed(w))
        /\ Goto(w, "done")
  /\ ioFaults' = ioFaults + 1
  /\ Own /\ UNCHANGED job

\* Mutated: no finally clause, so a job whose record is gone keeps its slot.
FinishIfRecorded(w) ==
  /\ pc[w] = "done"
  /\ Goto(w, "idle")
  /\ holds' = [holds EXCEPT ![w] = NoJob]
  /\ pending' = IF Exists(holds[w]) THEN pending \ {holds[w]} ELSE pending
  /\ UNCHANGED <<store, phase, accepting, queue, calls, faults>>

\* The finally clause of _run_queued().
Finish(w) ==
  /\ pc[w] = "done"
  /\ Goto(w, "idle")
  /\ holds' = [holds EXCEPT ![w] = NoJob]
  /\ pending' = pending \ {holds[w]}
  /\ UNCHANGED <<store, phase, accepting, queue, calls, faults>>

Step(w) == \/ StartAttempt(w) \/ SafePoint(w) \/ Compute(w) \/ SetStage(w) \/ Complete(w)
           \/ MarkCancelled(w) \/ HandleFailure(w) \/ MarkFailed(w) \/ Wake(w) \/ Finish(w)

-----------------------------------------------------------------------------
(* The disk and the process.                                               *)

\* get(), in any thread: the record cannot be read and is renamed away; the audio stays.
Quarantine(j) ==
  /\ ioFaults < MaxIoFaults
  /\ Exists(j)
  /\ job' = [job EXCEPT ![j] = NoRecord]
  /\ ioFaults' = ioFaults + 1
  /\ UNCHANGED <<input, issued, phase, accepting, pending, threads, calls, crashes>>

\* The process dies, at any point, and is started again.
Crash ==
  /\ crashes < MaxCrashes
  /\ crashes' = crashes + 1
  /\ phase' = "recovering" /\ accepting' = TRUE
  /\ pending' = {} /\ queue' = <<>> /\ sweep' = {}
  /\ pc' = [w \in Workers |-> "idle"]
  /\ holds' = [w \in Workers |-> NoJob]
  /\ request' = [c \in Clients |-> Idle]
  /\ UNCHANGED <<store, ioFaults>>

\* Mutated: only jobs found "running" are marked.
InterruptedIfRunning(j) == Exists(j) /\ job[j].status = "running"

Interrupted(j) == IsLive(j)

\* _mark_interrupted_jobs(), one record after the other.
Recover(j) ==
  /\ phase = "recovering"
  /\ Interrupted(j)
  /\ Save(j, Failed(job[j], "interrupted"))
  /\ UNCHANGED <<input, issued, phase, accepting, pending, threads, calls, faults>>

Serve ==
  /\ phase = "recovering"
  /\ \A j \in JobIds : ~Interrupted(j)
  /\ phase' = "serving"
  /\ UNCHANGED <<store, accepting, pending, threads, calls, faults>>

Next ==
  \/ \E c \in Clients : \/ \E k \in Keys \cup {NoKey}, f \in Fingerprints : BeginCreate(c, k, f)
                        \/ AbandonCreate(c)
                        \/ \E j \in JobIds : CreateJob(c, j) \/ CreateFails(c, j)
  \/ \E j \in JobIds : Cancel(j) \/ Revise(j) \/ Delete(j) \/ DeleteFails(j) \/ SweepNext(j)
                       \/ Quarantine(j) \/ Recover(j)
  \/ \E w \in Workers : Take(w) \/ Step(w) \/ SaveFails(w)
  \/ BeginSweep \/ Shutdown \/ Crash \/ Serve

Spec == Init /\ [][Next]_vars

\* The threads of the executor and the constructor are scheduled, sleep() ends and a model
\* call returns.  Clients owe nothing.
Fairness == /\ \A w \in Workers : WF_vars(Take(w)) /\ WF_vars(Step(w))
            /\ \A j \in JobIds : WF_vars(Recover(j))
            /\ WF_vars(Serve)

FairSpec == Spec /\ Fairness

-----------------------------------------------------------------------------
(* What the service promises.                                              *)

Record == [status : Live \cup TERMINAL, cancel : BOOLEAN, attempt : Nat,
           stage : Stages, reason : Reasons, key : Keys \cup {NoKey},
           print : Fingerprints \cup {NoKey}, rev : 0 .. MaxRevision]

ASSUME NoRecordAssumption == NoRecord \notin Record

Calls == [pc : {"idle", "decoding"}, key : Keys \cup {NoKey}, print : Fingerprints \cup {NoKey}]

\* Every variable stays in its type: a saved record is one _load() reads back unchanged,
\* with a status and a stage of the documented sets.
TypeOK ==
  /\ job \in [JobIds -> Record \cup {NoRecord}]
  /\ input \subseteq JobIds /\ issued \subseteq JobIds
  /\ phase \in {"recovering", "serving"} /\ accepting \in BOOLEAN
  /\ pending \subseteq JobIds /\ sweep \subseteq JobIds
  /\ queue \in Seq(JobIds)
  /\ pc \in [Workers -> Labels]
  /\ holds \in [Workers -> JobIds \cup {NoJob}]
  /\ request \in [Clients -> Calls]
  /\ crashes \in 0 .. MaxCrashes /\ ioFaults \in 0 .. MaxIoFaults

\* No job is attempted more than max_attempts times, however starting, failing, retrying
\* and failing to write follow each other.
AttemptsBounded == \A j \in JobIds : Exists(j) => job[j].attempt <= MaxAttempts

\* create_from_audio() decodes audio without the lock, so two requests with one
\* Idempotency-Key overlap; still no key ever has two stored jobs.
OneRecordPerKey ==
  \A i, j \in JobIds : Exists(i) /\ Exists(j) /\ job[i].key = job[j].key
                         => i = j \/ job[i].key = NoKey

\* _complete_successfully() and _set_progress_stage() save without asking whether the job
\* is terminal.  They may, because nothing else ends or erases a job inside an attempt:
\* its record is there (unless it was quarantined) and running or cancelling, its stage is
\* the one the thread has reached, and no other thread or queue entry is for the same job.
Queued == {queue[i] : i \in DOMAIN queue}
ReachedStage(l) ==
  CASE l \in {"check_input", "load", "check_audio", "stage_model"} -> "preparing_input"
    [] l \in {"model", "check_result", "stage_final"}              -> "running_model"
    [] l = "complete"                                              -> "finalizing"

AttemptOwnsJob ==
  \A w \in Workers :
    /\ pc[w] \in Attempting =>
         IF Exists(holds[w])
         THEN /\ job[holds[w]].status \in {"running", "cancelling"}
              /\ job[holds[w]].stage = ReachedStage(pc[w])
         ELSE ioFaults > 0
    /\ holds[w] # NoJob => /\ holds[w] \notin Queued
                           /\ \A v \in Workers : holds[v] = holds[w] => v = w

\* Jobs that still wait, run or stop, and executor entries not yet consumed, are never
\* more than max_pending_jobs together, whatever creates overlap (docs/operations.md:42).
QueueBound == Cardinality(pending \cup {j \in JobIds : IsLive(j)}) <= MaxPending

Owned(j) == j \in Queued \/ \E w \in Workers : holds[w] = j /\ pc[w] # "done"

\* While the service accepts work and every write succeeds, each live job is in the
\* executor's queue or on a thread that will still do something for it.
NoJobStranded ==
  phase = "serving" /\ accepting /\ ioFaults = 0 => \A j \in JobIds : IsLive(j) => Owned(j)

\* A job that can still run has its audio: no delete, however it failed, took it.
InputKept == \A j \in JobIds : IsLive(j) => j \in input

\* Once cancellation is asked for, the job ends cancelled, or interrupted by a restart:
\* it never succeeds, fails on its own or goes back to the queue, at whichever point of
\* the attempt the request met the worker.
CancelIsFinal ==
  \A j \in JobIds :
    Exists(j) /\ job[j].cancel =>
      \/ job[j].status \in {"cancelling", "cancelled"}
      \/ job[j].status = "failed" /\ job[j].reason = "interrupted"

\* The snapshot a cleanup() works through never turns into work in progress: a stale id
\* is terminal still, or gone.
SweepSparesLiveJobs == \A j \in sweep : ~IsLive(j)

\* A settled record is never written again but by a reviewer: its result, its reason and
\* its reviewed transcript survive every late step of a worker until it is deleted.
SettledOnlyRevised ==
  [][\A j \in JobIds : Terminal(j) =>
       \/ job'[j] = NoRecord
       \/ job'[j].rev \in {job[j].rev, job[j].rev + 1}
          /\ job'[j] = [job[j] EXCEPT !.rev = job'[j].rev]]_vars

\* The service implements the lifecycle the API documents.
LifecycleState(j) ==
  IF j \notin issued THEN "unborn"
  ELSE IF ~Exists(j) THEN "removed"
  ELSE IF job[j].reason = "interrupted" THEN "interrupted"
  ELSE job[j].status

Lifecycle == INSTANCE JobLifecycle
  WITH state <- [j \in JobIds |-> LifecycleState(j)],
       attempts <- [j \in JobIds |-> IF Exists(j) THEN job[j].attempt ELSE 0]

ImplementsLifecycle == Lifecycle!Spec

\* Every job is settled in the end, and with it every cancellation, unless the service
\* was shut down or a failing write took the job from its thread.
EverySettles ==
  \A j \in JobIds : IsLive(j) ~> (~IsLive(j) \/ ~accepting \/ (~Owned(j) /\ ioFaults > 0))

\* Every executor entry gives its place in max_pending_jobs back, even when writes fail
\* or the record was cancelled, deleted or quarantined while it waited.
SlotComesBack == \A j \in JobIds : j \in pending ~> (j \notin pending \/ ~accepting)

=============================================================================
