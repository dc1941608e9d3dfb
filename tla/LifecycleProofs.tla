-------------------------- MODULE LifecycleProofs --------------------------
(***************************************************************************)
(* The refinement of JobLifecycle by AsrJobs: whatever the threads, the    *)
(* handlers, failing writes and crashes do, one job at a time moves, and   *)
(* it moves along the lifecycle the API documents.                         *)
(***************************************************************************)
EXTENDS OwnershipProofs

\* "interrupted" is a reason of failed records only.
ReasonsFit ==
  \A j \in JobIds : Exists(j) /\ job[j].reason = "interrupted" => job[j].status = "failed"

\* What a thread in an exception handler knows about its job j: a cancellation it is to
\* record was asked for, and a job it is to fail is not back in the queue.
Told(l, j) ==
  /\ (l = "cancelled" /\ IsLive(j)) => job[j].status = "cancelling"
  /\ (l \in {"fatal", "failing"} /\ IsLive(j)) => job[j].status \in {"running", "cancelling"}

AllTold == \A w \in Workers : pc[w] # "idle" => Told(pc[w], holds[w])

Refining == Ownership /\ AttemptsLeft /\ CancelIsFinal /\ ReasonsFit /\ AllTold

-----------------------------------------------------------------------------
(* The invariant.                                                          *)

\* What a caller sees of a record.
Seen(r) == IF r.reason = "interrupted" THEN "interrupted" ELSE r.status

LEMMA SeenUpdates ==
  ASSUME NEW r \in Record
  PROVE  /\ Seen(Cancelled(r)) = "cancelled" /\ Seen(Cancelling(r)) = "cancelling"
         /\ Seen(Running(r)) = "running" /\ Seen(Succeeded(r)) = "succeeded"
         /\ Seen(Failed(r, "error")) = "failed"
         /\ Seen(Failed(r, "interrupted")) = "interrupted"
         /\ Seen(Retrying(r)) = "queued" /\ Seen(Revised(r)) = Seen(r)
         /\ \A t \in Stages : Seen(AtStage(r, t)) = Seen(r)
  <1> USE DEF Record, Seen
  <1>1. Seen(Cancelled(r)) = "cancelled" /\ Seen(Cancelling(r)) = "cancelling"
    BY DEF Cancelled, Cancelling
  <1>2. Seen(Running(r)) = "running" /\ Seen(Succeeded(r)) = "succeeded"
    BY DEF Running, Succeeded
  <1>3. Seen(Failed(r, "error")) = "failed" /\ Seen(Failed(r, "interrupted")) = "interrupted"
    BY DEF Failed
  <1>4. Seen(Retrying(r)) = "queued" /\ Seen(Revised(r)) = Seen(r)
    BY DEF Retrying, Revised
  <1>5. \A t \in Stages : Seen(AtStage(r, t)) = Seen(r)
    BY DEF AtStage
  <1>6. QED
    BY <1>1, <1>2, <1>3, <1>4, <1>5

LEMMA ReasonsStep == TypeOK /\ Held /\ ReasonsFit /\ [Next]_vars => ReasonsFit'
  <1> SUFFICES ASSUME TypeOK, Held, ReasonsFit, [Next]_vars, NEW i \in JobIds, Exists(i)',
                      job'[i].reason = "interrupted"
               PROVE  job'[i].status = "failed"
    BY DEF ReasonsFit
  <1>1. CASE job'[i] = job[i]
    BY <1>1 DEF ReasonsFit, Exists
  <1>2. CASE Born(i)
    BY <1>2 DEF Born, NewJob, TypeOK
  <1>3. CASE Exists(i) /\ job[i] \in Record /\ Changed(job[i], job'[i])
    <2>1. CASE job'[i] \in {Failed(job[i], "error"), Failed(job[i], "interrupted")}
      BY <1>3, <2>1, UpdateAttempts DEF Reasons
    <2>2. CASE job'[i] \in {Cancelled(job[i]), Cancelling(job[i]), Running(job[i]),
                            Retrying(job[i]), Succeeded(job[i])}
      <3>1. Seen(job'[i]) # "interrupted"
        BY <1>3, <2>2, SeenUpdates
      <3>2. QED
        BY <3>1 DEF Seen
    <2>3. CASE job'[i] \in {AtStage(job[i], "running_model"), AtStage(job[i], "finalizing"),
                            Revised(job[i])}
      <3>1. job'[i].reason = job[i].reason /\ job'[i].status = job[i].status
        BY <1>3, <2>3 DEF AtStage, Revised, Record
      <3>2. QED
        BY <1>3, <3>1 DEF ReasonsFit
    <2>4. QED
      BY <1>3, <2>1, <2>2, <2>3 DEF Changed, Undisturbed
  <1>4. QED
    BY <1>1, <1>2, <1>3, RecordStep

LEMMA ToldKept ==
  ASSUME TypeOK, NEW i \in JobIds, NEW l, Told(l, i), Outside(i)
  PROVE  Told(l, i)'
  <1>1. Exists(i) => job[i] \in Record
    BY DEF TypeOK, Exists
  <1>2. CASE job'[i] = job[i]
    BY <1>2 DEF Told, IsLive, Exists
  <1>3. CASE ~Exists(i)'
    BY <1>3 DEF Told, IsLive
  <1>4. CASE Exists(i) /\ job'[i] = Cancelled(job[i])
    BY <1>1, <1>4, UpdateAttempts DEF Told, IsLive, Live
  <1>5. CASE Exists(i) /\ job'[i] = Cancelling(job[i])
    BY <1>1, <1>5, UpdateAttempts DEF Told
  <1>6. CASE Exists(i) /\ job[i].status = "succeeded" /\ job'[i] = Revised(job[i])
    BY <1>1, <1>6, UpdateAttempts DEF Told, IsLive, Live
  <1>7. QED
    BY <1>2, <1>3, <1>4, <1>5, <1>6 DEF Outside

LEMMA OwnTold ==
  ASSUME TypeOK, Held, Refining, NEW w \in Workers, Step(w), ~Finish(w)
  PROVE  Told(pc[w], holds[w])'
  <1> DEFINE j == holds[w]
  <1> USE DEF Own, Goto, Save
  <1>0. pc \in [Workers -> Labels] /\ pc[w] # "idle"
    BY DEF TypeOK, Step, StartAttempt, SafePoint, Compute, SetStage, Complete, MarkCancelled,
       HandleFailure, MarkFailed, Wake, Checks, Computes, Stagings
  <1>1. /\ holds' = holds /\ j \in JobIds
        /\ Fits(pc[w], j) /\ Told(pc[w], j)
    <2>1. holds' = holds
      BY DEF Step, StartAttempt, SafePoint, Compute, SetStage, Complete, MarkCancelled,
         HandleFailure, MarkFailed, Wake
    <2>2. QED
      BY <1>0, <2>1 DEF Held, TypeOK, Refining, Ownership, AllFit, AllTold
  <1>2. ASSUME pc[w] \in Attempting, IsLive(j)
        PROVE  /\ job[j].status \in {"running", "cancelling"}
               /\ CancelAsked(job[j]) => job[j].status = "cancelling"
    BY <1>1, <1>2 DEF Fits, IsLive, CancelAsked, Refining, CancelIsFinal
  <1>3. CASE pc'[w] = "cancelled"
    <2>1. /\ SafePoint(w) \/ SetStage(w) \/ Complete(w)
          /\ pc[w] \in Attempting /\ job' = job /\ CancelAsked(job[j])
      <3>1. ~Compute(w)
        BY <1>0, <1>3, AfterType, LabelsApart DEF Compute, Handling
      <3>2. ~StartAttempt(w) /\ ~MarkCancelled(w) /\ ~HandleFailure(w) /\ ~MarkFailed(w) /\ ~Wake(w)
        BY <1>0, <1>3 DEF StartAttempt, MarkCancelled, HandleFailure, MarkFailed, Wake
      <3>3. \A l \in Checks \cup Stagings : After(l) # "cancelled"
        BY AfterType, LabelsApart DEF Handling
      <3>4. QED
        BY <1>0, <1>3, <3>1, <3>2, <3>3 DEF Step, SafePoint, SetStage, Complete, Attempting
    <2>2. QED
      BY <1>1, <1>2, <1>3, <2>1 DEF Told, IsLive, Exists
  <1>4. CASE pc'[w] = "fatal"
    <2>1. pc[w] \in Attempting /\ job' = job
      <3>1. \A l \in Stagings : After(l) # "fatal"
        BY AfterType, LabelsApart DEF Handling
      <3>2. QED
        BY <1>0, <1>4, <3>1 DEF Step, StartAttempt, SafePoint, Compute, SetStage, Complete,
           MarkCancelled, HandleFailure, MarkFailed, Wake, Attempting
    <2>2. QED
      BY <1>1, <1>2, <1>4, <2>1 DEF Told, IsLive, Exists
  <1>5. CASE pc'[w] = "failing"
    <2>1. HandleFailure(w) /\ job' = job /\ ~(IsLive(j) /\ RetryAllowed(w))
      <3>1. \A l \in Checks \cup Computes \cup Stagings : After(l) # "failing"
        BY AfterType, LabelsApart DEF Handling
      <3>2. QED
        BY <1>0, <1>5, <3>1 DEF Step, StartAttempt, SafePoint, Compute, SetStage, Complete,
           MarkCancelled, HandleFailure, MarkFailed, Wake
    <2>2. ASSUME IsLive(j)
          PROVE  job[j].status \in {"running", "cancelling"}
      <3>1. CASE pc[w] = "fatal"
        BY <1>1, <2>2, <3>1 DEF Told
      <3>2. CASE pc[w] = "retryable"
        <4>1. ~(job[j].attempt < MaxAttempts)
          BY <2>1, <2>2, <3>2 DEF RetryAllowed
        <4>2. job[j].status # "queued"
          BY <1>1, <2>2, <4>1 DEF Refining, AttemptsLeft, IsLive
        <4>3. QED
          BY <2>2, <4>2 DEF IsLive, Live
      <3>3. QED
        BY <2>1, <3>1, <3>2 DEF HandleFailure
    <2>3. QED
      BY <1>1, <1>5, <2>1, <2>2 DEF Told, IsLive, Exists
  <1>6. QED
    BY <1>3, <1>4, <1>5 DEF Told

LEMMA ToldStep == TypeOK /\ Held /\ Refining /\ [Next]_vars => AllTold'
  <1> SUFFICES ASSUME TypeOK, Held, Refining, [Next]_vars, NEW w \in Workers, pc'[w] # "idle"
               PROVE  Told(pc[w], holds[w])'
    BY DEF AllTold
  <1> USE DEF Refining, Ownership
  <1>1. ~Crash
    BY DEF Crash
  <1>2. ~\E j \in JobIds : Recover(j)
    BY DEF Recover, RecoversAlone, threads
  <1>3. CASE Step(w)
    <2>1. ~Finish(w)
      BY DEF Finish, Goto, TypeOK
    <2>2. QED
      BY <1>3, <2>1, OwnTold
  <1>4. CASE ~Step(w) /\ UNCHANGED <<pc[w], holds[w]>>
    <2>1. /\ holds[w] # NoJob /\ holds[w] \in JobIds /\ holds[w] \in issued
          /\ Told(pc[w], holds[w])
      BY <1>4 DEF Held, TypeOK, AllTold, Entries, EntriesIssued
    <2>2. \A v \in Workers : Step(v) => holds[v] # holds[w]
      BY <1>4, <2>1 DEF Entries, EntriesApart
    <2>3. Outside(holds[w])
      BY <1>2, <2>1, <2>2, OutsideThreads, OutsideHolder
    <2>4. \A l, i : (l = pc[w] /\ i = holds[w]) => Told(l, i)'
      BY <2>1, <2>3, ToldKept
    <2>5. QED
      BY <1>4, <2>4 DEF Told
  <1>5. CASE Take(w)
    BY <1>5 DEF Take, Goto, TypeOK, Told
  <1>6. CASE pc'[w] \in {"retryable", "done"}
    BY <1>6 DEF Told
  <1>7. QED
    BY <1>1, <1>3, <1>4, <1>5, <1>6, PcStep

LEMMA RefiningInvariant == Spec => [](TypeOK /\ Held /\ Refining)
  <1>1. Init => AttemptsLeft /\ ReasonsFit /\ AllTold
    BY DEF Init, AttemptsLeft, ReasonsFit, AllTold, Exists
  <1>2. TypeOK /\ Held /\ Refining /\ [Next]_vars => AttemptsLeft' /\ ReasonsFit' /\ AllTold'
    BY AttemptsStep, ReasonsStep, ToldStep DEF Refining
  <1>3. Ownership /\ AttemptsLeft /\ CancelIsFinal /\ ReasonsFit /\ AllTold <=> Refining
    BY DEF Refining
  <1>4. QED
    BY <1>1, <1>2, <1>3, OwnershipInvariant, CancelFinal, PTL DEF Spec

-----------------------------------------------------------------------------
(* The steps.                                                              *)

Count(j) == IF Exists(j) THEN job[j].attempt ELSE 0

\* How the lifecycle lets one job go from state s to t, and its attempts from n to m.
Moved(s, t, n, m) ==
  \/ t = s /\ m = n
  \/ s = "unborn" /\ t \in {"queued", "removed"} /\ m = n
  \/ s = "queued" /\ t = "running" /\ n < MaxAttempts /\ m = n + 1
  \/ s = "running" /\ t = "queued" /\ n < MaxAttempts /\ m = n
  \/ s = "running" /\ t \in {"succeeded", "failed", "cancelling"} /\ m = n
  \/ s \in {"queued", "cancelling"} /\ t = "cancelled" /\ m = n
  \/ s \in Live /\ t = "interrupted" /\ m = n
  \/ s \in Live \cup TERMINAL \cup {"interrupted"} /\ t = "removed" /\ m = 0

\* The same for a record r that a step replaces by s.
Replaced(r, s) == Moved(Seen(r), Seen(s), r.attempt, s.attempt)

LEMMA RecordMoves ==
  ASSUME TypeOK, Held, Refining, [Next]_vars, NEW i \in issued, Exists(i), Exists(i)',
         Replaced(job[i], job'[i])
  PROVE  Moved(LifecycleState(i), LifecycleState(i)', Count(i), Count(i)')
  <1>1. i \in issued'
    BY StoreStep DEF Leaves, Born, Writes, Erases
  <1>2. QED
    BY <1>1 DEF Replaced, LifecycleState, Count, Seen, Exists

\* Which update moves which record.
LEMMA UpdateMoves ==
  ASSUME NEW r \in Record
  PROVE  /\ \A t \in Stages : Replaced(r, AtStage(r, t))
         /\ Replaced(r, Revised(r))
         /\ Seen(r) = "queued" /\ r.attempt < MaxAttempts => Replaced(r, Running(r))
         /\ Seen(r) \in {"queued", "running"} /\ r.attempt < MaxAttempts
              => Replaced(r, Retrying(r))
         /\ Seen(r) = "running" => Replaced(r, Succeeded(r)) /\ Replaced(r, Failed(r, "error"))
         /\ Seen(r) \in {"running", "cancelling"} => Replaced(r, Cancelling(r))
         /\ Seen(r) \in {"queued", "cancelling"} => Replaced(r, Cancelled(r))
         /\ Seen(r) \in Live => Replaced(r, Failed(r, "interrupted"))
  <1>0. {"error", "interrupted"} \subseteq Reasons
    BY DEF Reasons
  <1>1. \A t \in Stages : Replaced(r, AtStage(r, t))
    BY SeenUpdates, UpdateAttempts DEF Replaced, Moved
  <1>2. Replaced(r, Revised(r))
    BY SeenUpdates, UpdateAttempts DEF Replaced, Moved
  <1>3. ASSUME Seen(r) = "queued", r.attempt < MaxAttempts
        PROVE  Replaced(r, Running(r))
    <2>1. Seen(Running(r)) = "running" /\ Running(r).attempt = r.attempt + 1
      BY SeenUpdates, UpdateAttempts
    <2>2. QED
      BY <1>3, <2>1 DEF Replaced, Moved
  <1>4. ASSUME Seen(r) \in {"queued", "running"}, r.attempt < MaxAttempts
        PROVE  Replaced(r, Retrying(r))
    <2>1. Seen(Retrying(r)) = "queued" /\ Retrying(r).attempt = r.attempt
      BY SeenUpdates, UpdateAttempts
    <2>2. QED
      BY <1>4, <2>1 DEF Replaced, Moved
  <1>5. ASSUME Seen(r) = "running"
        PROVE  Replaced(r, Succeeded(r)) /\ Replaced(r, Failed(r, "error"))
    <2>1. /\ Seen(Succeeded(r)) = "succeeded" /\ Succeeded(r).attempt = r.attempt
          /\ Seen(Failed(r, "error")) = "failed" /\ Failed(r, "error").attempt = r.attempt
      BY <1>0, SeenUpdates, UpdateAttempts
    <2>2. QED
      BY <1>5, <2>1 DEF Replaced, Moved
  <1>6. ASSUME Seen(r) \in {"running", "cancelling"}
        PROVE  Replaced(r, Cancelling(r))
    <2>1. Seen(Cancelling(r)) = "cancelling" /\ Cancelling(r).attempt = r.attempt
      BY SeenUpdates, UpdateAttempts
    <2>2. QED
      BY <1>6, <2>1 DEF Replaced, Moved
  <1>7. ASSUME Seen(r) \in {"queued", "cancelling"}
        PROVE  Replaced(r, Cancelled(r))
    <2>1. Seen(Cancelled(r)) = "cancelled" /\ Cancelled(r).attempt = r.attempt
      BY SeenUpdates, UpdateAttempts
    <2>2. QED
      BY <1>7, <2>1 DEF Replaced, Moved
  <1>8. ASSUME Seen(r) \in Live
        PROVE  Replaced(r, Failed(r, "interrupted"))
    <2>1. /\ Seen(Failed(r, "interrupted")) = "interrupted"
          /\ Failed(r, "interrupted").attempt = r.attempt
      BY <1>0, SeenUpdates, UpdateAttempts
    <2>2. QED
      BY <1>8, <2>1 DEF Replaced, Moved
  <1>9. QED
    BY <1>1, <1>2, <1>3, <1>4, <1>5, <1>6, <1>7, <1>8

\* What the invariant says of a live record.
LEMMA LiveRecord ==
  ASSUME TypeOK, Refining, NEW i \in JobIds, IsLive(i)
  PROVE  /\ job[i] \in Record /\ Seen(job[i]) = job[i].status /\ job[i].status \in Live
         /\ (job[i].status = "queued") => (job[i].attempt < MaxAttempts)
         /\ CancelAsked(job[i]) <=> (job[i].status = "cancelling")
  BY DEF TypeOK, IsLive, Live, Exists, Refining, AttemptsLeft, ReasonsFit, CancelIsFinal, Seen,
     CancelAsked

\* A step of the thread that holds the job.
LEMMA OwnMoves ==
  ASSUME TypeOK, Held, Refining, NEW w \in Workers, Step(w), NEW i \in JobIds, holds[w] = i
  PROVE  \/ job'[i] = job[i]
         \/ Exists(i) /\ Exists(i)' /\ Replaced(job[i], job'[i])
  <1> USE DEF Own, Goto, Save
  <1>0. job \in [JobIds -> Record \cup {NoRecord}]
    BY DEF TypeOK
  <1> SUFFICES ASSUME job'[i] # job[i]
               PROVE  Exists(i) /\ job'[i] \in Record /\ Replaced(job[i], job'[i])
    BY NoRecordAssumption DEF Exists
  <1>1. /\ pc[w] \in Attempting \cup {"start"} => Fits(pc[w], i)
        /\ pc[w] \in Handling => Told(pc[w], i)
    BY LabelsApart DEF Refining, Ownership, AllFit, AllTold, Handling
  <1>2. CASE StartAttempt(w)
    <2>1. Startable(i) /\ Exists(i) /\ IsLive(i)
      BY <1>0, <1>2 DEF StartAttempt, Startable, Terminal, IsLive, Exists, Record
    <2>2. job[i].status = "queued"
      BY <1>1, <1>2, <2>1 DEF StartAttempt, Fits
    <2>3. ~CancelAsked(job[i])
      BY <2>1, <2>2, LiveRecord
    <2>4. job'[i] = Running(job[i])
      BY <1>0, <1>2, <2>1, <2>3 DEF StartAttempt
    <2>5. QED
      BY <2>1, <2>2, <2>4, LiveRecord, UpdateMoves, UpdateType
  <1>3. CASE SetStage(w)
    <2>1. /\ Exists(i) /\ job[i] \in Record
          /\ \E t \in {"running_model", "finalizing"} : job'[i] = AtStage(job[i], t)
      BY <1>0, <1>3, StageAtType DEF SetStage, Exists
    <2>2. {"running_model", "finalizing"} \subseteq Stages
      BY DEF Stages
    <2>3. QED
      BY <2>1, <2>2, UpdateMoves, UpdateType
  <1>4. CASE Complete(w)
    <2>1. /\ Exists(i) /\ ~CancelAsked(job[i]) /\ job'[i] = Succeeded(job[i])
          /\ job[i].status \in {"running", "cancelling"}
      BY <1>0, <1>1, <1>4 DEF Complete, Fits, Attempting
    <2>2. IsLive(i) /\ job[i].status = "running"
      BY <2>1 DEF CancelAsked, IsLive, Live
    <2>3. QED
      BY <2>1, <2>2, LiveRecord, UpdateMoves, UpdateType
  <1>5. CASE MarkCancelled(w)
    <2>1. IsLive(i) /\ Exists(i) /\ job'[i] = Cancelled(job[i]) /\ job[i].status = "cancelling"
      BY <1>0, <1>1, <1>5 DEF MarkCancelled, Told, IsLive, Handling
    <2>2. QED
      BY <2>1, LiveRecord, UpdateMoves, UpdateType
  <1>6. CASE HandleFailure(w)
    <2>1. /\ Exists(i) /\ IsLive(i)
          /\ \/ CancelAsked(job[i]) /\ job'[i] = Cancelled(job[i])
             \/ ~CancelAsked(job[i]) /\ job[i].attempt < MaxAttempts /\ job'[i] = Retrying(job[i])
      BY <1>0, <1>6 DEF HandleFailure, IsLive, RetryAllowed
    <2>2. ~CancelAsked(job[i]) => job[i].status \in {"queued", "running"}
      BY <2>1, LiveRecord DEF Live
    <2>3. QED
      BY <2>1, <2>2, LiveRecord, UpdateMoves, UpdateType
  <1>7. CASE MarkFailed(w)
    <2>1. /\ Exists(i) /\ IsLive(i) /\ job[i].status \in {"running", "cancelling"}
          /\ \/ CancelAsked(job[i]) /\ job'[i] = Cancelled(job[i])
             \/ ~CancelAsked(job[i]) /\ job'[i] = Failed(job[i], "error")
      BY <1>0, <1>1, <1>7 DEF MarkFailed, Told, IsLive, Handling
    <2>2. QED
      BY <2>1, LiveRecord, UpdateMoves, UpdateType
  <1>8. QED
    BY <1>2, <1>3, <1>4, <1>5, <1>6, <1>7 DEF Step, SafePoint, Compute, Wake, Finish, store

\* A step of somebody else.
LEMMA OutsideMoves ==
  ASSUME TypeOK, Refining, NEW i \in JobIds, Outside(i)
  PROVE  \/ job'[i] = job[i]
         \/ Exists(i) /\ ~Exists(i)'
         \/ Exists(i) /\ Exists(i)' /\ Replaced(job[i], job'[i])
  <1>1. CASE Exists(i) /\ job[i].status = "queued" /\ job'[i] = Cancelled(job[i])
    <2>1. IsLive(i)
      BY <1>1 DEF IsLive, Live
    <2>2. QED
      BY <1>1, <2>1, LiveRecord, UpdateMoves DEF Exists
  <1>2. CASE /\ Exists(i) /\ job[i].status \in {"running", "cancelling"}
             /\ job'[i] = Cancelling(job[i])
    <2>1. IsLive(i)
      BY <1>2 DEF IsLive, Live
    <2>2. QED
      BY <1>2, <2>1, LiveRecord, UpdateMoves DEF Exists
  <1>3. CASE Exists(i) /\ job'[i] = Revised(job[i])
    BY <1>3, UpdateMoves DEF Exists, TypeOK
  <1>4. CASE ~Exists(i)'
    BY <1>4 DEF Exists
  <1>5. QED
    BY <1>1, <1>2, <1>3, <1>4 DEF Outside

\* Whatever the step is, one job that it touches moves along its lifecycle.
LEMMA JobMoves ==
  ASSUME TypeOK, Held, Refining, [Next]_vars, NEW i \in JobIds
  PROVE  Moved(LifecycleState(i), LifecycleState(i)', Count(i), Count(i)')
  <1>0. issued \subseteq issued'
    BY StoreStep DEF Leaves, Born, Writes, Erases
  <1>1. CASE i \notin issued
    <2>1. ~Exists(i)
      BY <1>1 DEF Refining, Ownership, Known
    <2>2. CASE ~Exists(i)'
      BY <1>1, <2>1, <2>2 DEF Moved, LifecycleState, Count
    <2>3. CASE Born(i)
      <3>1. /\ job'[i].status = "queued" /\ job'[i].attempt = 0 /\ job'[i].reason = "none"
            /\ i \in issued'
        BY <2>3 DEF Born, NewJob, TypeOK
      <3>2. QED
        BY <1>1, <2>1, <3>1 DEF Moved, LifecycleState, Count
    <2>4. QED
      BY <2>1, <2>2, <2>3, RecordStep DEF Exists
  <1>2. CASE i \in issued
    <2>1. CASE job'[i] = job[i]
      BY <1>0, <1>2, <2>1 DEF Moved, LifecycleState, Count, Exists
    <2>2. CASE Exists(i) /\ ~Exists(i)'
      <3>1. LifecycleState(i) \in Live \cup TERMINAL \cup {"interrupted"}
        BY <1>2, <2>2 DEF LifecycleState, TypeOK, Exists, Record
      <3>2. LifecycleState(i)' = "removed" /\ Count(i)' = 0
        BY <1>0, <1>2, <2>2 DEF LifecycleState, Count
      <3>3. QED
        BY <3>1, <3>2 DEF Moved
    <2>3. CASE Exists(i) /\ Exists(i)' /\ Replaced(job[i], job'[i])
      BY <1>2, <2>3, RecordMoves
    <2>4. ASSUME NEW j \in JobIds, Recover(j)
          PROVE  \/ job'[i] = job[i]
                 \/ Exists(i) /\ Exists(i)' /\ Replaced(job[i], job'[i])
      <3>1. CASE i = j
        <4>1. IsLive(i) /\ Exists(i) /\ job'[i] = Failed(job[i], "interrupted")
          BY <2>4, <3>1 DEF Recover, Interrupted, Save, TypeOK, IsLive
        <4>2. Exists(i)'
          BY <4>1, LiveRecord, UpdateType, NoRecordAssumption DEF Exists
        <4>3. QED
          BY <4>1, <4>2, LiveRecord, UpdateMoves
      <3>2. CASE i # j
        BY <2>4, <3>2 DEF Recover, Save, TypeOK
      <3>3. QED
        BY <3>1, <3>2
    <2>5. ASSUME NEW w \in Workers, Step(w), holds[w] = i
          PROVE  \/ job'[i] = job[i]
                 \/ Exists(i) /\ Exists(i)' /\ Replaced(job[i], job'[i])
      BY <2>5, OwnMoves
    <2>6. Outside(i) => \/ job'[i] = job[i]
                        \/ Exists(i) /\ ~Exists(i)'
                        \/ Exists(i) /\ Exists(i)' /\ Replaced(job[i], job'[i])
      BY OutsideMoves
    <2>7. QED
      BY <1>2, <2>1, <2>2, <2>3, <2>4, <2>5, <2>6, OutsideThreads, OutsideHolder
      DEF Refining, Ownership
  <1>3. QED
    BY <1>1, <1>2

\* Every other job stays as it is.
Alone(j) == \A i \in JobIds \ {j} : job'[i] = job[i] /\ (i \in issued' <=> i \in issued)

LEMMA OneJob ==
  ASSUME TypeOK, Held, [Next]_vars
  PROVE  UNCHANGED <<job, issued>> \/ \E j \in JobIds : Alone(j)
  <1> USE DEF store, threads, calls, faults, Own, Save, Erase, Alone, TypeOK
  <1>1. ASSUME NEW c \in Clients, NEW j \in JobIds, CreateJob(c, j) \/ CreateFails(c, j)
        PROVE  Alone(j)
    BY <1>1 DEF CreateJob, CreateFails
  <1>2. ASSUME NEW j \in JobIds,
               Cancel(j) \/ Revise(j) \/ Delete(j) \/ DeleteFails(j) \/ SweepNext(j)
                 \/ Quarantine(j) \/ Recover(j)
        PROVE  Alone(j)
    BY <1>2 DEF Cancel, Revise, Delete, DeleteFails, SweepNext, Quarantine, Recover
  <1>3. ASSUME NEW w \in Workers, Step(w)
        PROVE  UNCHANGED <<job, issued>> \/ \E j \in JobIds : Alone(j)
    <2>1. pc[w] # "idle" => holds[w] \in JobIds
      BY DEF Held
    <2>2. issued' = issued /\ pc[w] # "idle"
      BY <1>3 DEF Step, StartAttempt, SafePoint, Compute, SetStage, Complete, MarkCancelled,
         HandleFailure, MarkFailed, Wake, Finish, Checks, Computes, Stagings
    <2>3. job' = job \/ \E s : job' = [job EXCEPT ![holds[w]] = s]
      BY <1>3 DEF Step, StartAttempt, SafePoint, Compute, SetStage, Complete, MarkCancelled,
         HandleFailure, MarkFailed, Wake, Finish
    <2>4. QED
      BY <2>1, <2>2, <2>3
  <1>4. QED
    BY <1>1, <1>2, <1>3 DEF Next, vars, BeginCreate, AbandonCreate, Take, SaveFails,
       BeginSweep, Shutdown, Crash, Serve

\* What the service shows of its jobs.
States   == [j \in JobIds |-> LifecycleState(j)]
Attempts == [j \in JobIds |-> Count(j)]

\* One job that moves along its lifecycle, alone, is a step of the lifecycle.
LEMMA AbstractStep ==
  ASSUME NEW j \in JobIds, Alone(j),
         Moved(LifecycleState(j), LifecycleState(j)', Count(j), Count(j)')
  PROVE  [Lifecycle!Next]_(Lifecycle!avars)
  <1> DEFINE s == LifecycleState(j)
             t == LifecycleState(j)'
  <1>1. States' = [States EXCEPT ![j] = t] /\ Attempts' = [Attempts EXCEPT ![j] = Count(j)']
    BY DEF Alone, States, Attempts, LifecycleState, Count, Exists
  <1>2. States[j] = s /\ Attempts[j] = Count(j)
    BY DEF States, Attempts
  <1>3. ASSUME NEW S, s \in S
        PROVE  Lifecycle!Becomes(j, S, t)
    BY <1>1, <1>2, <1>3 DEF Lifecycle!Becomes, States
  <1>4. /\ Lifecycle!avars = <<States, Attempts>>
        /\ Lifecycle!avars' = <<States', Attempts'>>
    BY DEF Lifecycle!avars, States, Attempts, Count
  <1>5. Count(j)' = Count(j) => Attempts' = Attempts
    BY <1>1, <1>2 DEF Attempts
  <1>6. CASE t = s /\ Count(j)' = Count(j)
    <2>1. States' = States
      BY <1>1, <1>2, <1>6 DEF States
    <2>2. QED
      BY <1>4, <1>5, <1>6, <2>1
  <1>7. ASSUME Count(j)' = Count(j)
        PROVE  /\ s = "unborn" /\ t = "queued" => Lifecycle!Admit(j)
               /\ s = "unborn" /\ t = "removed" => Lifecycle!Spoil(j)
               /\ s = "running" /\ t = "queued" /\ Count(j) < MaxAttempts => Lifecycle!Requeue(j)
               /\ s = "running" /\ t = "succeeded" => Lifecycle!Succeed(j)
               /\ s = "running" /\ t = "failed" => Lifecycle!Fail(j)
               /\ s = "running" /\ t = "cancelling" => Lifecycle!Cancel(j)
               /\ s \in {"queued", "cancelling"} /\ t = "cancelled" => Lifecycle!Cancel(j)
               /\ s \in Live /\ t = "interrupted" => Lifecycle!Interrupt(j)
    <2>1. Attempts' = Attempts
      BY <1>5, <1>7
    <2>2. Live = Lifecycle!Active
      BY DEF Live, Lifecycle!Active
    <2> HIDE DEF s, t
    <2>3. QED
      BY <1>2, <1>3, <2>1, <2>2 DEF Attempts, Count, Lifecycle!Admit, Lifecycle!Spoil,
         Lifecycle!Requeue, Lifecycle!Succeed, Lifecycle!Fail, Lifecycle!Cancel,
         Lifecycle!Interrupt
  <1>8. s = "queued" /\ t = "running" /\ Count(j) < MaxAttempts /\ Count(j)' = Count(j) + 1
          => Lifecycle!Begin(j)
    BY <1>1, <1>2, <1>3 DEF Attempts, Count, Lifecycle!Begin
  <1>9. s \in Live \cup TERMINAL \cup {"interrupted"} /\ t = "removed" /\ Count(j)' = 0
          => Lifecycle!Remove(j)
    <2>1. Live \cup TERMINAL \cup {"interrupted"} = Lifecycle!Settled \cup Lifecycle!Active
      BY DEF Live, TERMINAL, Lifecycle!Settled, Lifecycle!Active
    <2>2. QED
      BY <1>1, <1>2, <1>3, <2>1 DEF Attempts, Count, Lifecycle!Remove
  <1>10. QED
    BY <1>6, <1>7, <1>8, <1>9 DEF Moved, Lifecycle!Next

\* The threads, the queue, the unlocked gaps of create and cleanup, failing writes and
\* crashes are invisible: what GET shows of every job follows the lifecycle the API
\* documents, attempt by attempt.
THEOREM LifecycleImplemented == Spec => ImplementsLifecycle
  <1>1. Init => Lifecycle!Init
    BY DEF Init, Lifecycle!Init, LifecycleState, Exists
  <1>2. TypeOK /\ Held /\ Refining /\ [Next]_vars => [Lifecycle!Next]_(Lifecycle!avars)
    <2> SUFFICES ASSUME TypeOK, Held, Refining, [Next]_vars
                 PROVE  [Lifecycle!Next]_(Lifecycle!avars)
      OBVIOUS
    <2>1. CASE UNCHANGED <<job, issued>>
      BY <2>1 DEF Lifecycle!avars, LifecycleState, Exists
    <2>2. ASSUME NEW j \in JobIds, Alone(j)
          PROVE  [Lifecycle!Next]_(Lifecycle!avars)
      BY <2>2, JobMoves, AbstractStep
    <2>3. QED
      BY <2>1, <2>2, OneJob
  <1>3. QED
    BY <1>1, <1>2, RefiningInvariant, PTL DEF Spec, ImplementsLifecycle, Lifecycle!Spec

=============================================================================
