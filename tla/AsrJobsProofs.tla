--------------------------- MODULE AsrJobsProofs ---------------------------
(***************************************************************************)
(* Theorems about AsrJobs, for any set of jobs, workers, clients and keys  *)
(* and any bounds.                                                         *)
(***************************************************************************)
EXTENDS AsrJobs, FiniteSetTheorems, TLAPS

\* A thread holds a job exactly when it is not idle.
Held == \A w \in Workers : pc[w] = "idle" <=> holds[w] = NoJob

LEMMA TypeInit == Init => TypeOK
  BY BoundsAssumption DEF Init, TypeOK, Calls, Idle, Labels

LEMMA NewJobType ==
  ASSUME NEW k \in Keys \cup {NoKey}, NEW f \in Fingerprints \cup {NoKey}
  PROVE  NewJob(k, f) \in Record
  BY MaxAttemptsAssumption, BoundsAssumption DEF NewJob, Record, Live, Stages, Reasons

\* Each update of a record gives a record again.
LEMMA UpdateType ==
  ASSUME NEW r \in Record
  PROVE  /\ Cancelled(r) \in Record
         /\ Cancelling(r) \in Record
         /\ Retrying(r) \in Record
         /\ Failed(r, "error") \in Record
         /\ Failed(r, "interrupted") \in Record
         /\ AtStage(r, "running_model") \in Record
         /\ AtStage(r, "finalizing") \in Record
         /\ Succeeded(r) \in Record
         /\ Running(r) \in Record
         /\ r.rev < MaxRevision => [r EXCEPT !.rev = @ + 1] \in Record
  <1> USE DEF Record, Live, TERMINAL, Stages, Reasons
  <1>1. Cancelled(r) \in Record
    BY DEF Cancelled
  <1>2. Cancelling(r) \in Record
    BY DEF Cancelling
  <1>3. Retrying(r) \in Record
    BY DEF Retrying
  <1>4. Failed(r, "error") \in Record /\ Failed(r, "interrupted") \in Record
    BY DEF Failed
  <1>5. AtStage(r, "running_model") \in Record /\ AtStage(r, "finalizing") \in Record
    BY DEF AtStage
  <1>6. Succeeded(r) \in Record
    <2>1. 0 \in 0 .. MaxRevision
      BY BoundsAssumption
    <2>2. QED
      BY <2>1 DEF Succeeded
  <1>7. Running(r) \in Record
    <2>1. r.attempt + 1 \in Nat
      OBVIOUS
    <2>2. QED
      BY <2>1 DEF Running
  <1>8. r.rev < MaxRevision => [r EXCEPT !.rev = @ + 1] \in Record
    BY BoundsAssumption
  <1>9. QED
    BY <1>1, <1>2, <1>3, <1>4, <1>5, <1>6, <1>7, <1>8

LEMMA AfterType == \A l \in Checks \cup Computes \cup Stagings : After(l) \in Attempting
  BY DEF After, Attempting, Checks, Computes, Stagings

LEMMA StageAtType == \A l : StageAt(l) \in {"running_model", "finalizing"}
  BY DEF StageAt

LEMMA LabelTypes == /\ Attempting \cup Handling \cup {"idle", "start", "backoff", "done"} = Labels
                    /\ {"cancelled", "retryable", "fatal", "failing"} \subseteq Labels
                    /\ "check_input" \in Labels
  BY DEF Labels, Handling, Attempting, Checks

\* A thread that does anything else than idle or take a job holds one.
LEMMA TypeStep == TypeOK /\ Held /\ [Next]_vars => TypeOK'
  <1> SUFFICES ASSUME TypeOK, Held, [Next]_vars
               PROVE  TypeOK'
    OBVIOUS
  <1> USE DEF TypeOK, store, threads, calls, faults, Own, Goto, Save
  <1>1. ASSUME NEW c \in Clients, NEW k \in Keys \cup {NoKey}, NEW f \in Fingerprints,
               BeginCreate(c, k, f)
        PROVE  TypeOK'
    BY <1>1 DEF BeginCreate, Calls
  <1>2. ASSUME NEW c \in Clients, AbandonCreate(c)
        PROVE  TypeOK'
    BY <1>2 DEF AbandonCreate, Calls, Idle
  <1>3. ASSUME NEW c \in Clients, NEW j \in JobIds, CreateJob(c, j)
        PROVE  TypeOK'
    <2>1. request[c].key \in Keys \cup {NoKey} /\ request[c].print \in Fingerprints \cup {NoKey}
      BY DEF Calls
    <2>2. NewJob(request[c].key, request[c].print) \in Record
      BY <2>1, NewJobType
    <2>3. Idle \in Calls
      BY DEF Idle, Calls
    <2>4. QED
      BY <1>3, <2>2, <2>3 DEF CreateJob
  <1>4. ASSUME NEW c \in Clients, NEW j \in JobIds, CreateFails(c, j)
        PROVE  TypeOK'
    <2>1. Idle \in Calls
      BY DEF Idle, Calls
    <2>2. ioFaults + 1 \in 0 .. MaxIoFaults
      BY <1>4, BoundsAssumption DEF CreateFails
    <2>3. QED
      BY <1>4, <2>1, <2>2 DEF CreateFails
  <1>5. ASSUME NEW j \in JobIds, Cancel(j)
        PROVE  TypeOK'
    BY <1>5, UpdateType DEF Cancel, Cancellable, IsLive, Exists
  <1>6. ASSUME NEW j \in JobIds, Revise(j)
        PROVE  TypeOK'
    <2>1. job[j] \in Record /\ job[j].rev < MaxRevision
      BY <1>6 DEF Revise, Exists
    <2>2. [job[j] EXCEPT !.rev = @ + 1] \in Record
      BY <2>1, UpdateType
    <2>3. QED
      BY <1>6, <2>2 DEF Revise
  <1>7. ASSUME NEW j \in JobIds, Delete(j)
        PROVE  TypeOK'
    BY <1>7 DEF Delete, Erase
  <1>8. ASSUME NEW j \in JobIds, DeleteFails(j)
        PROVE  TypeOK'
    BY <1>8, BoundsAssumption DEF DeleteFails
  <1>9. ASSUME NEW j \in JobIds, SweepNext(j)
        PROVE  TypeOK'
    BY <1>9 DEF SweepNext, Erase
  <1>10. ASSUME NEW j \in JobIds, Quarantine(j)
        PROVE  TypeOK'
    BY <1>10, BoundsAssumption DEF Quarantine
  <1>11. ASSUME NEW j \in JobIds, Recover(j)
        PROVE  TypeOK'
    BY <1>11, UpdateType DEF Recover, Interrupted, IsLive, Exists
  <1>12. ASSUME NEW w \in Workers, Take(w)
        PROVE  TypeOK'
    <2>1. Head(queue) \in JobIds /\ Tail(queue) \in Seq(JobIds)
      BY <1>12 DEF Take
    <2>2. QED
      BY <1>12, <2>1, LabelTypes DEF Take
  <1>13. ASSUME NEW w \in Workers, Step(w)
        PROVE  TypeOK'
    <2> USE LabelTypes
    <2>1. pc[w] # "idle" => holds[w] \in JobIds
      BY DEF Held
    <2>2. CASE StartAttempt(w)
      <3>1. holds[w] \in JobIds
        BY <2>1, <2>2 DEF StartAttempt
      <3>2. Startable(holds[w]) => /\ Running(job[holds[w]]) \in Record
                                   /\ Cancelled(job[holds[w]]) \in Record
        BY <3>1, UpdateType DEF Startable, Exists
      <3>3. QED
        BY <2>2, <3>1, <3>2 DEF StartAttempt
    <2>3. CASE SafePoint(w)
      BY <2>3, AfterType DEF SafePoint
    <2>4. CASE Compute(w)
      BY <2>4, AfterType DEF Compute
    <2>5. CASE SetStage(w)
      <3>1. holds[w] \in JobIds
        BY <2>1, <2>5 DEF SetStage, Stagings
      <3>2. Exists(holds[w]) => AtStage(job[holds[w]], StageAt(pc[w])) \in Record
        BY <3>1, UpdateType, StageAtType DEF Exists
      <3>3. After(pc[w]) \in Attempting
        BY <2>5, AfterType DEF SetStage
      <3>4. QED
        BY <2>5, <3>1, <3>2, <3>3 DEF SetStage
    <2>6. CASE Complete(w)
      <3>1. holds[w] \in JobIds
        BY <2>1, <2>6 DEF Complete
      <3>2. Exists(holds[w]) => Succeeded(job[holds[w]]) \in Record
        BY <3>1, UpdateType DEF Exists
      <3>3. QED
        BY <2>6, <3>1, <3>2 DEF Complete
    <2>7. CASE MarkCancelled(w)
      <3>1. holds[w] \in JobIds
        BY <2>1, <2>7 DEF MarkCancelled
      <3>2. IsLive(holds[w]) => Cancelled(job[holds[w]]) \in Record
        BY <3>1, UpdateType DEF IsLive, Exists
      <3>3. QED
        BY <2>7, <3>1, <3>2 DEF MarkCancelled
    <2>8. CASE HandleFailure(w)
      <3>1. holds[w] \in JobIds
        BY <2>1, <2>8 DEF HandleFailure
      <3>2. IsLive(holds[w]) => /\ Cancelled(job[holds[w]]) \in Record
                                /\ Retrying(job[holds[w]]) \in Record
        BY <3>1, UpdateType DEF IsLive, Exists
      <3>3. QED
        BY <2>8, <3>1, <3>2 DEF HandleFailure
    <2>9. CASE MarkFailed(w)
      <3>1. holds[w] \in JobIds
        BY <2>1, <2>9 DEF MarkFailed
      <3>2. IsLive(holds[w]) => /\ Cancelled(job[holds[w]]) \in Record
                                /\ Failed(job[holds[w]], "error") \in Record
        BY <3>1, UpdateType DEF IsLive, Exists
      <3>3. QED
        BY <2>9, <3>1, <3>2 DEF MarkFailed
    <2>10. CASE Wake(w)
      BY <2>10 DEF Wake
    <2>11. CASE Finish(w)
      BY <2>11 DEF Finish
    <2>12. QED
      BY <1>13, <2>2, <2>3, <2>4, <2>5, <2>6, <2>7, <2>8, <2>9, <2>10, <2>11 DEF Step
  <1>14. ASSUME NEW w \in Workers, SaveFails(w)
        PROVE  TypeOK'
    BY <1>14, BoundsAssumption, LabelTypes DEF SaveFails
  <1>15. CASE BeginSweep
    BY <1>15 DEF BeginSweep, Sweepable
  <1>16. CASE Shutdown
    <2>1. <<>> \in Seq(JobIds) /\ FALSE \in BOOLEAN
      OBVIOUS
    <2>2. /\ queue' = <<>> /\ accepting' = FALSE
          /\ UNCHANGED <<job, input, issued, phase, pending, pc, holds, request, sweep,
                         crashes, ioFaults>>
      BY <1>16 DEF Shutdown
    <2>3. QED
      BY <2>1, <2>2
  <1>17. CASE Crash
    BY <1>17, BoundsAssumption, LabelTypes DEF Crash, Idle, Calls
  <1>18. CASE Serve
    BY <1>18 DEF Serve
  <1>19. CASE UNCHANGED vars
    BY <1>19 DEF vars
  <1>20. QED
    BY <1>1, <1>2, <1>3, <1>4, <1>5, <1>6, <1>7, <1>8, <1>9, <1>10, <1>11, <1>12, <1>13,
       <1>14, <1>15, <1>16, <1>17, <1>18, <1>19 DEF Next

\* Only taking a job, finishing it and a crash change what a thread holds.
LEMMA HeldStep == TypeOK /\ Held /\ [Next]_vars => Held'
  <1> SUFFICES ASSUME TypeOK, Held, [Next]_vars
               PROVE  Held'
    OBVIOUS
  <1> USE DEF store, threads, calls, faults
  <1>1. ASSUME NEW w \in Workers, Take(w)
        PROVE  Held'
    <2>1. Head(queue) \in JobIds
      BY <1>1 DEF Take, TypeOK
    <2>2. QED
      BY <1>1, <2>1, NoJobAssumption DEF Take, Goto, Held, TypeOK
  <1>2. ASSUME NEW w \in Workers, Finish(w)
        PROVE  Held'
    BY <1>2 DEF Finish, Goto, Held, TypeOK
  <1>3. CASE Crash
    BY <1>3 DEF Crash, Held
  <1>4. ASSUME NEW w \in Workers, NEW l \in Labels \ {"idle"},
               pc[w] # "idle", Goto(w, l), UNCHANGED holds
        PROVE  Held'
    BY <1>4 DEF Goto, Held, TypeOK
  <1>5. ASSUME NEW w \in Workers, Step(w) \/ SaveFails(w), ~Finish(w)
        PROVE  Held'
    <2>1. Handling \cup {"start", "backoff", "done"} \subseteq Labels \ {"idle"}
      BY DEF Handling, Labels
    <2>2. Attempting \subseteq Labels \ {"idle"}
      BY DEF Attempting, Labels, Checks, Computes, Stagings
    <2>3. pc[w] # "idle" /\ UNCHANGED holds
      BY <1>5 DEF Step, SaveFails, StartAttempt, SafePoint, Compute, SetStage, Complete,
         MarkCancelled, HandleFailure, MarkFailed, Wake, Own, Checks, Computes, Stagings,
         RetryAllowed
    <2>4. \E l \in Labels \ {"idle"} : Goto(w, l)
      <3>1. CASE SafePoint(w) \/ Compute(w) \/ SetStage(w)
        BY <3>1, <2>1, <2>2, AfterType DEF SafePoint, Compute, SetStage, Handling
      <3>2. CASE ~(SafePoint(w) \/ Compute(w) \/ SetStage(w))
        BY <3>2, <1>5, <2>1, <2>2 DEF Step, SaveFails, StartAttempt, Complete, MarkCancelled,
           HandleFailure, MarkFailed, Wake, Handling, Attempting, Checks
      <3>3. QED
        BY <3>1, <3>2
    <2>5. QED
      BY <2>3, <2>4, <1>4
  <1>6. CASE UNCHANGED <<pc, holds>>
    BY <1>6 DEF Held
  <1>7. QED
    BY <1>1, <1>2, <1>3, <1>5, <1>6 DEF Next, vars, BeginCreate, AbandonCreate, CreateJob,
       CreateFails, Cancel, Revise, Delete, DeleteFails, SweepNext, Quarantine, Recover,
       BeginSweep, Shutdown, Serve, Erase, Save

LEMMA TypeInvariant == Spec => [](TypeOK /\ Held)
  <1>1. Init => TypeOK /\ Held
    <2>1. Init => Held
      BY DEF Init, Held
    <2>2. QED
      BY <2>1, TypeInit
  <1>2. TypeOK /\ Held /\ [Next]_vars => (TypeOK /\ Held)'
    BY TypeStep, HeldStep
  <1>3. QED
    BY <1>1, <1>2, PTL DEF Spec

\* Every variable stays in its type, for every set of jobs, threads and keys: the records
\* _save() writes are records _load() accepts, with documented statuses and stages.
THEOREM TypeCorrect == Spec => []TypeOK
  BY TypeInvariant, PTL

-----------------------------------------------------------------------------
(* How a step may change one record.  The invariants about records follow  *)
(* from this list, whatever the threads and the handlers do.               *)

Born(j) == /\ j \notin issued /\ issued' = issued \cup {j}
           /\ \E k \in Keys \cup {NoKey}, f \in Fingerprints \cup {NoKey} :
                ~Answered(k) /\ HasCapacity /\ job' = [job EXCEPT ![j] = NewJob(k, f)]
           /\ input' = input \cup {j}
           /\ pending' = pending \cup {j}

Revised(r) == [r EXCEPT !.rev = @ + 1]

\* The updates of a record that no cancellation has been asked for.
Undisturbed(r, s) ==
  /\ ~CancelAsked(r)
  /\ \/ s \in {AtStage(r, "running_model"), AtStage(r, "finalizing"), Succeeded(r)}
     \/ r.status \in Live /\ s \in {Running(r), Retrying(r), Failed(r, "error")}

Changed(r, s) ==
  \/ r.status \in Live /\ s \in {Cancelled(r), Cancelling(r), Failed(r, "interrupted")}
  \/ r.status = "succeeded" /\ s = Revised(r)
  \/ Undisturbed(r, s)

\* A step writes one record, at most, and keeps its audio; or it erases a record.
Writes(j) == /\ Exists(j)
             /\ \E s \in Record : Changed(job[j], s) /\ job' = [job EXCEPT ![j] = s]
             /\ UNCHANGED <<input, issued>> /\ pending' \subseteq pending

\* input' keeps the audio of every other job, and that of j as long as it can run.
Erases(j) == /\ job' = [job EXCEPT ![j] = NoRecord] \/ job' = job
             /\ input \ {j} \subseteq input'
             /\ IsLive(j) => input' = input
             /\ UNCHANGED issued /\ pending' \subseteq pending

Leaves == /\ job' = job /\ input \subseteq input' /\ issued \subseteq issued'
          /\ pending' \subseteq pending

LEMMA StoreStep ==
  TypeOK /\ Held /\ [Next]_vars
    => Leaves \/ \E j \in JobIds : Born(j) \/ Writes(j) \/ Erases(j)
  <1> SUFFICES ASSUME TypeOK, Held, [Next]_vars
               PROVE  Leaves \/ \E j \in JobIds : Born(j) \/ Writes(j) \/ Erases(j)
    OBVIOUS
  <1> USE DEF store, threads, calls, faults
  <1>1. ASSUME NEW j \in JobIds, Exists(j)
        PROVE  job[j] \in Record
    BY <1>1 DEF TypeOK, Exists
  <1>2. ASSUME NEW j \in JobIds, NEW s, Exists(j), Changed(job[j], s), s \in Record,
               Save(j, s), UNCHANGED <<input, issued, pending>>
        PROVE  Writes(j)
    BY <1>2 DEF Writes, Save
  <1>3. ASSUME NEW c \in Clients, NEW j \in JobIds, CreateJob(c, j)
        PROVE  Born(j)
    <2>1. request[c].key \in Keys \cup {NoKey} /\ request[c].print \in Fingerprints \cup {NoKey}
      BY DEF TypeOK, Calls
    <2>2. QED
      BY <1>3, <2>1 DEF CreateJob, Born, StillAdmissible, Admissible
  <1>4. ASSUME NEW c \in Clients, NEW j \in JobIds, CreateFails(c, j)
        PROVE  Leaves
    BY <1>4 DEF CreateFails, Leaves
  <1>5. ASSUME NEW j \in JobIds, Cancel(j)
        PROVE  Writes(j)
    BY <1>5, <1>1, <1>2, UpdateType DEF Cancel, Cancellable, IsLive, Changed, Save
  <1>6. ASSUME NEW j \in JobIds, Revise(j)
        PROVE  Writes(j)
    <2>1. Revised(job[j]) \in Record
      BY <1>6, <1>1, UpdateType DEF Revise, Revised
    <2>2. Changed(job[j], Revised(job[j]))
      BY <1>6 DEF Revise, Changed
    <2>3. job' = [job EXCEPT ![j] = Revised(job[j])]
      BY <1>6 DEF Revise, Revised
    <2>4. QED
      BY <1>6, <2>1, <2>2, <2>3, <1>2 DEF Revise, Save
  <1>7. ASSUME NEW j \in JobIds,
               Delete(j) \/ DeleteFails(j) \/ SweepNext(j) \/ Quarantine(j)
        PROVE  Leaves \/ Erases(j)
    BY <1>7 DEF Delete, DeleteFails, SweepNext, Quarantine, Erase, Deletable, Terminal, IsLive,
       Live, TERMINAL, Leaves, Erases
  <1>8. ASSUME NEW j \in JobIds, Recover(j)
        PROVE  Writes(j)
    BY <1>8, <1>1, <1>2, UpdateType DEF Recover, Interrupted, IsLive, Changed
  <1>9. ASSUME NEW w \in Workers, Step(w)
        PROVE  Leaves \/ (holds[w] \in JobIds /\ Writes(holds[w]))
    <2>1. pc[w] # "idle" => holds[w] \in JobIds
      BY DEF Held, TypeOK
    <2>2. Exists(holds[w]) /\ ~Terminal(holds[w]) => pc[w] = "idle" \/ IsLive(holds[w])
      BY <2>1, <1>1 DEF Terminal, IsLive, Record
    <2>3. CASE StartAttempt(w)
      <3>1. holds[w] \in JobIds
        BY <2>1, <2>3 DEF StartAttempt
      <3>2. CASE Startable(holds[w])
        <4>1. job[holds[w]] \in Record /\ IsLive(holds[w]) /\ Exists(holds[w])
          BY <3>1, <3>2, <2>2, <2>3, <1>1 DEF Startable, StartAttempt
        <4>2. Running(job[holds[w]]) \in Record /\ Cancelled(job[holds[w]]) \in Record
          BY <4>1, UpdateType
        <4>3. QED
          BY <2>3, <3>1, <3>2, <4>1, <4>2, <1>2 DEF StartAttempt, Changed, Undisturbed, IsLive, Own
      <3>3. CASE ~Startable(holds[w])
        BY <2>3, <3>3 DEF StartAttempt, Leaves, Own
      <3>4. QED
        BY <3>2, <3>3
    <2>4. CASE SafePoint(w) \/ Compute(w) \/ Wake(w) \/ Finish(w)
      BY <2>4 DEF SafePoint, Compute, Wake, Finish, Own, Leaves
    <2>5. CASE SetStage(w)
      <3>1. holds[w] \in JobIds
        BY <2>1, <2>5 DEF SetStage, Stagings
      <3>2. Exists(holds[w]) => AtStage(job[holds[w]], StageAt(pc[w])) \in Record
        BY <3>1, <1>1, UpdateType, StageAtType
      <3>3. QED
        BY <2>5, <3>1, <3>2, <1>2, StageAtType DEF SetStage, Changed, Undisturbed, Own, Leaves
    <2>6. CASE Complete(w)
      <3>1. holds[w] \in JobIds
        BY <2>1, <2>6 DEF Complete
      <3>2. Exists(holds[w]) => Succeeded(job[holds[w]]) \in Record
        BY <3>1, <1>1, UpdateType
      <3>3. QED
        BY <2>6, <3>1, <3>2, <1>2 DEF Complete, Changed, Undisturbed, Own, Leaves
    <2>7. CASE MarkCancelled(w)
      <3>1. holds[w] \in JobIds
        BY <2>1, <2>7 DEF MarkCancelled
      <3>2. IsLive(holds[w]) => Cancelled(job[holds[w]]) \in Record
        BY <3>1, <1>1, UpdateType DEF IsLive
      <3>3. QED
        BY <2>7, <3>1, <3>2, <1>2 DEF MarkCancelled, Changed, IsLive, Own, Leaves
    <2>8. CASE HandleFailure(w)
      <3>1. holds[w] \in JobIds
        BY <2>1, <2>8 DEF HandleFailure
      <3>2. IsLive(holds[w]) => /\ Cancelled(job[holds[w]]) \in Record
                                /\ Retrying(job[holds[w]]) \in Record
        BY <3>1, <1>1, UpdateType DEF IsLive
      <3>3. QED
        BY <2>8, <3>1, <3>2, <1>2 DEF HandleFailure, Changed, Undisturbed, IsLive, Own, Leaves
    <2>9. CASE MarkFailed(w)
      <3>1. holds[w] \in JobIds
        BY <2>1, <2>9 DEF MarkFailed
      <3>2. IsLive(holds[w]) => /\ Cancelled(job[holds[w]]) \in Record
                                /\ Failed(job[holds[w]], "error") \in Record
        BY <3>1, <1>1, UpdateType DEF IsLive
      <3>3. QED
        BY <2>9, <3>1, <3>2, <1>2 DEF MarkFailed, Changed, Undisturbed, IsLive, Own, Leaves
    <2>10. QED
      BY <1>9, <2>3, <2>4, <2>5, <2>6, <2>7, <2>8, <2>9 DEF Step
  <1>10. ASSUME NEW w \in Workers, Take(w) \/ SaveFails(w)
         PROVE  Leaves
    BY <1>10 DEF Take, SaveFails, Own, Leaves
  <1>11. CASE BeginSweep \/ Shutdown \/ Crash \/ Serve \/ UNCHANGED vars
    BY <1>11 DEF BeginSweep, Shutdown, Crash, Serve, vars, Leaves
  <1>12. ASSUME NEW c \in Clients, NEW k, NEW f, BeginCreate(c, k, f) \/ AbandonCreate(c)
         PROVE  Leaves
    BY <1>12 DEF BeginCreate, AbandonCreate, Leaves
  <1>13. QED
    BY <1>3, <1>4, <1>5, <1>6, <1>7, <1>8, <1>9, <1>10, <1>11, <1>12 DEF Next

\* The same, seen from one job.
LEMMA RecordStep ==
  ASSUME TypeOK, Held, [Next]_vars, NEW i \in JobIds
  PROVE  \/ job'[i] = job[i]
         \/ ~Exists(i)'
         \/ Born(i)
         \/ Exists(i) /\ job[i] \in Record /\ Changed(job[i], job'[i])
  <1>1. CASE Leaves
    BY <1>1 DEF Leaves
  <1>2. ASSUME NEW j \in JobIds, Born(j)
        PROVE  job'[i] = job[i] \/ Born(i)
    BY <1>2 DEF Born, TypeOK
  <1>3. ASSUME NEW j \in JobIds, Writes(j)
        PROVE  \/ job'[i] = job[i]
               \/ Exists(i) /\ job[i] \in Record /\ Changed(job[i], job'[i])
    <2>1. PICK s \in Record : Changed(job[j], s) /\ job' = [job EXCEPT ![j] = s]
      BY <1>3 DEF Writes
    <2>2. job[j] \in Record /\ Exists(j)
      BY <1>3 DEF Writes, TypeOK, Exists
    <2>3. CASE i = j
      <3>1. job'[i] = s
        BY <2>1, <2>3 DEF TypeOK
      <3>2. QED
        BY <2>1, <2>2, <2>3, <3>1
    <2>4. CASE i # j
      BY <2>1, <2>4 DEF TypeOK
    <2>5. QED
      BY <2>3, <2>4
  <1>4. ASSUME NEW j \in JobIds, Erases(j)
        PROVE  job'[i] = job[i] \/ ~Exists(i)'
    BY <1>4 DEF Erases, TypeOK, Exists
  <1>5. QED
    BY <1>1, <1>2, <1>3, <1>4, StoreStep

\* A born job is a new, queued record under a key that no stored job answers for.
LEMMA BornRecord ==
  ASSUME TypeOK, NEW j \in JobIds, Born(j)
  PROVE  /\ job'[j].status = "queued" /\ job'[j].cancel = FALSE
         /\ job'[j].key = NoKey \/ ~Answered(job'[j].key)
         /\ j \in issued' /\ HasCapacity
         /\ \A i \in JobIds \ {j} : job'[i] = job[i]
  BY DEF Born, NewJob, TypeOK

\* No update changes the key of a record, and none brings a settled record back to life.
LEMMA ChangedKeeps ==
  ASSUME NEW r \in Record, NEW s, Changed(r, s)
  PROVE  s.key = r.key /\ (s.status \in Live => r.status \in Live)
  <1>1. CASE s = Cancelled(r)
    BY <1>1 DEF Record, Cancelled, Live
  <1>2. CASE s = Cancelling(r) /\ r.status \in Live
    BY <1>2 DEF Record, Cancelling
  <1>3. CASE s = Failed(r, "interrupted") \/ s = Failed(r, "error")
    BY <1>3 DEF Record, Failed, Live
  <1>4. CASE s = Revised(r)
    BY <1>4 DEF Record, Revised
  <1>5. CASE s = AtStage(r, "running_model") \/ s = AtStage(r, "finalizing")
    BY <1>5 DEF Record, AtStage
  <1>6. CASE s = Succeeded(r)
    BY <1>6 DEF Record, Succeeded, Live
  <1>7. CASE s = Running(r) /\ r.status \in Live
    BY <1>7 DEF Record, Running
  <1>8. CASE s = Retrying(r) /\ r.status \in Live
    BY <1>8 DEF Record, Retrying
  <1>9. QED
    BY <1>1, <1>2, <1>3, <1>4, <1>5, <1>6, <1>7, <1>8 DEF Changed, Undisturbed

\* A job that is live after a step was live before it, or was created by it.
LEMMA LiveStep ==
  ASSUME TypeOK, Held, [Next]_vars, NEW i \in JobIds, IsLive(i)'
  PROVE  IsLive(i) \/ Born(i)
  BY RecordStep, ChangedKeeps DEF IsLive, Exists

-----------------------------------------------------------------------------
(* The invariants.                                                         *)

\* Once cancellation is asked for, no step of any thread, at whichever point of the
\* attempt it is, takes the job anywhere but to cancelled or, by a restart, interrupted.
THEOREM CancelFinal == Spec => []CancelIsFinal
  <1>1. Init => CancelIsFinal
    BY DEF Init, CancelIsFinal, Exists
  <1>2. TypeOK /\ Held /\ CancelIsFinal /\ [Next]_vars => CancelIsFinal'
    <2> SUFFICES ASSUME TypeOK, Held, CancelIsFinal, [Next]_vars,
                        NEW i \in JobIds, Exists(i)', job'[i].cancel
                 PROVE  \/ job'[i].status \in {"cancelling", "cancelled"}
                        \/ job'[i].status = "failed" /\ job'[i].reason = "interrupted"
      BY DEF CancelIsFinal
    <2>1. CASE job'[i] = job[i]
      BY <2>1 DEF CancelIsFinal, Exists
    <2>2. CASE Born(i)
      BY <2>2, BornRecord
    <2>3. CASE Exists(i) /\ job[i] \in Record /\ Changed(job[i], job'[i])
      <3>1. CASE job[i].status \in Live
                 /\ job'[i] \in {Cancelled(job[i]), Cancelling(job[i]),
                                  Failed(job[i], "interrupted")}
        <4>1. CASE job'[i] = Cancelled(job[i])
          BY <2>3, <4>1 DEF Record, Cancelled
        <4>2. CASE job'[i] = Cancelling(job[i])
          BY <2>3, <4>2 DEF Record, Cancelling
        <4>3. CASE job'[i] = Failed(job[i], "interrupted")
          BY <2>3, <4>3 DEF Record, Failed
        <4>4. QED
          BY <3>1, <4>1, <4>2, <4>3
      <3>2. CASE job[i].status = "succeeded" /\ job'[i] = Revised(job[i])
        BY <2>3, <3>2 DEF Record, Revised, CancelIsFinal
      <3>3. CASE Undisturbed(job[i], job'[i])
        BY <2>3, <3>3 DEF Record, Undisturbed, CancelAsked, AtStage, Succeeded, Running,
           Retrying, Failed
      <3>4. QED
        BY <2>3, <3>1, <3>2, <3>3 DEF Changed
    <2>4. QED
      BY <2>1, <2>2, <2>3, RecordStep
  <1>3. QED
    BY <1>1, <1>2, TypeInvariant, PTL DEF Spec

\* However many create_from_audio() calls with one Idempotency-Key overlap while their
\* audio is decoded, one job is stored for the key: the second lookup is under the lock.
THEOREM KeysUnique == Spec => []OneRecordPerKey
  <1>1. Init => OneRecordPerKey
    BY DEF Init, OneRecordPerKey, Exists
  <1>2. TypeOK /\ Held /\ OneRecordPerKey /\ [Next]_vars => OneRecordPerKey'
    <2> SUFFICES ASSUME TypeOK, Held, OneRecordPerKey, [Next]_vars,
                        NEW i \in JobIds, NEW j \in JobIds, i # j,
                        Exists(i)', Exists(j)', job'[i].key = job'[j].key
                 PROVE  job'[i].key = NoKey
      BY DEF OneRecordPerKey
    <2>1. ASSUME NEW k \in JobIds, Exists(k)', ~Born(k)
          PROVE  Exists(k) /\ job'[k].key = job[k].key
      BY <2>1, RecordStep, ChangedKeeps DEF Exists
    <2>2. ASSUME NEW k \in JobIds, NEW m \in JobIds, k # m, Born(k), Exists(m)',
                 job'[k].key = job'[m].key
          PROVE  job'[k].key = NoKey
      <3>1. job'[m] = job[m] /\ Exists(m)
        BY <2>2, BornRecord DEF Exists
      <3>2. QED
        BY <2>2, <3>1, BornRecord DEF Answered, Answers, Exists
    <2>3. QED
      BY <2>1, <2>2 DEF OneRecordPerKey
  <1>3. QED
    BY <1>1, <1>2, TypeInvariant, PTL DEF Spec

\* Whatever delete, cleanup or failing unlink takes away, a job that can still run has
\* its audio.
THEOREM InputSafe == Spec => []InputKept
  <1>1. Init => InputKept
    BY DEF Init, InputKept, IsLive, Exists
  <1>2. TypeOK /\ Held /\ InputKept /\ [Next]_vars => InputKept'
    <2> SUFFICES ASSUME TypeOK, Held, InputKept, [Next]_vars, NEW i \in JobIds, IsLive(i)'
                 PROVE  i \in input'
      BY DEF InputKept
    <2>1. IsLive(i) => i \in input
      BY DEF InputKept
    <2>2. CASE Born(i)
      BY <2>2 DEF Born
    <2>3. CASE IsLive(i)
      <3>1. ASSUME NEW j \in JobIds, Erases(j)
            PROVE  i \in input'
        BY <3>1, <2>1, <2>3 DEF Erases
      <3>2. QED
        BY <3>1, <2>1, <2>3, StoreStep DEF Leaves, Born, Writes
    <2>4. QED
      BY <2>2, <2>3, LiveStep
  <1>3. QED
    BY <1>1, <1>2, TypeInvariant, PTL DEF Spec

\* The jobs that count against max_pending_jobs.
Counted == pending \cup {j \in JobIds : IsLive(j)}

LEMMA CountedFinite == ASSUME TypeOK PROVE IsFiniteSet(Counted) /\ Cardinality(Counted) \in Nat
  <1>1. Counted \subseteq JobIds
    BY DEF Counted, TypeOK
  <1>2. IsFiniteSet(Counted)
    BY <1>1, FiniteAssumption, FS_Subset
  <1>3. QED
    BY <1>2, FS_CardinalityType

\* Overlapping create calls, retries, cancels of queued jobs and failing writes never
\* bring the unconsumed executor entries and live jobs above max_pending_jobs.
THEOREM QueueBounded == Spec => []QueueBound
  <1>1. Init => QueueBound
    <2> SUFFICES ASSUME Init PROVE QueueBound
      OBVIOUS
    <2>1. Counted = {}
      BY DEF Init, Counted, IsLive, Exists
    <2>2. Cardinality(Counted) = 0
      BY <2>1, FS_EmptySet
    <2>3. QED
      BY <2>2, BoundsAssumption DEF QueueBound, Counted
  <1>2. TypeOK /\ Held /\ QueueBound /\ [Next]_vars => QueueBound'
    <2> SUFFICES ASSUME TypeOK, Held, QueueBound, [Next]_vars
                 PROVE  Cardinality(Counted') <= MaxPending
      BY DEF QueueBound, Counted
    <2>1. IsFiniteSet(Counted) /\ Cardinality(Counted) \in Nat
          /\ Cardinality(Counted) <= MaxPending
      BY CountedFinite DEF QueueBound, Counted
    <2>2. CASE Counted' \subseteq Counted
      <3>1. Cardinality(Counted') \in Nat /\ Cardinality(Counted') <= Cardinality(Counted)
        BY <2>1, <2>2, FS_Subset, FS_CardinalityType
      <3>2. QED
        BY <2>1, <3>1, BoundsAssumption
    <2>3. ASSUME NEW j \in JobIds, Born(j)
          PROVE  Cardinality(Counted') <= MaxPending
      <3>1. Cardinality(Counted) < MaxPending
        BY <2>3 DEF Born, HasCapacity, Counted
      <3>2. Counted' \subseteq Counted \cup {j}
        <4>1. ASSUME NEW i \in JobIds, IsLive(i)', i # j
              PROVE  IsLive(i)
          BY <2>3, <4>1, BornRecord DEF IsLive, Exists
        <4>2. pending' = pending \cup {j}
          BY <2>3 DEF Born
        <4>3. QED
          BY <4>1, <4>2 DEF Counted
      <3>3. IsFiniteSet(Counted \cup {j})
            /\ Cardinality(Counted \cup {j}) \in {Cardinality(Counted), Cardinality(Counted) + 1}
        BY <2>1, FS_AddElement
      <3>4. Cardinality(Counted') \in Nat
            /\ Cardinality(Counted') <= Cardinality(Counted \cup {j})
        BY <3>2, <3>3, FS_Subset, FS_CardinalityType
      <3>5. QED
        BY <2>1, <3>1, <3>3, <3>4, BoundsAssumption
    <2>4. ASSUME \A j \in JobIds : ~Born(j)
          PROVE  Counted' \subseteq Counted
      <3>1. pending' \subseteq pending
        BY <2>4, StoreStep DEF Leaves, Writes, Erases
      <3>2. \A i \in JobIds : IsLive(i)' => IsLive(i)
        BY <2>4, LiveStep
      <3>3. QED
        BY <3>1, <3>2 DEF Counted
    <2>5. QED
      BY <2>2, <2>3, <2>4
  <1>3. QED
    BY <1>1, <1>2, TypeInvariant, PTL DEF Spec

\* Ids are drawn once: whatever is stored or still to be swept was issued.
Known == sweep \subseteq issued /\ \A j \in JobIds : Exists(j) => j \in issued

LEMMA SweepStep ==
  ASSUME TypeOK, Held, [Next]_vars
  PROVE  \/ sweep' \subseteq sweep
         \/ sweep' \subseteq Sweepable /\ UNCHANGED <<job, issued>>
  <1> USE DEF store, threads, calls, faults, Own
  <1>1. ASSUME NEW w \in Workers, Take(w) \/ Step(w) \/ SaveFails(w)
        PROVE  sweep' = sweep
    BY <1>1 DEF Take, Step, SaveFails, StartAttempt, SafePoint, Compute, SetStage, Complete,
       MarkCancelled, HandleFailure, MarkFailed, Wake, Finish
  <1>2. ASSUME NEW j \in JobIds, SweepNext(j)
        PROVE  sweep' \subseteq sweep
    BY <1>2 DEF SweepNext
  <1>3. CASE BeginSweep
    BY <1>3 DEF BeginSweep
  <1>4. QED
    BY <1>1, <1>2, <1>3 DEF Next, vars, BeginCreate, AbandonCreate, CreateJob, CreateFails,
       Cancel, Revise, Delete, DeleteFails, Quarantine, Recover, Shutdown, Crash, Serve

LEMMA KnownStep == TypeOK /\ Held /\ Known /\ [Next]_vars => Known'
  <1> SUFFICES ASSUME TypeOK, Held, Known, [Next]_vars
               PROVE  Known'
    OBVIOUS
  <1>1. issued \subseteq issued'
    BY StoreStep DEF Leaves, Born, Writes, Erases
  <1>2. ASSUME NEW i \in JobIds, Exists(i)'
        PROVE  i \in issued'
    BY <1>1, <1>2, RecordStep, BornRecord DEF Known, Exists
  <1>3. sweep' \subseteq issued'
    BY <1>1, SweepStep DEF Known, Sweepable, Terminal
  <1>4. QED
    BY <1>2, <1>3 DEF Known

\* A cleanup works through its snapshot without the lock; no step turns an id it still has
\* to delete into a job in progress.
THEOREM SweepSafe == Spec => []SweepSparesLiveJobs
  <1>1. Init => Known /\ SweepSparesLiveJobs
    BY DEF Init, Known, SweepSparesLiveJobs, Exists
  <1>2. TypeOK /\ Held /\ Known /\ SweepSparesLiveJobs /\ [Next]_vars => SweepSparesLiveJobs'
    <2> SUFFICES ASSUME TypeOK, Held, Known, SweepSparesLiveJobs, [Next]_vars,
                        NEW i \in sweep'
                 PROVE  ~IsLive(i)'
      BY DEF SweepSparesLiveJobs
    <2>1. CASE i \in sweep
      <3>1. i \in JobIds /\ i \in issued /\ ~IsLive(i)
        BY <2>1 DEF TypeOK, Known, SweepSparesLiveJobs
      <3>2. QED
        BY <3>1, LiveStep DEF Born
    <2>2. CASE i \in Sweepable /\ UNCHANGED <<job, issued>>
      BY <2>2 DEF Sweepable, Terminal, TERMINAL, IsLive, Live, Exists
    <2>3. QED
      BY <2>1, <2>2, SweepStep
  <1>3. QED
    BY <1>1, <1>2, TypeInvariant, KnownStep, PTL DEF Spec

=============================================================================
