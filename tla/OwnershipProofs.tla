-------------------------- MODULE OwnershipProofs --------------------------
(***************************************************************************)
(* Theorems about who works on which job: the threads and queue entries of *)
(* AsrJobs never share a job, a thread knows the state of the job it is    *)
(* attempting, and so no late step of a thread touches a settled record.   *)
(***************************************************************************)
EXTENDS AsrJobsProofs

\* Every executor entry and every thread is for a job of its own.
EntriesApart ==
  /\ \A i, k \in DOMAIN queue : queue[i] = queue[k] => i = k
  /\ \A w \in Workers : holds[w] # NoJob =>
       /\ holds[w] \notin Queued
       /\ \A v \in Workers : holds[v] = holds[w] => v = w

\* An executor entry is for an id that was drawn.
EntriesIssued == /\ Queued \subseteq issued
                 /\ \A w \in Workers : holds[w] # NoJob => holds[w] \in issued

\* Nothing else goes on while the constructor marks interrupted jobs.
RecoversAlone == phase = "recovering" => /\ queue = <<>>
                                         /\ \A w \in Workers : pc[w] = "idle"
                                         /\ \A c \in Clients : request[c] = Idle

Entries == EntriesApart /\ EntriesIssued

\* What a thread at l knows about its job j, and ("start") a queue entry about its own.
Fits(l, j) ==
  /\ l \in Attempting => IF Exists(j)
                         THEN /\ job[j].status \in {"running", "cancelling"}
                              /\ job[j].stage = ReachedStage(l)
                         ELSE ioFaults > 0
  /\ (l \in {"start", "backoff"} /\ IsLive(j)) => job[j].status = "queued"

AllFit == /\ \A w \in Workers : pc[w] # "idle" => Fits(pc[w], holds[w])
          /\ \A j \in Queued : Fits("start", j)

-----------------------------------------------------------------------------
(* Entries and threads.                                                    *)

\* How a step may change the queue, the ids drawn and what the threads hold.
LEMMA ThreadStep ==
  ASSUME TypeOK, Held, [Next]_vars
  PROVE  \/ UNCHANGED <<queue, holds>> /\ issued \subseteq issued'
         \/ \E j \in JobIds \ issued :
              queue' = Append(queue, j) /\ issued' = issued \cup {j} /\ UNCHANGED holds
         \/ \E w \in Workers :
              /\ queue # <<>> /\ queue' = Tail(queue)
              /\ pc[w] = "idle" /\ holds' = [holds EXCEPT ![w] = Head(queue)]
              /\ UNCHANGED issued
         \/ \E w \in Workers : /\ holds' = [holds EXCEPT ![w] = NoJob]
                               /\ UNCHANGED <<queue, issued>>
         \/ queue' = <<>> /\ UNCHANGED <<issued, holds>>
         \/ queue' = <<>> /\ holds' = [w \in Workers |-> NoJob] /\ UNCHANGED issued
  <1> USE DEF store, threads, calls, faults, Own
  <1>1. ASSUME NEW w \in Workers, Step(w) \/ SaveFails(w), ~Finish(w)
        PROVE  UNCHANGED <<queue, holds, issued>>
    BY <1>1 DEF Step, SaveFails, StartAttempt, SafePoint, Compute, SetStage, Complete,
       MarkCancelled, HandleFailure, MarkFailed, Wake
  <1>2. ASSUME NEW c \in Clients, NEW j \in JobIds, CreateJob(c, j)
        PROVE  /\ j \notin issued /\ queue' = Append(queue, j) /\ issued' = issued \cup {j}
               /\ UNCHANGED holds
    BY <1>2 DEF CreateJob
  <1>3. ASSUME NEW w \in Workers, Take(w)
        PROVE  /\ queue # <<>> /\ queue' = Tail(queue)
               /\ pc[w] = "idle" /\ holds' = [holds EXCEPT ![w] = Head(queue)]
               /\ UNCHANGED issued
    BY <1>3 DEF Take
  <1>4. ASSUME NEW w \in Workers, Finish(w)
        PROVE  holds' = [holds EXCEPT ![w] = NoJob] /\ UNCHANGED <<queue, issued>>
    BY <1>4 DEF Finish
  <1>5. ASSUME Shutdown \/ Crash
        PROVE  /\ queue' = <<>> /\ UNCHANGED issued
               /\ UNCHANGED holds \/ holds' = [w \in Workers |-> NoJob]
    BY <1>5 DEF Shutdown, Crash
  <1>6. ASSUME NEW j \in JobIds,
               Cancel(j) \/ Revise(j) \/ Delete(j) \/ DeleteFails(j) \/ SweepNext(j)
                 \/ Quarantine(j) \/ Recover(j)
        PROVE  UNCHANGED <<queue, holds, issued>>
    BY <1>6 DEF Cancel, Revise, Delete, DeleteFails, SweepNext, Quarantine, Recover
  <1>7. ASSUME BeginSweep \/ Serve \/ UNCHANGED vars
        PROVE  UNCHANGED <<queue, holds, issued>>
    BY <1>7 DEF BeginSweep, Serve, vars
  <1>8. ASSUME NEW c \in Clients, AbandonCreate(c)
        PROVE  UNCHANGED <<queue, holds, issued>>
    BY <1>8 DEF AbandonCreate
  <1>9. ASSUME NEW c \in Clients, NEW k \in Keys \cup {NoKey}, NEW f \in Fingerprints,
                BeginCreate(c, k, f)
         PROVE  UNCHANGED <<queue, holds, issued>>
    BY <1>9 DEF BeginCreate
  <1>10. ASSUME NEW c \in Clients, NEW j \in JobIds, CreateFails(c, j)
         PROVE  UNCHANGED <<queue, holds>> /\ issued \subseteq issued'
    BY <1>10 DEF CreateFails
  <1>11. QED
    BY <1>1, <1>2, <1>3, <1>4, <1>5, <1>6, <1>7, <1>8, <1>9, <1>10 DEF Next

\* Only a new job enters the queue.
LEMMA QueuedStep ==
  ASSUME TypeOK, Held, [Next]_vars, NEW i \in Queued', i \notin Queued
  PROVE  i \in JobIds \ issued
  <1>0. queue \in Seq(JobIds)
    BY DEF TypeOK
  <1>1. ASSUME NEW j \in JobIds \ issued, queue' = Append(queue, j)
        PROVE  i = j
    BY <1>0, <1>1 DEF Queued
  <1>2. ASSUME queue # <<>>, queue' = Tail(queue)
        PROVE  FALSE
    <2>1. \A k \in DOMAIN queue' : k + 1 \in DOMAIN queue /\ queue'[k] = queue[k + 1]
      BY <1>0, <1>2
    <2>2. QED
      BY <2>1 DEF Queued
  <1>3. ASSUME queue' = <<>> \/ queue' = queue
        PROVE  FALSE
    BY <1>3 DEF Queued
  <1>4. QED
    BY <1>1, <1>2, <1>3, ThreadStep

LEMMA ApartStep == TypeOK /\ Held /\ Entries /\ [Next]_vars => EntriesApart'
  <1> SUFFICES ASSUME TypeOK, Held, Entries, [Next]_vars
               PROVE  EntriesApart'
    OBVIOUS
  <1>0. queue \in Seq(JobIds) /\ holds \in [Workers -> JobIds \cup {NoJob}]
    BY DEF TypeOK
  <1>1. CASE UNCHANGED <<queue, holds>>
    BY <1>1 DEF Entries, EntriesApart, Queued
  <1>2. ASSUME NEW j \in JobIds \ issued, queue' = Append(queue, j), UNCHANGED holds
        PROVE  EntriesApart'
    <2>1. /\ DOMAIN queue' = DOMAIN queue \cup {Len(queue) + 1}
          /\ \A i \in DOMAIN queue : queue'[i] = queue[i] /\ queue[i] # j
          /\ queue'[Len(queue) + 1] = j
      BY <1>0, <1>2 DEF Entries, EntriesIssued, Queued
    <2>2. Queued' = Queued \cup {j}
      BY <2>1 DEF Queued
    <2>3. QED
      BY <1>2, <2>1, <2>2 DEF Entries, EntriesApart, EntriesIssued
  <1>3. ASSUME NEW w \in Workers, queue # <<>>, queue' = Tail(queue), pc[w] = "idle",
               holds' = [holds EXCEPT ![w] = Head(queue)]
        PROVE  EntriesApart'
    <2>1. /\ Head(queue) = queue[1] /\ 1 \in DOMAIN queue /\ Head(queue) \in JobIds
          /\ \A i \in DOMAIN queue' : /\ i + 1 \in DOMAIN queue /\ i + 1 # 1
                                      /\ queue'[i] = queue[i + 1]
          /\ DOMAIN queue' \subseteq Nat
      BY <1>0, <1>3
    <2>2. \A i, k \in DOMAIN queue' : queue'[i] = queue'[k] => i = k
      BY <2>1 DEF Entries, EntriesApart
    <2>3. Queued' \subseteq Queued /\ Head(queue) \notin Queued' /\ Head(queue) \in Queued
      BY <2>1 DEF Entries, EntriesApart, Queued
    <2>4. holds[w] = NoJob
      BY <1>3 DEF Held
    <2>5. \A v \in Workers : holds'[v] = IF v = w THEN Head(queue) ELSE holds[v]
      BY <1>0, <1>3
    <2>6. \A v \in Workers : holds[v] # NoJob => holds[v] # Head(queue)
      BY <2>3 DEF Entries, EntriesApart
    <2>7. Head(queue) # NoJob
      BY <2>1, NoJobAssumption
    <2>8. QED
      BY <2>2, <2>3, <2>4, <2>5, <2>6, <2>7 DEF Entries, EntriesApart
  <1>4. ASSUME NEW w \in Workers, holds' = [holds EXCEPT ![w] = NoJob], UNCHANGED queue
        PROVE  EntriesApart'
    BY <1>0, <1>4 DEF Entries, EntriesApart, Queued
  <1>5. CASE queue' = <<>> /\ UNCHANGED holds
    BY <1>5 DEF Entries, EntriesApart, Queued
  <1>6. CASE queue' = <<>> /\ holds' = [w \in Workers |-> NoJob]
    BY <1>6 DEF EntriesApart
  <1>7. QED
    BY <1>1, <1>2, <1>3, <1>4, <1>5, <1>6, ThreadStep

LEMMA IssuedStep == TypeOK /\ Held /\ Entries /\ [Next]_vars => EntriesIssued'
  <1> SUFFICES ASSUME TypeOK, Held, Entries, [Next]_vars
               PROVE  EntriesIssued'
    OBVIOUS
  <1>0. queue \in Seq(JobIds) /\ holds \in [Workers -> JobIds \cup {NoJob}]
    BY DEF TypeOK
  <1> DEFINE IssuedKept == /\ Queued' \subseteq issued'
                           /\ \A w \in Workers : holds'[w] # NoJob => holds'[w] \in issued'
  <1>1. IssuedKept
    <2>1. CASE UNCHANGED <<queue, holds>> /\ issued \subseteq issued'
      BY <2>1 DEF Entries, EntriesIssued, Queued
    <2>2. ASSUME NEW j \in JobIds \ issued, queue' = Append(queue, j), UNCHANGED holds,
                 issued' = issued \cup {j}
          PROVE  IssuedKept
      <3>1. \A i \in DOMAIN queue' : queue'[i] = j \/ (i \in DOMAIN queue /\ queue'[i] = queue[i])
        BY <1>0, <2>2
      <3>2. QED
        BY <2>2, <3>1 DEF Entries, EntriesIssued, Queued
    <2>3. ASSUME NEW w \in Workers, queue # <<>>, queue' = Tail(queue),
                 holds' = [holds EXCEPT ![w] = Head(queue)], UNCHANGED issued
          PROVE  IssuedKept
      <3>1. /\ 1 \in DOMAIN queue /\ Head(queue) = queue[1]
            /\ \A i \in DOMAIN queue' : i + 1 \in DOMAIN queue /\ queue'[i] = queue[i + 1]
        BY <1>0, <2>3
      <3>2. QED
        BY <1>0, <2>3, <3>1 DEF Entries, EntriesIssued, Queued
    <2>4. ASSUME NEW w \in Workers, holds' = [holds EXCEPT ![w] = NoJob],
                 UNCHANGED <<queue, issued>>
          PROVE  IssuedKept
      BY <1>0, <2>4 DEF Entries, EntriesIssued, Queued
    <2>5. CASE queue' = <<>> /\ UNCHANGED <<issued, holds>>
      BY <2>5 DEF Entries, EntriesIssued, Queued
    <2>6. CASE queue' = <<>> /\ holds' = [w \in Workers |-> NoJob] /\ UNCHANGED issued
      BY <2>6 DEF Queued
    <2>7. QED
      BY <2>1, <2>2, <2>3, <2>4, <2>5, <2>6, ThreadStep
  <1>2. QED
    BY <1>1 DEF EntriesIssued

LEMMA RecoveringStep == TypeOK /\ Held /\ RecoversAlone /\ [Next]_vars => RecoversAlone'
  <1> SUFFICES ASSUME TypeOK, Held, RecoversAlone, [Next]_vars, phase' = "recovering"
               PROVE  RecoversAlone'
    BY DEF RecoversAlone
  <1> USE DEF store, threads, calls, faults, Own
  <1>1. CASE Crash
    BY <1>1 DEF Crash, RecoversAlone
  <1>2. CASE ~Crash /\ ~UNCHANGED vars
    <2>1. phase = "recovering"
      BY <1>2 DEF Next, BeginCreate, AbandonCreate, CreateJob, CreateFails, Cancel, Revise,
         Delete, DeleteFails, SweepNext, Quarantine, Recover, Take, Step, SaveFails,
         StartAttempt, SafePoint, Compute, SetStage, Complete, MarkCancelled, HandleFailure,
         MarkFailed, Wake, Finish, BeginSweep, Shutdown, Serve
    <2>2. /\ queue = <<>>
          /\ \A w \in Workers : pc[w] = "idle"
          /\ \A c \in Clients : request[c] = Idle
      BY <2>1 DEF RecoversAlone
    <2>3. /\ \A c \in Clients : ~AbandonCreate(c)
          /\ \A c \in Clients, j \in JobIds : ~CreateJob(c, j) /\ ~CreateFails(c, j)
      BY <2>2 DEF AbandonCreate, CreateJob, CreateFails, Idle
    <2>4. \A w \in Workers : ~Take(w) /\ ~Step(w) /\ ~Finish(w) /\ ~SaveFails(w)
      BY <2>2 DEF Take, Step, SaveFails, StartAttempt, SafePoint, Compute, SetStage, Complete,
         MarkCancelled, HandleFailure, MarkFailed, Wake, Finish, Checks, Computes, Stagings,
         RetryAllowed
    <2>5. UNCHANGED <<queue, pc, request>>
      BY <1>2, <2>1, <2>3, <2>4 DEF Next, BeginCreate, Cancel, Revise, Delete, DeleteFails,
         SweepNext, Quarantine, Recover, BeginSweep, Shutdown, Serve
    <2>6. QED
      BY <2>2, <2>5 DEF RecoversAlone
  <1>3. CASE UNCHANGED vars
    BY <1>3 DEF vars, RecoversAlone
  <1>4. QED
    BY <1>1, <1>2, <1>3

-----------------------------------------------------------------------------
(* What a thread knows of its job stays true whatever the others do.       *)

\* How a step that is not taken by the thread that holds i may change i.
Outside(i) ==
  \/ job'[i] = job[i]
  \/ ~Exists(i)' /\ (Terminal(i) \/ ioFaults' > 0)
  \/ Exists(i) /\ job[i].status = "queued" /\ job'[i] = Cancelled(job[i])
  \/ Exists(i) /\ job[i].status \in {"running", "cancelling"} /\ job'[i] = Cancelling(job[i])
  \/ Exists(i) /\ job[i].status = "succeeded" /\ job'[i] = Revised(job[i])

LEMMA FitsKept ==
  ASSUME TypeOK, NEW i \in JobIds, NEW l, Fits(l, i), Outside(i), ioFaults > 0 => ioFaults' > 0
  PROVE  Fits(l, i)'
  <1>1. Exists(i) => job[i] \in Record
    BY DEF TypeOK, Exists
  <1>2. CASE job'[i] = job[i]
    BY <1>2 DEF Fits, IsLive, Exists
  <1>3. CASE ~Exists(i)' /\ (Terminal(i) \/ ioFaults' > 0)
    BY <1>3 DEF Fits, IsLive, Exists, Terminal, TERMINAL
  <1>4. CASE Exists(i) /\ job[i].status = "queued" /\ job'[i] = Cancelled(job[i])
    <2>1. job'[i].status = "cancelled"
      BY <1>1, <1>4 DEF Cancelled, Record
    <2>2. l \notin Attempting
      BY <1>4 DEF Fits
    <2>3. QED
      BY <2>1, <2>2 DEF Fits, IsLive, Live
  <1>5. CASE /\ Exists(i) /\ job[i].status \in {"running", "cancelling"}
             /\ job'[i] = Cancelling(job[i])
    <2>1. Exists(i)' /\ job'[i].status = "cancelling" /\ job'[i].stage = job[i].stage
      <3>1. job'[i] \in Record
        BY <1>1, <1>5, UpdateType
      <3>2. job'[i].status = "cancelling" /\ job'[i].stage = job[i].stage
        BY <1>1, <1>5 DEF Cancelling, Record
      <3>3. QED
        BY <3>1, <3>2, NoRecordAssumption DEF Exists
    <2>2. l \notin {"start", "backoff"}
      BY <1>5 DEF Fits, IsLive, Live
    <2>3. QED
      BY <2>1, <2>2, <1>5 DEF Fits, ReachedStage, Exists
  <1>6. CASE Exists(i) /\ job[i].status = "succeeded" /\ job'[i] = Revised(job[i])
    <2>1. job'[i].status = "succeeded"
      BY <1>1, <1>6 DEF Revised, Record
    <2>2. l \notin Attempting
      BY <1>6 DEF Fits
    <2>3. QED
      BY <2>1, <2>2 DEF Fits, IsLive, Live
  <1>7. QED
    BY <1>2, <1>3, <1>4, <1>5, <1>6 DEF Outside

LEMMA OutsideThreads ==
  ASSUME TypeOK, Held, RecoversAlone, [Next]_vars, NEW i \in issued,
         \A w \in Workers : ~Step(w), ~\E j \in JobIds : Recover(j)
  PROVE  Outside(i)
  <1> USE DEF store, threads, calls, faults, Own
  <1>1. ASSUME NEW j \in JobIds, Cancel(j)
        PROVE  Outside(i)
    <2>1. CASE i = j
      <3>1. job[i] \in Record /\ Exists(i) /\ job[i].status \in Live
        BY <1>1, <2>1 DEF Cancel, Cancellable, IsLive, Exists, TypeOK
      <3>2. job'[i] = IF job[i].status = "queued" THEN Cancelled(job[i]) ELSE Cancelling(job[i])
        BY <1>1, <2>1 DEF Cancel, TypeOK
      <3>3. QED
        BY <3>1, <3>2 DEF Outside, Live
    <2>2. CASE i # j
      BY <1>1, <2>2 DEF Cancel, Outside, TypeOK
    <2>3. QED
      BY <2>1, <2>2
  <1>2. ASSUME NEW j \in JobIds, Revise(j)
        PROVE  Outside(i)
    <2>1. CASE i = j
      <3>1. job'[i] = Revised(job[i])
        BY <1>2, <2>1 DEF Revise, TypeOK, Revised
      <3>2. QED
        BY <1>2, <2>1, <3>1 DEF Revise, Outside
    <2>2. CASE i # j
      BY <1>2, <2>2 DEF Revise, Outside, TypeOK
    <2>3. QED
      BY <2>1, <2>2
  <1>3. ASSUME NEW j \in JobIds, Delete(j) \/ DeleteFails(j) \/ SweepNext(j)
        PROVE  Outside(i)
    BY <1>3 DEF Delete, DeleteFails, SweepNext, Erase, Deletable, Outside, TypeOK, Exists
  <1>4. ASSUME NEW j \in JobIds, Quarantine(j)
        PROVE  Outside(i)
    <2>1. ioFaults' > 0
      BY <1>4, BoundsAssumption DEF Quarantine, TypeOK
    <2>2. QED
      BY <1>4, <2>1 DEF Quarantine, Outside, TypeOK, Exists
  <1>5. ASSUME NEW c \in Clients, NEW j \in JobIds, CreateJob(c, j)
        PROVE  Outside(i)
    BY <1>5 DEF CreateJob, Outside, TypeOK
  <1>6. QED
    BY <1>1, <1>2, <1>3, <1>4, <1>5 DEF Next, vars, BeginCreate, AbandonCreate, CreateFails,
       Take, SaveFails, BeginSweep, Shutdown, Crash, Serve, Outside

\* A thread writes the record of the job it holds and no other.
LEMMA OutsideHolder ==
  ASSUME TypeOK, NEW w \in Workers, Step(w), NEW i \in JobIds, i # holds[w]
  PROVE  Outside(i)
  BY DEF Step, StartAttempt, SafePoint, Compute, SetStage, Complete, MarkCancelled,
     HandleFailure, MarkFailed, Wake, Finish, Own, Save, Outside, TypeOK, store

LEMMA Unbound == \A l, j : (l \notin Attempting \cup {"start", "backoff"} => Fits(l, j)')
  BY DEF Fits

LEMMA LabelsApart == /\ Handling \cap (Attempting \cup {"start", "backoff"}) = {}
                     /\ {"done", "idle"} \cap (Attempting \cup {"start", "backoff"}) = {}
                     /\ {"start", "backoff"} \cap Attempting = {}
  BY DEF Handling, Attempting, Checks, Computes, Stagings

\* The stage of the record is the one of the label the thread goes on to.
LEMMA StageReached ==
  /\ \A l \in Checks \cup Computes : ReachedStage(After(l)) = ReachedStage(l)
  /\ \A l \in Stagings : ReachedStage(After(l)) = StageAt(l)
  /\ ReachedStage("check_input") = "preparing_input"
  BY DEF Checks, Computes, Stagings, ReachedStage, After, StageAt

\* After a step of its own a thread again knows the state of its job.
LEMMA OwnFits ==
  ASSUME TypeOK, Held, NEW w \in Workers, Step(w), ~Finish(w), Fits(pc[w], holds[w])
  PROVE  Fits(pc[w], holds[w])'
  <1> DEFINE j == holds[w]
  <1> USE DEF Own, Goto, Save
  <1>0. pc \in [Workers -> Labels] /\ job \in [JobIds -> Record \cup {NoRecord}]
    BY DEF TypeOK
  <1>1. /\ holds' = holds
        /\ pc[w] # "idle" => j \in JobIds
        /\ (pc[w] # "idle" /\ Exists(j)) => job[j] \in Record
    <2>1. holds' = holds
      BY DEF Step, StartAttempt, SafePoint, Compute, SetStage, Complete, MarkCancelled,
         HandleFailure, MarkFailed, Wake
    <2>2. QED
      BY <2>1 DEF Held, TypeOK, Exists
  <1>2. CASE StartAttempt(w)
    <2>1. CASE Startable(j) /\ ~CancelAsked(job[j])
      <3>1. j \in JobIds /\ job[j] \in Record
        BY <1>1, <1>2, <2>1 DEF StartAttempt, Startable
      <3>2. job'[j] = Running(job[j]) /\ pc'[w] = "check_input"
        BY <1>0, <1>2, <2>1, <3>1 DEF StartAttempt
      <3>3. Running(job[j]) \in Record
        BY <3>1, UpdateType
      <3>4. Running(job[j]).status = "running" /\ Running(job[j]).stage = "preparing_input"
        BY <3>1 DEF Running, Record
      <3>5. QED
        BY <1>1, <3>2, <3>3, <3>4, NoRecordAssumption, StageReached DEF Fits, Exists
    <2>2. CASE ~(Startable(j) /\ ~CancelAsked(job[j]))
      <3>1. pc'[w] = "done"
        BY <1>0, <1>2, <2>2 DEF StartAttempt
      <3>2. QED
        BY <3>1, Unbound, LabelsApart
    <2>3. QED
      BY <2>1, <2>2
  <1>3. CASE SafePoint(w) \/ Compute(w)
    <2>1. /\ pc[w] \in Checks \cup Computes
          /\ UNCHANGED <<job, ioFaults>>
          /\ pc'[w] \in {After(pc[w]), "done"} \cup Handling
      BY <1>0, <1>3 DEF SafePoint, Compute, Handling
    <2>2. CASE pc'[w] = After(pc[w])
      <3>1. pc'[w] \in Attempting /\ pc[w] \in Attempting
        BY <2>1, <2>2, AfterType DEF Attempting
      <3>2. ReachedStage(pc'[w]) = ReachedStage(pc[w])
        BY <2>1, <2>2, StageReached
      <3>3. QED
        BY <1>1, <2>1, <3>1, <3>2, LabelsApart DEF Fits, Exists
    <2>3. CASE pc'[w] \in {"done"} \cup Handling
      BY <2>3, Unbound, LabelsApart
    <2>4. QED
      BY <2>1, <2>2, <2>3
  <1>4. CASE SetStage(w)
    <2>1. pc[w] \in Attempting /\ pc[w] # "idle" /\ pc[w] \in Stagings
      BY <1>4 DEF SetStage, Attempting, Stagings
    <2>2. CASE Exists(j) /\ ~CancelAsked(job[j])
      <3>1. j \in JobIds /\ job[j] \in Record /\ job[j].status \in {"running", "cancelling"}
        BY <1>1, <2>1, <2>2 DEF Fits
      <3>2. job'[j] = AtStage(job[j], StageAt(pc[w])) /\ pc'[w] = After(pc[w])
        BY <1>0, <1>4, <2>2, <3>1 DEF SetStage
      <3>3. /\ job'[j] \in Record
            /\ job'[j].status = job[j].status /\ job'[j].stage = StageAt(pc[w])
        <4>1. job'[j] \in Record
          BY <3>1, <3>2, UpdateType, StageAtType
        <4>2. QED
          BY <3>1, <3>2, <4>1 DEF AtStage, Record
      <3>4. After(pc[w]) \in Attempting
        BY <2>1, AfterType
      <3>5. QED
        BY <1>1, <2>1, <3>1, <3>2, <3>3, <3>4, NoRecordAssumption, StageReached, LabelsApart
        DEF Fits, Exists
    <2>3. CASE ~(Exists(j) /\ ~CancelAsked(job[j]))
      <3>1. pc'[w] \in {"done"} \cup Handling
        BY <1>0, <1>4, <2>3 DEF SetStage, Handling
      <3>2. QED
        BY <3>1, Unbound, LabelsApart
    <2>4. QED
      BY <2>2, <2>3
  <1>5. CASE Complete(w) \/ MarkCancelled(w) \/ MarkFailed(w)
    <2>1. pc'[w] \in {"done"} \cup Handling
      BY <1>0, <1>5 DEF Complete, MarkCancelled, MarkFailed, Handling
    <2>2. QED
      BY <2>1, Unbound, LabelsApart
  <1>6. CASE HandleFailure(w)
    <2>1. j \in JobIds /\ (Exists(j) => job[j] \in Record)
      BY <1>1, <1>6 DEF HandleFailure
    <2>2. CASE IsLive(j) /\ (CancelAsked(job[j]) \/ RetryAllowed(w))
      <3>1. job[j] \in Record
        BY <2>1, <2>2 DEF IsLive
      <3>2. job'[j] \in {Cancelled(job[j]), Retrying(job[j])} /\ pc'[w] = "backoff"
        BY <1>0, <1>6, <2>1, <2>2 DEF HandleFailure
      <3>3. Cancelled(job[j]).status = "cancelled" /\ Retrying(job[j]).status = "queued"
        BY <3>1 DEF Record, Cancelled, Retrying
      <3>4. QED
        BY <1>1, <3>2, <3>3, LabelsApart DEF Fits, IsLive, Live
    <2>3. CASE ~(IsLive(j) /\ (CancelAsked(job[j]) \/ RetryAllowed(w)))
      <3>1. pc'[w] \in Handling
        BY <1>0, <1>6, <2>3 DEF HandleFailure, Handling
      <3>2. QED
        BY <3>1, Unbound, LabelsApart
    <2>4. QED
      BY <2>2, <2>3
  <1>7. CASE Wake(w)
    <2>1. pc[w] = "backoff" /\ pc'[w] = "start" /\ job' = job
      BY <1>0, <1>7 DEF Wake
    <2>2. QED
      BY <1>1, <2>1, LabelsApart DEF Fits, IsLive, Exists
  <1>8. QED
    BY <1>2, <1>3, <1>4, <1>5, <1>6, <1>7 DEF Step

Ownership == Entries /\ RecoversAlone /\ Known /\ AllFit

LEMMA FaultsGrow == TypeOK /\ [Next]_vars => (ioFaults > 0 => ioFaults' > 0)
  <1> SUFFICES ASSUME TypeOK, [Next]_vars, ioFaults > 0
               PROVE  ioFaults' > 0
    OBVIOUS
  <1>1. UNCHANGED ioFaults \/ ioFaults' = ioFaults + 1
    BY DEF Next, vars, faults, Own, BeginCreate, AbandonCreate, CreateJob, CreateFails, Cancel,
       Revise, Delete, DeleteFails, SweepNext, Quarantine, Recover, Take, Step, SaveFails,
       StartAttempt, SafePoint, Compute, SetStage, Complete, MarkCancelled, HandleFailure,
       MarkFailed, Wake, Finish, BeginSweep, Shutdown, Crash, Serve
  <1>2. QED
    BY <1>1, BoundsAssumption DEF TypeOK

\* Only a thread's own step, and a crash, change where the thread is.
LEMMA PcStep ==
  ASSUME TypeOK, Held, [Next]_vars, ~Crash, NEW w \in Workers, ~Step(w)
  PROVE  \/ UNCHANGED <<pc[w], holds[w]>>
         \/ Take(w)
         \/ pc'[w] \in {"retryable", "done"}
  <1>1. ASSUME NEW v \in Workers, Step(v)
        PROVE  UNCHANGED <<pc[w], holds[w]>>
    BY <1>1 DEF Step, StartAttempt, SafePoint, Compute, SetStage, Complete, MarkCancelled,
       HandleFailure, MarkFailed, Wake, Finish, Own, Goto, TypeOK
  <1>2. ASSUME NEW v \in Workers, Take(v)
        PROVE  UNCHANGED <<pc[w], holds[w]>> \/ Take(w)
    BY <1>2 DEF Take, Goto, TypeOK
  <1>3. ASSUME NEW v \in Workers, SaveFails(v)
        PROVE  UNCHANGED <<pc[w], holds[w]>> \/ pc'[w] \in {"retryable", "done"}
    BY <1>3 DEF SaveFails, Goto, TypeOK, Own
  <1>4. QED
    BY <1>1, <1>2, <1>3 DEF Next, vars, threads, BeginCreate, AbandonCreate, CreateJob,
       CreateFails, Cancel, Revise, Delete, DeleteFails, SweepNext, Quarantine, Recover,
       BeginSweep, Shutdown, Crash, Serve

LEMMA AllFitStep == TypeOK /\ Held /\ Ownership /\ [Next]_vars => AllFit'
  <1> SUFFICES ASSUME TypeOK, Held, Ownership, [Next]_vars
               PROVE  AllFit'
    OBVIOUS
  <1> USE DEF Ownership
  <1>1. CASE Crash
    BY <1>1 DEF Crash, AllFit, Queued
  <1>2. ASSUME NEW j \in JobIds, Recover(j)
        PROVE  AllFit'
    BY <1>2 DEF Recover, RecoversAlone, AllFit, Queued, threads
  <1>3. ASSUME ~Crash, ~\E j \in JobIds : Recover(j)
        PROVE  AllFit'
    <2>1. ASSUME NEW i \in issued, NEW l, Fits(l, i),
                 \A w \in Workers : Step(w) => holds[w] # i
          PROVE  Fits(l, i)'
      <3>1. i \in JobIds
        BY DEF TypeOK
      <3>2. Outside(i)
        BY <1>3, <2>1, <3>1, OutsideThreads, OutsideHolder
      <3>3. QED
        BY <2>1, <3>1, <3>2, FitsKept, FaultsGrow
    <2>2. ASSUME NEW i \in Queued'
          PROVE  Fits("start", i)'
      <3>1. CASE i \in Queued
        <4>1. Fits("start", i) /\ i \in issued /\ i # NoJob
          BY <3>1, NoJobAssumption DEF AllFit, Entries, EntriesIssued, TypeOK
        <4>2. \A w \in Workers : holds[w] # i
          BY <3>1, <4>1 DEF Entries, EntriesApart
        <4>3. QED
          BY <2>1, <4>1, <4>2
      <3>2. CASE i \notin Queued
        <4>1. i \in JobIds \ issued
          BY <2>2, <3>2, QueuedStep
        <4>2. ~Exists(i)
          BY <4>1 DEF Known
        <4>3. IsLive(i)' => job'[i].status = "queued"
          BY <4>1, <4>2, RecordStep, BornRecord DEF IsLive, Exists
        <4>4. QED
          BY <4>3, LabelsApart DEF Fits
      <3>3. QED
        BY <3>1, <3>2
    <2>3. ASSUME NEW w \in Workers, pc'[w] # "idle"
          PROVE  Fits(pc[w], holds[w])'
      <3>1. CASE Step(w)
        <4>1. ~Finish(w) /\ pc[w] # "idle"
          BY <2>3, <3>1 DEF Step, StartAttempt, SafePoint, Compute, SetStage, Complete,
             MarkCancelled, HandleFailure, MarkFailed, Wake, Finish, Goto, TypeOK, Checks,
             Computes, Stagings
        <4>2. QED
          BY <3>1, <4>1, OwnFits DEF AllFit
      <3>2. CASE ~Step(w) /\ UNCHANGED <<pc[w], holds[w]>>
        <4>1. holds[w] # NoJob /\ Fits(pc[w], holds[w]) /\ holds[w] \in issued
          BY <2>3, <3>2 DEF Held, AllFit, Entries, EntriesIssued
        <4>2. \A v \in Workers : Step(v) => holds[v] # holds[w]
          BY <3>2, <4>1 DEF Entries, EntriesApart
        <4>3. Fits(pc[w], holds[w]) /\ UNCHANGED <<pc[w], holds[w]>>
          BY <3>2, <4>1
        <4>4. \A l, i : (l = pc[w] /\ i = holds[w]) => Fits(l, i)'
          BY <2>1, <4>1, <4>2
        <4>5. QED
          BY <3>2, <4>4 DEF Fits
      <3>3. CASE Take(w)
        <4>1. Head(queue) \in Queued /\ Head(queue) \in JobIds
          BY <3>3 DEF Take, TypeOK, Queued
        <4>2. Fits("start", Head(queue))
          BY <4>1 DEF AllFit
        <4>3. pc'[w] = "start" /\ holds'[w] = Head(queue) /\ job' = job /\ ioFaults' = ioFaults
          BY <3>3 DEF Take, Goto, TypeOK, store, faults
        <4>4. QED
          BY <4>2, <4>3 DEF Fits, IsLive, Exists
      <3>4. CASE pc'[w] \in {"retryable", "done"}
        BY <3>4, LabelsApart DEF Fits, Handling
      <3>5. QED
        BY <1>3, <3>1, <3>2, <3>3, <3>4, PcStep
    <2>4. QED
      BY <2>2, <2>3 DEF AllFit
  <1>4. QED
    BY <1>1, <1>2, <1>3

-----------------------------------------------------------------------------
(* The invariants.                                                         *)

\* Entries, RecoversAlone, Known and AllFit are inductive together.
LEMMA OwnershipInvariant == Spec => [](TypeOK /\ Held /\ Ownership)
  <1>1. Init => Ownership
    BY NoJobAssumption DEF Init, Ownership, Entries, EntriesApart, EntriesIssued, RecoversAlone, Known,
       AllFit, Queued, Exists
  <1>2. TypeOK /\ Held /\ Ownership /\ [Next]_vars => Ownership'
    BY ApartStep, IssuedStep, RecoveringStep, KnownStep, AllFitStep DEF Ownership, Entries
  <1>3. QED
    BY <1>1, <1>2, TypeInvariant, PTL DEF Spec

\* Nothing ends or erases a job inside an attempt but a quarantine, and no two threads or
\* entries are for one job: the unguarded saves of _complete_successfully() and
\* _set_progress_stage() only ever meet a running or cancelling job at the stage the
\* thread has reached.
THEOREM AttemptsOwn == Spec => []AttemptOwnsJob
  <1>1. TypeOK /\ Held /\ Ownership => AttemptOwnsJob
    <2> SUFFICES ASSUME TypeOK, Held, Ownership
                 PROVE  AttemptOwnsJob
      OBVIOUS
    <2>1. \A w \in Workers : pc[w] \in Attempting => Fits(pc[w], holds[w])
      BY LabelsApart DEF Ownership, AllFit
    <2>2. QED
      BY <2>1 DEF Ownership, Entries, EntriesApart, AttemptOwnsJob, Fits
  <1>2. QED
    BY <1>1, OwnershipInvariant, PTL

\* A thread does not write the record of its own job once that is settled.
LEMMA SettledByHolder ==
  ASSUME TypeOK, Held, Ownership, NEW w \in Workers, Step(w), Terminal(holds[w])
  PROVE  UNCHANGED job
  <1>1. ~IsLive(holds[w]) /\ ~Startable(holds[w])
    BY DEF Terminal, IsLive, TERMINAL, Live, Startable
  <1>2. ~SetStage(w) /\ ~Complete(w)
    <2>1. SetStage(w) \/ Complete(w) => pc[w] \in Attempting /\ pc[w] # "idle"
      BY DEF SetStage, Complete, Attempting, Stagings
    <2>2. pc[w] \in Attempting /\ pc[w] # "idle" => Fits(pc[w], holds[w])
      BY DEF Ownership, AllFit
    <2>3. QED
      BY <2>1, <2>2 DEF Fits, Terminal, TERMINAL
  <1>3. QED
    BY <1>1, <1>2 DEF Step, StartAttempt, SafePoint, Compute, MarkCancelled, HandleFailure,
       MarkFailed, Wake, Finish, store

\* No step writes a settled record but an accepted revision, which only moves its revision,
\* and its removal.
THEOREM SettledSafe == Spec => SettledOnlyRevised
  <1>1. TypeOK /\ Held /\ Ownership /\ [Next]_vars
          => [\A j \in JobIds : Terminal(j) =>
                \/ job'[j] = NoRecord
                \/ job'[j].rev \in {job[j].rev, job[j].rev + 1}
                   /\ job'[j] = [job[j] EXCEPT !.rev = job'[j].rev]]_vars
    <2> SUFFICES ASSUME TypeOK, Held, Ownership, [Next]_vars, NEW i \in JobIds, Terminal(i)
                 PROVE  \/ job'[i] = NoRecord
                        \/ job'[i].rev \in {job[i].rev, job[i].rev + 1}
                           /\ job'[i] = [job[i] EXCEPT !.rev = job'[i].rev]
      OBVIOUS
    <2>1. job[i] \in Record /\ Exists(i) /\ job[i].status \in TERMINAL /\ i \in issued
      BY DEF Terminal, TypeOK, Exists, Ownership, Known
    <2>2. Outside(i)
      <3>1. ASSUME NEW w \in Workers, Step(w), holds[w] = i
            PROVE  job'[i] = job[i]
        BY <2>1, <3>1, SettledByHolder
      <3>2. ASSUME NEW j \in JobIds, Recover(j)
            PROVE  job'[i] = job[i]
        <4>1. i # j
          BY <2>1, <3>2 DEF Recover, Interrupted, IsLive, Live, TERMINAL
        <4>2. QED
          BY <3>2, <4>1 DEF Recover, Save, TypeOK
      <3>3. QED
        BY <2>1, <3>1, <3>2, OutsideThreads, OutsideHolder DEF Outside, Ownership
    <2>3. CASE job'[i] = job[i]
      BY <2>1, <2>3 DEF Record
    <2>4. CASE job'[i] = Revised(job[i])
      BY <2>1, <2>4 DEF Revised, Record
    <2>5. QED
      BY <2>1, <2>2, <2>3, <2>4 DEF Outside, TERMINAL, Exists
  <1>2. QED
    BY <1>1, OwnershipInvariant, PTL DEF Spec, SettledOnlyRevised

\* A job that waits has an attempt left.
AttemptsLeft ==
  \A j \in JobIds : Exists(j) =>
    /\ job[j].attempt <= MaxAttempts
    /\ (job[j].status = "queued") => (job[j].attempt < MaxAttempts)

\* What each update does to the attempt count and the status of a record.
LEMMA UpdateAttempts ==
  ASSUME NEW r \in Record
  PROVE  /\ Cancelled(r).attempt = r.attempt /\ Cancelled(r).status = "cancelled"
         /\ Cancelling(r).attempt = r.attempt /\ Cancelling(r).status = "cancelling"
         /\ Retrying(r).attempt = r.attempt
         /\ \A why \in Reasons : Failed(r, why).attempt = r.attempt /\ Failed(r, why).status = "failed"
         /\ \A t \in Stages : AtStage(r, t).attempt = r.attempt /\ AtStage(r, t).status = r.status
         /\ Succeeded(r).attempt = r.attempt /\ Succeeded(r).status = "succeeded"
         /\ Running(r).attempt = r.attempt + 1 /\ Running(r).status = "running"
         /\ Revised(r).attempt = r.attempt /\ Revised(r).status = r.status
  <1> USE DEF Record
  <1>1. Cancelled(r).attempt = r.attempt /\ Cancelled(r).status = "cancelled"
    BY DEF Cancelled
  <1>2. Cancelling(r).attempt = r.attempt /\ Cancelling(r).status = "cancelling"
    BY DEF Cancelling
  <1>3. Retrying(r).attempt = r.attempt
    BY DEF Retrying
  <1>4. \A why \in Reasons : Failed(r, why).attempt = r.attempt /\ Failed(r, why).status = "failed"
    BY DEF Failed
  <1>5. \A t \in Stages : AtStage(r, t).attempt = r.attempt /\ AtStage(r, t).status = r.status
    BY DEF AtStage
  <1>6. Succeeded(r).attempt = r.attempt /\ Succeeded(r).status = "succeeded"
    BY DEF Succeeded
  <1>7. Running(r).attempt = r.attempt + 1 /\ Running(r).status = "running"
    BY DEF Running
  <1>8. Revised(r).attempt = r.attempt /\ Revised(r).status = r.status
    BY DEF Revised
  <1>9. QED
    BY <1>1, <1>2, <1>3, <1>4, <1>5, <1>6, <1>7, <1>8

HasAttempts(r) == /\ r.attempt <= MaxAttempts
                  /\ (r.status = "queued") => (r.attempt < MaxAttempts)

\* A thread that starts a job finds it queued, so with an attempt left.
LEMMA HolderAttempts ==
  ASSUME TypeOK, Held, Ownership, AttemptsLeft, NEW w \in Workers, Step(w),
         job'[holds[w]] # NoRecord
  PROVE  holds[w] \in JobIds => HasAttempts(job'[holds[w]])
  <1> DEFINE j == holds[w]
  <1> USE DEF Own, Goto, Save
  <1> SUFFICES ASSUME j \in JobIds
               PROVE  HasAttempts(job'[j])
    OBVIOUS
  <1>0. job \in [JobIds -> Record \cup {NoRecord}]
    BY DEF TypeOK
  <1>1. Exists(j) => /\ job[j] \in Record /\ job[j].attempt \in Nat /\ MaxAttempts \in Nat
                     /\ HasAttempts(job[j])
    BY <1>0, MaxAttemptsAssumption DEF AttemptsLeft, HasAttempts, Record, Exists
  <1>2. CASE job' = job
    BY <1>1, <1>2 DEF Exists
  <1>3. CASE StartAttempt(w) /\ job' # job
    <2>1. Startable(j) /\ Exists(j) /\ IsLive(j)
      BY <1>1, <1>3 DEF StartAttempt, Startable, Terminal, IsLive, Record
    <2>2. job[j].status = "queued"
      <3>1. pc[w] = "start" /\ pc[w] # "idle"
        BY <1>3 DEF StartAttempt
      <3>2. QED
        BY <2>1, <3>1 DEF Ownership, AllFit, Fits
    <2>3. job'[j] = Running(job[j]) \/ job'[j] = Cancelled(job[j])
      BY <1>0, <1>3, <2>1 DEF StartAttempt
    <2>4. QED
      BY <1>1, <2>1, <2>2, <2>3, UpdateAttempts DEF HasAttempts
  <1>4. CASE SetStage(w) /\ job' # job
    <2>1. Exists(j) /\ job'[j] = AtStage(job[j], StageAt(pc[w])) /\ StageAt(pc[w]) \in Stages
      BY <1>0, <1>4, StageAtType DEF SetStage, Stages
    <2>2. QED
      BY <1>1, <2>1, UpdateAttempts DEF HasAttempts
  <1>5. CASE Complete(w) /\ job' # job
    <2>1. Exists(j) /\ job'[j] = Succeeded(job[j])
      BY <1>0, <1>5 DEF Complete
    <2>2. QED
      BY <1>1, <2>1, UpdateAttempts DEF HasAttempts
  <1>6. CASE (MarkCancelled(w) \/ MarkFailed(w)) /\ job' # job
    <2>1. /\ Exists(j) /\ "error" \in Reasons
          /\ job'[j] = Cancelled(job[j]) \/ job'[j] = Failed(job[j], "error")
      BY <1>0, <1>6 DEF MarkCancelled, MarkFailed, IsLive, Reasons
    <2>2. QED
      BY <1>1, <2>1, UpdateAttempts DEF HasAttempts
  <1>7. CASE HandleFailure(w) /\ job' # job
    <2>1. /\ Exists(j)
          /\ \/ job'[j] = Cancelled(job[j])
             \/ job'[j] = Retrying(job[j]) /\ job[j].attempt < MaxAttempts
      BY <1>0, <1>7 DEF HandleFailure, IsLive, RetryAllowed
    <2>2. QED
      BY <1>1, <2>1, UpdateAttempts DEF HasAttempts
  <1>8. QED
    BY <1>2, <1>3, <1>4, <1>5, <1>6, <1>7 DEF Step, SafePoint, Compute, Wake, Finish, store

LEMMA AttemptsStep == TypeOK /\ Held /\ Ownership /\ AttemptsLeft /\ [Next]_vars => AttemptsLeft'
  <1> SUFFICES ASSUME TypeOK, Held, Ownership, AttemptsLeft, [Next]_vars,
                      NEW i \in JobIds, Exists(i)'
               PROVE  HasAttempts(job'[i])
    BY DEF AttemptsLeft, HasAttempts
  <1>1. Exists(i) => /\ job[i] \in Record /\ job[i].attempt \in Nat /\ i \in issued
                     /\ HasAttempts(job[i])
    BY DEF TypeOK, AttemptsLeft, HasAttempts, Record, Exists, Ownership, Known
  <1>2. CASE ~Exists(i)
    <2>1. Born(i)
      BY <1>2, RecordStep DEF Exists
    <2>2. job'[i].status = "queued" /\ job'[i].attempt = 0
      BY <2>1 DEF Born, NewJob, TypeOK
    <2>3. QED
      BY <2>2, MaxAttemptsAssumption DEF HasAttempts
  <1>3. ASSUME NEW w \in Workers, Step(w), holds[w] = i
        PROVE  HasAttempts(job'[i])
    BY <1>3, HolderAttempts DEF Exists
  <1>4. ASSUME NEW j \in JobIds, Recover(j), Exists(i)
        PROVE  HasAttempts(job'[i])
    <2>1. job'[i] = job[i] \/ job'[i] = Failed(job[i], "interrupted")
      BY <1>4 DEF Recover, Save, TypeOK
    <2>2. "interrupted" \in Reasons
      BY DEF Reasons
    <2>3. QED
      BY <1>1, <1>4, <2>1, <2>2, UpdateAttempts DEF HasAttempts
  <1>5. CASE Outside(i) /\ Exists(i)
    BY <1>1, <1>5, UpdateAttempts DEF Outside, HasAttempts
  <1>6. QED
    BY <1>1, <1>2, <1>3, <1>4, <1>5, OutsideThreads, OutsideHolder DEF Ownership

\* However starts, failures, retries and failing writes follow each other, no job is
\* attempted more than max_attempts times.
THEOREM AttemptsLimited == Spec => []AttemptsBounded
  <1>1. Init => AttemptsLeft
    BY DEF Init, AttemptsLeft, Exists
  <1>2. AttemptsLeft => AttemptsBounded
    BY DEF AttemptsLeft, AttemptsBounded
  <1>3. QED
    BY <1>1, <1>2, AttemptsStep, OwnershipInvariant, PTL DEF Spec

\* Retries, cancels, deletes, restarts: no step takes a live job away from its queue entry
\* or thread.  A thread lets go of a job ("done") only once the job is settled.
THEOREM NoneStranded == Spec => []NoJobStranded
  <1>1. Init => NoJobStranded
    BY DEF Init, NoJobStranded, IsLive, Exists
  <1>2. TypeOK /\ Held /\ Ownership /\ NoJobStranded /\ [Next]_vars => NoJobStranded'
    <2> SUFFICES ASSUME TypeOK, Held, Ownership, NoJobStranded, [Next]_vars,
                        phase' = "serving", accepting', ioFaults' = 0,
                        NEW i \in JobIds, IsLive(i)'
                 PROVE  Owned(i)'
      BY DEF NoJobStranded
    <2> USE DEF store, threads, calls, faults, Own
    <2>0. /\ pc \in [Workers -> Labels] /\ holds \in [Workers -> JobIds \cup {NoJob}]
          /\ queue \in Seq(JobIds)
      BY DEF TypeOK
    <2>1. ASSUME phase = "serving", accepting, ioFaults = 0, IsLive(i)
          PROVE  Owned(i)
      BY <2>1 DEF NoJobStranded
    <2>2. ASSUME UNCHANGED issued
          PROVE  IsLive(i)
      BY <2>2, LiveStep DEF Born
    <2>3. CASE Serve \/ Crash \/ Shutdown
      BY <2>2, <2>3 DEF Serve, Crash, Shutdown, Interrupted, IsLive, Exists
    <2>4. ASSUME NEW c \in Clients, NEW j \in JobIds, CreateJob(c, j)
          PROVE  Owned(i)'
      <3>1. /\ \A k \in DOMAIN queue : k \in DOMAIN queue' /\ queue'[k] = queue[k]
            /\ Len(queue) + 1 \in DOMAIN queue' /\ queue'[Len(queue) + 1] = j
        BY <2>0, <2>4 DEF CreateJob
      <3>2. Queued \cup {j} \subseteq Queued'
        BY <3>1 DEF Queued
      <3>3. CASE i = j
        BY <3>2, <3>3 DEF Owned
      <3>4. CASE i # j
        <4>1. job'[i] = job[i]
          BY <2>4, <3>4 DEF CreateJob, TypeOK
        <4>2. phase = "serving" /\ accepting /\ ioFaults = 0 /\ IsLive(i)
          BY <2>4, <4>1 DEF CreateJob, IsLive, Exists
        <4>3. QED
          BY <2>1, <2>4, <3>2, <4>2 DEF CreateJob, Owned
      <3>5. QED
        BY <3>3, <3>4
    <2>5. ASSUME NEW w \in Workers, Take(w)
          PROVE  Owned(i)'
      <3>1. Owned(i) /\ i # NoJob
        BY <2>1, <2>2, <2>5, NoJobAssumption DEF Take
      <3>2. \A k \in DOMAIN queue : \/ queue[k] = Head(queue)
                                    \/ \E m \in DOMAIN queue' : queue'[m] = queue[k]
        <4>1. ASSUME NEW k \in DOMAIN queue, k # 1
              PROVE  k - 1 \in DOMAIN queue' /\ queue'[k - 1] = queue[k]
          BY <2>0, <2>5, <4>1 DEF Take
        <4>2. queue[1] = Head(queue)
          BY <2>0, <2>5 DEF Take
        <4>3. QED
          BY <4>1, <4>2
      <3>3. pc'[w] = "start" /\ holds'[w] = Head(queue) /\ holds[w] = NoJob
        BY <2>0, <2>5 DEF Take, Goto, Held
      <3>4. \A v \in Workers \ {w} : UNCHANGED <<pc[v], holds[v]>>
        BY <2>0, <2>5 DEF Take, Goto
      <3>5. QED
        BY <3>1, <3>2, <3>3, <3>4 DEF Owned, Queued
    <2>6. ASSUME NEW w \in Workers, Step(w)
          PROVE  Owned(i)'
      <3>1. UNCHANGED <<phase, accepting, queue, issued>>
        BY <2>6 DEF Step, StartAttempt, SafePoint, Compute, SetStage, Complete, MarkCancelled,
           HandleFailure, MarkFailed, Wake, Finish
      <3>2. UNCHANGED ioFaults
        BY <2>6 DEF Step, StartAttempt, SafePoint, Compute, SetStage, Complete, MarkCancelled,
           HandleFailure, MarkFailed, Wake, Finish
      <3>3. Owned(i) /\ IsLive(i) /\ i # NoJob
        BY <2>1, <2>2, <3>1, <3>2, NoJobAssumption
      <3>4. \A v \in Workers \ {w} : UNCHANGED <<pc[v], holds[v]>>
        BY <2>0, <2>6 DEF Step, StartAttempt, SafePoint, Compute, SetStage, Complete,
           MarkCancelled, HandleFailure, MarkFailed, Wake, Finish, Goto
      <3>5. ASSUME holds[w] = i, pc[w] # "done"
            PROVE  pc'[w] # "done" /\ holds'[w] = i
        <4> USE DEF Goto, Save
        <4>1. /\ job[i] \in Record /\ Exists(i) /\ Startable(i)
              /\ job \in [JobIds -> Record \cup {NoRecord}]
          BY <3>3 DEF TypeOK, IsLive, Exists, Startable, Terminal, Live, TERMINAL
        <4>2. /\ job'[i] # Cancelled(job[i]) /\ job'[i] # Succeeded(job[i])
              /\ job'[i] # Failed(job[i], "error")
          BY <4>1, UpdateAttempts DEF IsLive, Live, Reasons
        <4>3. holds' = holds
          BY <2>6, <3>5 DEF Step, StartAttempt, SafePoint, Compute, SetStage, Complete,
             MarkCancelled, HandleFailure, MarkFailed, Wake, Finish
        <4>4. CASE StartAttempt(w)
          BY <2>0, <4>1, <4>2, <4>3, <3>5, <4>4 DEF StartAttempt
        <4>5. CASE SafePoint(w) \/ Compute(w) \/ SetStage(w)
          <5>1. pc'[w] \in Handling \cup Attempting
            <6>1. pc[w] \in Checks \cup Computes \cup Stagings
              BY <4>5 DEF SafePoint, Compute, SetStage
            <6>2. pc'[w] \in Handling \cup {After(pc[w])}
              BY <2>0, <4>1, <3>5, <4>5 DEF SafePoint, Compute, SetStage, Handling
            <6>3. QED
              BY <6>1, <6>2, AfterType
          <5>2. QED
            BY <4>3, <3>5, <5>1, LabelsApart DEF Handling
        <4>6. ~Complete(w) \/ pc'[w] = "cancelled"
          BY <2>0, <4>1, <4>2, <3>5 DEF Complete
        <4>7. ~MarkCancelled(w) /\ ~MarkFailed(w)
          BY <3>3, <4>1, <4>2, <3>5 DEF MarkCancelled, MarkFailed
        <4>8. CASE HandleFailure(w) \/ Wake(w)
          BY <2>0, <4>3, <3>5, <4>8 DEF HandleFailure, Wake
        <4>9. QED
          BY <2>6, <4>3, <3>5, <4>4, <4>5, <4>6, <4>7, <4>8 DEF Step, Finish
      <3>6. QED
        BY <3>1, <3>3, <3>4, <3>5 DEF Owned, Queued
    <2>7. CASE UNCHANGED <<issued, threads, phase, accepting, ioFaults>>
      BY <2>1, <2>2, <2>7 DEF Owned, Queued
    <2>8. ioFaults' # ioFaults + 1
      BY BoundsAssumption DEF TypeOK
    <2>9. QED
      BY <2>3, <2>4, <2>5, <2>6, <2>7, <2>8 DEF Next, vars, BeginCreate, AbandonCreate,
         CreateFails, Cancel, Revise, Delete, DeleteFails, SweepNext, Quarantine, Recover,
         SaveFails, BeginSweep, Save
  <1>3. QED
    BY <1>1, <1>2, OwnershipInvariant, PTL DEF Spec

=============================================================================
