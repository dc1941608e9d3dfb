---------------------------- MODULE JobLifecycle ----------------------------
(***************************************************************************)
(* What the job API promises its callers about one job: a small lifecycle  *)
(* state machine (docs/architecture.md, "ASR jobs use a small lifecycle    *)
(* state machine"), with no queue, no worker, no lock and no disk in it.   *)
(* AsrJobs is checked to implement it.                                     *)
(***************************************************************************)
EXTENDS Naturals

CONSTANTS JobIds, MaxAttempts

VARIABLES
  state,     \* [JobIds -> States]
  attempts   \* [JobIds -> Nat]: how many times the job was started

avars == <<state, attempts>>

Settled == {"succeeded", "failed", "interrupted", "cancelled"}
Active  == {"queued", "running", "cancelling"}
States  == Settled \cup Active \cup {"unborn", "removed"}

Init == /\ state = [j \in JobIds |-> "unborn"]
        /\ attempts = [j \in JobIds |-> 0]

Becomes(j, from, to) == /\ state[j] \in from
                        /\ state' = [state EXCEPT ![j] = to]

Admit(j)   == Becomes(j, {"unborn"}, "queued") /\ UNCHANGED attempts
Spoil(j)   == Becomes(j, {"unborn"}, "removed") /\ UNCHANGED attempts
Begin(j)   == /\ Becomes(j, {"queued"}, "running")
              /\ attempts[j] < MaxAttempts
              /\ attempts' = [attempts EXCEPT ![j] = @ + 1]
Requeue(j) == /\ Becomes(j, {"running"}, "queued")
              /\ attempts[j] < MaxAttempts
              /\ UNCHANGED attempts
Succeed(j) == Becomes(j, {"running"}, "succeeded") /\ UNCHANGED attempts
Fail(j)    == Becomes(j, {"running"}, "failed") /\ UNCHANGED attempts

\* A queued job is cancelled at once, a running one at its next safe point.
Cancel(j) == /\ \/ Becomes(j, {"queued", "cancelling"}, "cancelled")
                \/ Becomes(j, {"running"}, "cancelling")
             /\ UNCHANGED attempts

Interrupt(j) == Becomes(j, Active, "interrupted") /\ UNCHANGED attempts

\* Deletion of a settled job, or quarantine of an unreadable record: the attempt
\* count goes with the record.
Remove(j) == /\ Becomes(j, Settled \cup Active, "removed")
             /\ attempts' = [attempts EXCEPT ![j] = 0]

Next == \E j \in JobIds :
          \/ Admit(j) \/ Spoil(j) \/ Begin(j) \/ Requeue(j) \/ Succeed(j) \/ Fail(j)
          \/ Cancel(j) \/ Interrupt(j) \/ Remove(j)

Spec == Init /\ [][Next]_avars
=============================================================================
