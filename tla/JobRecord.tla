----------------------------- MODULE JobRecord -----------------------------
(***************************************************************************)
(* The metadata.json record of one queued job and the updates the job      *)
(* services make to it.  asr/jobs.py and tts/jobs.py repeat the same code; *)
(* the line numbers in PROJECT.json are those of asr/jobs.py.  Timestamps, *)
(* messages, file names and audio data are left out.                       *)
(***************************************************************************)
EXTENDS Naturals

CONSTANTS
  Keys,          \* idempotency keys (their digests)
  Fingerprints,  \* request fingerprints: what the caller asked for
  NoKey,         \* the request carries no Idempotency-Key
  NoRecord,      \* no readable metadata.json
  MaxAttempts    \* asr_max_attempts / tts_max_attempts

ASSUME MaxAttemptsAssumption == MaxAttempts \in Nat \ {0}
ASSUME NoKeyAssumption == NoKey \notin Keys

Live     == {"queued", "running", "cancelling"}
TERMINAL == {"succeeded", "failed", "cancelled"}
Stages   == {"queued", "preparing_input", "running_model", "finalizing", "retry_wait"}
              \cup TERMINAL
Reasons  == {"none", "retry_pending", "cancelled", "interrupted", "error"}

\* What every worker-side update asks before it goes on.
CancelAsked(r) == r.cancel \/ r.status = "cancelling"

Running(r) == [r EXCEPT !.status = "running", !.attempt = @ + 1,
                        !.stage = "preparing_input", !.reason = "none"]

AtStage(r, s) == [r EXCEPT !.stage = s]

\* cancel() of a queued job, _mark_cancelled() and the cancel branch of _start_attempt().
Cancelled(r) == [r EXCEPT !.status = "cancelled", !.cancel = TRUE,
                          !.stage = "cancelled", !.reason = "cancelled"]

\* cancel() of a job some worker is running.
Cancelling(r) == [r EXCEPT !.status = "cancelling", !.cancel = TRUE, !.reason = "none"]

Retrying(r) == [r EXCEPT !.status = "queued", !.stage = "retry_wait",
                         !.reason = "retry_pending"]

Failed(r, why) == [r EXCEPT !.status = "failed", !.stage = "failed", !.reason = why]

\* The idempotency scan: a stored record answers for this key.
Answers(r, k) == k # NoKey /\ r # NoRecord /\ r.key = k

=============================================================================
