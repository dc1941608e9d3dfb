---------------------------- MODULE MCStudioQueue ----------------------------
(* One job to start from and two more, with two idempotency keys.          *)
EXTENDS StudioQueue
=============================================================================
