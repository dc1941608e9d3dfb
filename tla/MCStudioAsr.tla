---------------------------- MODULE MCStudioAsr -----------------------------
(* Two recordings and two languages.                                       *)
EXTENDS StudioAsr
AllRequests == Requests
=============================================================================
