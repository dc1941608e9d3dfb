--------------------------- MODULE MCStudioAccount ---------------------------
(* One request of the tab on its way beside the status, and two keys.      *)
EXTENDS StudioAccount
=============================================================================
