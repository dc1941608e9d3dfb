--------------------------- MODULE MCStudioReview ---------------------------
(* One transcript with up to two revisions.                                *)
EXTENDS StudioReview
=============================================================================
