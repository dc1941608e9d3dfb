--------------------------- MODULE MCStudioVoices ---------------------------
(* A file of the user with a warning, which cannot be cut, and a good one  *)
(* in the server's folder, which can.                                      *)
EXTENDS StudioVoices
Judgement == [a \in Clips \X Cuts |->
                CASE a = <<"file", "whole">> -> "review"
                  [] a = <<"file", "part">> -> "blocked"
                  [] OTHER -> "ready"]
\* Bound: while the form of a profile is open, nothing else goes on.
OneForm == editing = 0 \/ (draft = NoDraft /\ target = 0 /\ staged = NoClip /\ recorder = "idle" /\ asked = {})
=============================================================================
