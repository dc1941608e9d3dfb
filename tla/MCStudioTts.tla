---------------------------- MODULE MCStudioTts -----------------------------
(* One script of two lines, as typed and as imported; two voices, of which *)
(* one speaks a language the runtime is not configured for.                *)
EXTENDS StudioTts

CONSTANTS v1, v2
TwoLines(ends) == [words |-> "x", ends |-> ends]
SomeScripts == {TwoLines("lf"), TwoLines("crlf")}
AllContents == Forms \cup {Posted(f) : f \in Forms}
Native == [v \in Voices |-> IF v = v1 THEN "vi" ELSE "en"]
Lists == {<<v1, v2>>}
=============================================================================
