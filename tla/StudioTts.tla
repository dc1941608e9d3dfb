------------------------------ MODULE StudioTts ------------------------------
(***************************************************************************)
(* The Generate page over the synthesis queue, with the router that mounts *)
(* one page at a time (App.tsx).  The other pages may leave a script for   *)
(* Generate.                                                               *)
(***************************************************************************)
EXTENDS GenerateView

ttsVars == <<page, jobs, list, calls, lock, retry, effort, drawn, form, voices, render, told>>

StudioInit == JobsInit /\ jobs = <<>> /\ GenerateInit

\* The route changes; the Generate page takes over a script that was left for it.
OpenGenerate == /\ Navigate("generate")
                /\ \E s \in Scripts \cup {form.script} : GenerateOpens(s)
LeaveGenerate == Navigate("other") /\ GenerateLeft

StudioNext == \/ GenerateSteps
              \/ (Queue \/ ListSteps) /\ UNCHANGED generateVars
              \/ OpenGenerate \/ LeaveGenerate

TtsSpec == StudioInit /\ [][StudioNext]_ttsVars

\* Intervals fire, the worker ends what it has accepted, and a server that is asked again and
\* again answers some time.
FairTtsSpec == /\ TtsSpec
               /\ WF_ttsVars(Poll /\ UNCHANGED generateVars)
               /\ SF_ttsVars(LandList /\ UNCHANGED generateVars)
               /\ SF_ttsVars(AnswerList /\ UNCHANGED generateVars)

-----------------------------------------------------------------------------
\* While the page stays open it does not submit a form for which it has been told of a job that
\* is still active, whatever older lists arrive in between, provided the job comes back with the
\* text that was sent: a script of one line, or one imported with CRLF.  A script of several lines
\* that was typed is submitted again while its job is active, because the job comes back with
\* other line ends (Posted).
ReturnsAsSent(f) == Posted(f) = f
NoSecondRender ==
  [][\A c \in calls' \ calls :
       (c.op = "create" /\ c.page = "generate" /\ c.held /\ c.st = "sent" /\ ReturnsAsSent(form))
         => ~\E i \in told : jobs[i].what = c.what /\ jobs[i].status \in Live]_ttsVars

\* A render that has ended is shown as it ended, if a page with the list stays open: in the
\* list, in the notice of the page that submitted it, and its audio in the output panel; also
\* when its answer was lost, and after lists that failed to load or landed late.
RenderSaid(i) == /\ InStep(i)
                 /\ (RenderNotice # Absent /\ render.job = i) => RenderNotice = Seen(jobs[i])
                 /\ jobs[i].status = "succeeded" => LatestOutput >= i
RenderShown == \A i \in JobIds : Has(i, Settled) ~> (~Observed \/ (Has(i, Settled) => RenderSaid(i)))
=============================================================================
