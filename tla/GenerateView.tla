---------------------------- MODULE GenerateView ----------------------------
(***************************************************************************)
(* The Generate page (GenerateView.tsx): a script, a voice and settings    *)
(* make a request; a request is submitted once, and not again while an     *)
(* equal job is known to be active.  The draft and the voice are kept in   *)
(* localStorage; what the page fills in by itself (effects) follows in the *)
(* same step as the render that causes it.  A script is its wording and    *)
(* how its lines end, trimmed as it is before it is sent; a mode stands    *)
(* for render mode and speed.  Wording and players are left out.           *)
(***************************************************************************)
EXTENDS StudioJobs

CONSTANTS Scripts, Voices, NoVoice, Tongues, Modes, DefaultMode,
          NativeTongue,  \* [Voices -> Tongues]
          Configured,    \* tongues the runtime is configured for
          VoiceLists     \* what the voice query may answer

\* A script of one line, or one whose lines end in LF (typed) or all in CRLF (imported).
Blank == [words |-> "", ends |-> "none"]
ASSUME FormAssumption ==
  /\ Scripts \subseteq [words : STRING \ {""}, ends : {"none", "lf", "crlf"}]
  /\ NoVoice \notin Voices /\ NativeTongue \in [Voices -> Tongues]
  /\ Configured \subseteq Tongues /\ DefaultMode \in Modes

VARIABLES
  form,     \* script, selected voice, settings: tongue and mode
  voices,   \* the voices the page knows, in order
  render,   \* generateMutation: its state, request and the job as it was created
  told      \* jobs this opening of the page was told it has made: for the properties only

generateVars == <<form, voices, render, told>>

Settings == [tongue : Tongues, mode : Modes]
Forms == [script : Scripts \cup {Blank}, voice : Voices \cup {NoVoice}, settings : Settings]

\* What a job is made from, and comes back with: encoding the FormData of the request writes
\* every end of a line as CRLF; the strip() of validate_text_field() finds nothing more to do.
LineEnds(ends) == IF ends = "lf" THEN "crlf" ELSE ends
Posted(f) == [f EXCEPT !.script.ends = LineEnds(@)]
ASSUME ContentsAssumption == \A f \in Forms : f \in Contents /\ Posted(f) \in Contents
ASSUME VoiceListsAssumption == VoiceLists \subseteq Seq(Voices)
NoRender == [st |-> "idle", what |-> NoRetry, job |-> 0, seen |-> Absent]

GenerateInit == /\ form \in [script : {Blank}, voice : {NoVoice},
                              settings : [tongue : Tongues, mode : {DefaultMode}]]
                /\ voices = <<>> /\ render = NoRender /\ told = {}

-----------------------------------------------------------------------------
\* What the page derives from its state.

\* findActiveRenderJob(): the job just created, as listed or else as created, comes first.  What
\* is compared with the form is what the server returned.
OfRender == IF render.st # "success" THEN Absent
            ELSE IF Shown(render.job) # Absent THEN Shown(render.job) ELSE render.seen
ActiveRequestJob ==
  \/ OfRender.status \in Live /\ jobs[render.job].what = form
  \/ \E i \in JobIds : Shown(i).status \in Live /\ jobs[i].what = form

\* RenderLifecycleNotice: what the page says of the request it submitted last.
RenderNotice == IF render.st = "success" /\ render.what = form THEN OfRender ELSE Absent

\* OutputPanel shows the newest listed job with audio, 0 for none.
WithAudio == {i \in JobIds : Shown(i).status = "succeeded"}
LatestOutput == IF WithAudio = {} THEN 0 ELSE CHOOSE i \in WithAudio : \A k \in WithAudio : k <= i

ScriptReady == form.script # Blank
VoiceReady  == voices # <<>>
CanGenerate == /\ ScriptReady /\ VoiceReady
               /\ form.settings.tongue \in Configured
               /\ render.st # "pending"
               /\ ~ActiveRequestJob

\* The effects on voices and selection: a voice that is gone is replaced by the first one,
\* and the language follows the voice.
InList(v, vs) == \E n \in 1..Len(vs) : vs[n] = v
Selection(f, vs) == IF vs = <<>> \/ InList(f.voice, vs) THEN f
                    ELSE [f EXCEPT !.voice = vs[1], !.settings.tongue = NativeTongue[vs[1]]]

-----------------------------------------------------------------------------
\* The user.

OnGenerate == page = "generate"
EditOnly == UNCHANGED <<jobVars, voices, render, told>>

\* ScriptEditor: typing, a suggestion, Clear.  A textarea's value has its lines end in LF.
Typed == {s \in Scripts \cup {Blank} : s.ends # "crlf"}
EditScript == /\ OnGenerate
              /\ \E s \in Typed \ {form.script} : form' = [form EXCEPT !.script = s]
              /\ EditOnly

\* FirstRunChecklist offers a sample while there is no script; its other buttons generate, or
\* lead to other pages.
UseSample == /\ OnGenerate /\ ~ScriptReady
             /\ \E s \in Typed \ {Blank} : form' = [form EXCEPT !.script = s]
             /\ EditOnly

\* VoicePanel's select; handleVoiceSelect() sets the language too.
SelectVoice == /\ OnGenerate
               /\ \E n \in 1..Len(voices) :
                    /\ voices[n] # form.voice
                    /\ form' = [form EXCEPT !.voice = voices[n],
                                            !.settings.tongue = NativeTongue[voices[n]]]
               /\ EditOnly

\* LanguageControl, RenderModeControl and the speed slider.
ChangeSettings == /\ OnGenerate /\ VoiceReady
                  /\ \E s \in Settings \ {form.settings} : form' = [form EXCEPT !.settings = s]
                  /\ EditOnly

\* handleTextImport(): when the file has been read, at any later time, its text replaces
\* whatever the editor holds by then.
TextImported == /\ OnGenerate
                /\ \E s \in Scripts : form' = [form EXCEPT !.script = s]
                /\ EditOnly

\* handleGenerate()
Generate == /\ OnGenerate /\ CanGenerate
            /\ Submit("generate", form, Posted(form))
            /\ render' = [NoRender EXCEPT !.st = "pending", !.what = form]
            /\ UNCHANGED <<page, jobs, list, form, voices, told>>

-----------------------------------------------------------------------------
\* Answers.

\* The voice list arrives.
VoicesLand == /\ OnGenerate
              /\ \E vs \in VoiceLists : voices' = vs /\ vs # voices /\ form' = Selection(form, vs)
              /\ UNCHANGED <<jobVars, render, told>>

\* generateMutation.onSuccess: the list is updated even when the page is gone.
WithoutInvalidate(q) == q
AfterCreate(q) == Refreshed(q)

RenderQueued(c) ==
  /\ c.page = "generate" /\ c.op = "create" /\ Succeeds(c)
  /\ Accepted(c)
  /\ list' = AfterCreate(Prepended(list, c.job, c.seen))
  /\ render' = IF c.held THEN [render EXCEPT !.st = "success", !.job = c.job, !.seen = c.seen]
               ELSE render
  /\ told' = IF c.held THEN told \cup {c.job} ELSE told
  /\ UNCHANGED <<page, jobs, drawn, form, voices>>

RenderRefused(c) ==
  /\ c.page = "generate" /\ c.op = "create" /\ Errs(c)
  /\ Rejected(c)
  /\ render' = IF c.held THEN [render EXCEPT !.st = "error"] ELSE render
  /\ UNCHANGED <<page, jobs, list, effort, drawn, form, voices, told>>

GenerateSteps == \/ EditScript \/ UseSample \/ SelectVoice \/ ChangeSettings \/ TextImported \/ Generate
                 \/ VoicesLand
                 \/ \E c \in calls : RenderQueued(c) \/ RenderRefused(c)

\* The page opens with the stored draft and voice, or with the script another page left for
\* it (consumePendingScript).
GenerateOpens(script) ==
  /\ render' = NoRender /\ told' = {} /\ form' = [form EXCEPT !.script = script] /\ UNCHANGED voices

\* Draft and voice stay; mode and speed start over, in the voice's language.
Remembered(f) ==
  [f EXCEPT !.settings = [tongue |-> IF f.voice = NoVoice THEN f.settings.tongue ELSE NativeTongue[f.voice],
                          mode |-> DefaultMode]]
GenerateLeft == render' = NoRender /\ told' = {} /\ form' = Remembered(form) /\ UNCHANGED voices
=============================================================================
