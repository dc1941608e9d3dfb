------------------------- MODULE StudioVoicesProofs -------------------------
(***************************************************************************)
(* Theorems about StudioVoices, for any clips, cuts, verdicts and bounds:  *)
(* the microphone, one profile for one recording, and profiles made from   *)
(* what was reviewed.                                                      *)
(***************************************************************************)
EXTENDS StudioVoices, TLAPS

-----------------------------------------------------------------------------
\* The recorder.  A request of the mounted recorder is on its way only while it asks.

RecorderInv == /\ open \subseteq {"mounted"}
               /\ open # {} => recorder \in {"recording", "stopping"}
               /\ "mounted" \in asked => recorder = "asking"

RecorderMoves == \/ StartRecording \/ StopRecording \/ RecorderStopped \/ RecorderFailed \/ Unmounted
                 \/ \E owner \in {"mounted", "gone"} : Granted(owner) \/ Denied(owner)
                 \/ UNCHANGED recorderVars

LEMMA RecorderMovesOnly ==
  ASSUME [VoicesNext]_vars
  PROVE  RecorderMoves
  <1>1. CASE IntakeSteps
    <2>1. ASSUME NEW p, ChangePanel(p) PROVE RecorderMoves
      BY <2>1 DEF ChangePanel, RecorderMoves
    <2>2. ASSUME NEW clip, ChooseFile(clip) PROVE RecorderMoves
      BY <2>2 DEF ChooseFile, RecorderMoves
    <2>3. ASSUME NEW clip, ReviewLocal(clip) PROVE RecorderMoves
      BY <2>3 DEF ReviewLocal, Analyze, RecorderMoves
    <2>4. ASSUME NEW cut, EditDraft(cut) PROVE RecorderMoves
      BY <2>4 DEF EditDraft, DraftOnly, RecorderMoves
    <2>5. CASE ReviewUpload \/ Reanalyze
      BY <2>5 DEF ReviewUpload, Reanalyze, Analyze, RecorderMoves
    <2>6. CASE Acknowledge \/ CloseReview
      BY <2>6 DEF Acknowledge, CloseReview, DraftOnly, RecorderMoves
    <2>7. CASE Create \/ Reuse
      BY <2>7 DEF Create, Reuse, RecorderMoves
    <2>8. QED
      BY <1>1, <2>1, <2>2, <2>3, <2>4, <2>5, <2>6, <2>7 DEF IntakeSteps
  <1>2. CASE Recording \/ LateAnswer
    BY <1>2 DEF Recording, LateAnswer, RecorderMoves
  <1>3. CASE Enter \/ Leave
    BY <1>3 DEF Enter, Leave, RecorderMoves
  <1>4. CASE UNCHANGED vars
    BY <1>4 DEF vars, recorderVars, RecorderMoves
  <1>5. QED
    BY <1>1, <1>2, <1>3, <1>4 DEF VoicesNext, RecorderMoves

LEMMA RecorderKept ==
  ASSUME RecorderInv, RecorderMoves
  PROVE  RecorderInv'
  <1>1. ASSUME NEW owner \in {"mounted", "gone"}, Granted(owner) \/ Denied(owner)
        PROVE  RecorderInv'
    BY <1>1 DEF RecorderInv, Granted, Denied, SameGeneration
  <1>2. CASE StartRecording \/ StopRecording \/ UNCHANGED recorderVars
    BY <1>2 DEF RecorderInv, StartRecording, StopRecording, recorderVars
  <1>3. CASE RecorderStopped \/ RecorderFailed \/ Unmounted
    BY <1>3 DEF RecorderInv, RecorderStopped, RecorderFailed, Released, Unmounted
  <1>4. QED
    BY <1>1, <1>2, <1>3 DEF RecorderMoves

\* The microphone is open only for a recorder that is shown and recording.
THEOREM MicrophoneLetGo == Spec => []MicrophoneOnlyRecording
  <1>1. VoicesInit => RecorderInv
    BY DEF VoicesInit, RecorderInit, RecorderInv
  <1>2. RecorderInv /\ [VoicesNext]_vars => RecorderInv'
    BY RecorderMovesOnly, RecorderKept
  <1>3. RecorderInv => MicrophoneOnlyRecording
    BY DEF RecorderInv, MicrophoneOnlyRecording
  <1>4. QED
    BY <1>1, <1>2, <1>3, PTL DEF Spec

-----------------------------------------------------------------------------
\* What the proofs need of the types: the library is a sequence, calls and draft are records.

LibraryTyped == \E S : library \in Seq(S)

Reports == [version : Nat, cut : Cuts, twin : Nat]
CallRecords == [op : {"analyze", "create", "update", "delete"},
                st : {"sent", "judged", "answered", "refused"},
                held : BOOLEAN, latest : BOOLEAN, clip : Clips \cup {NoClip}, cut : Cuts,
                read : Nat, report : Reports, ack : BOOLEAN, voice : Nat]
Drafts == [clip : Clips, cut : Cuts, report : Reports, ack : BOOLEAN, dirty : BOOLEAN]

\* What a request carries agrees with the report it was made from.
CallFits(c) == /\ c \in CallRecords
               /\ c.op \in {"analyze", "create"} => c.clip \in Clips
               /\ c.op = "analyze" /\ c.st = "answered" => c.report.cut = c.cut
               /\ c.op = "create" => c.report.cut = c.cut
               /\ c.op = "create" /\ c.st = "judged" => AsReviewed(c)

CallsFit == \A c \in calls : CallFits(c)
PageFits == /\ staged \in Uploads \cup {NoClip} /\ editing \in Nat /\ target \in Nat
            /\ draft # NoDraft => draft \in Drafts /\ (~draft.dirty => draft.report.cut = draft.cut)
ReviewInv == version \in [Clips -> Nat] /\ CallsFit /\ PageFits

LEMMA NoReportTyped == NoReport \in Reports
  BY CutsAssumption DEF NoReport, Reports

LEMMA CallTyped ==
  ASSUME NEW op \in {"analyze", "create", "update", "delete"}, NEW clip \in Clips \cup {NoClip},
         NEW cut \in Cuts
  PROVE  /\ Call(op, clip, cut) \in CallRecords
         /\ Call(op, clip, cut).op = op /\ Call(op, clip, cut).st = "sent"
         /\ Call(op, clip, cut).clip = clip /\ Call(op, clip, cut).cut = cut
  BY NoReportTyped DEF Call, CallRecords

LEMMA SendFits ==
  ASSUME CallsFit, NEW c, CallFits(c), Send(c)
  PROVE  CallsFit'
  <1> SUFFICES ASSUME NEW d \in calls' PROVE CallFits(d)
    BY DEF CallsFit
  <1>1. CASE d = c \/ d \in calls
    BY <1>1 DEF CallsFit
  <1>2. ASSUME NEW e \in calls, d = [e EXCEPT !.latest = FALSE] PROVE CallFits(d)
    <2>1. CallFits(e) BY DEF CallsFit
    <2>2. /\ d \in CallRecords /\ d.op = e.op /\ d.st = e.st /\ d.clip = e.clip /\ d.cut = e.cut
          /\ d.read = e.read /\ d.report = e.report /\ d.ack = e.ack
      BY <1>2, <2>1 DEF CallFits, CallRecords
    <2>3. QED BY <2>1, <2>2 DEF CallFits, AsReviewed
  <1>3. QED BY <1>1, <1>2 DEF Send

LEMMA ReplyFits ==
  ASSUME CallsFit, NEW c, NEW d, CallFits(d), Reply(c, d)
  PROVE  CallsFit'
  BY DEF CallsFit, Reply

LEMMA DoneFits ==
  ASSUME CallsFit, NEW c, Done(c)
  PROVE  CallsFit'
  BY DEF CallsFit, Done

-----------------------------------------------------------------------------
\* The server keeps calls that fit.

LEMMA TwinTyped ==
  ASSUME NEW a
  PROVE  Twin(a) \in Nat
  BY DEF Twin, WithAudio, Here

\* A call whose state alone is changed, to one that promises nothing new.
LEMMA RefusedFits ==
  ASSUME NEW c, CallFits(c), NEW st \in {"answered", "refused"}, NEW voice \in Nat,
         st = "answered" => c.op # "analyze"
  PROVE  CallFits([c EXCEPT !.st = st]) /\ CallFits([c EXCEPT !.st = st, !.voice = voice])
  <1> DEFINE d == [c EXCEPT !.st = st]
             e == [c EXCEPT !.st = st, !.voice = voice]
  <1>1. /\ d \in CallRecords /\ d.op = c.op /\ d.st = st /\ d.clip = c.clip /\ d.cut = c.cut
        /\ d.report = c.report
    BY DEF CallFits, CallRecords
  <1>2. /\ e \in CallRecords /\ e.op = c.op /\ e.st = st /\ e.clip = c.clip /\ e.cut = c.cut
        /\ e.report = c.report
    BY DEF CallFits, CallRecords
  <1> HIDE DEF d, e
  <1>3. CallFits(d) /\ CallFits(e)
    BY <1>1, <1>2 DEF CallFits
  <1>4. QED BY <1>3 DEF d, e

LEMMA AnalyzeFits ==
  ASSUME ReviewInv, NEW c \in calls, ServeAnalyze(c)
  PROVE  CallsFit'
  <1>1. CallFits(c) /\ c.clip \in Clips
    BY DEF ReviewInv, CallsFit, CallFits, ServeAnalyze
  <1>2. CASE Reply(c, [c EXCEPT !.st = "refused"])
    BY <1>1, <1>2, RefusedFits, ReplyFits DEF ReviewInv
  <1>3. ASSUME NEW v \in Nat, NEW w \in Nat,
               Reply(c, [c EXCEPT !.st = "answered",
                                  !.report = [version |-> v, cut |-> c.cut, twin |-> w]])
        PROVE  CallsFit'
    <2> DEFINE r == [version |-> v, cut |-> c.cut, twin |-> w]
               d == [c EXCEPT !.st = "answered", !.report = r]
    <2>1. r \in Reports /\ r.cut = c.cut
      BY <1>1 DEF Reports, CallFits, CallRecords
    <2>2. /\ d \in CallRecords /\ d.op = "analyze" /\ d.clip = c.clip /\ d.cut = c.cut
          /\ d.report = r
      BY <1>1, <2>1 DEF CallFits, CallRecords, ServeAnalyze
    <2>3. CallFits(d)
      BY <1>1, <2>1, <2>2 DEF CallFits
    <2>4. QED BY <1>3, <2>3, ReplyFits DEF ReviewInv
  <1>4. version[c.clip] \in Nat
    BY <1>1 DEF ReviewInv
  <1>5. QED BY <1>2, <1>3, <1>4, TwinTyped DEF ServeAnalyze

LEMMA CreateFits ==
  ASSUME ReviewInv, NEW c \in calls, ServeCreate(c)
  PROVE  CallsFit'
  <1>1. CallFits(c) /\ c.clip \in Clips /\ c.report.cut = c.cut
    BY DEF ReviewInv, CallsFit, CallFits, ServeCreate
  <1>2. CASE Reply(c, [c EXCEPT !.st = "refused"])
    BY <1>1, <1>2, RefusedFits, ReplyFits DEF ReviewInv
  <1>3. CASE /\ version[c.clip] = c.report.version
             /\ Judged(c.clip, c.cut, c.ack)
             /\ Reply(c, [c EXCEPT !.st = "judged", !.read = version[c.clip]])
    <2> DEFINE d == [c EXCEPT !.st = "judged", !.read = version[c.clip]]
    <2>1. version[c.clip] \in Nat
      BY <1>1 DEF ReviewInv
    <2>2. /\ d \in CallRecords /\ d.op = c.op /\ d.clip = c.clip /\ d.cut = c.cut
          /\ d.report = c.report /\ d.ack = c.ack /\ d.read = version[c.clip] /\ d.st = "judged"
      BY <1>1, <2>1 DEF CallFits, CallRecords
    <2> HIDE DEF d
    <2>3. AsReviewed(d)
      BY <1>1, <1>3, <2>2 DEF AsReviewed, Judged
    <2>4. CallFits(d)
      BY <1>1, <2>2, <2>3 DEF CallFits, ServeCreate
    <2>5. QED BY <1>3, <2>4, ReplyFits DEF ReviewInv, d
  <1>4. QED BY <1>2, <1>3 DEF ServeCreate

LEMMA StoreStepsFit ==
  ASSUME ReviewInv, LibraryTyped, StoreSteps
  PROVE  CallsFit' /\ version' \in [Clips -> Nat]
  <1>1. ASSUME NEW c \in calls, ServeAnalyze(c) \/ ServeCreate(c)
        PROVE  CallsFit' /\ version' \in [Clips -> Nat]
    BY <1>1, AnalyzeFits, CreateFits DEF ServeAnalyze, ServeCreate, ReviewInv
  <1>2. ASSUME NEW c \in calls, ServeStore(c) \/ ServeDelete(c) \/ ServeUpdate(c)
        PROVE  CallsFit' /\ version' \in [Clips -> Nat]
    <2>1. CallFits(c) /\ c.op # "analyze" /\ Len(library) + 1 \in Nat
      BY <1>2 DEF ReviewInv, CallsFit, LibraryTyped, ServeStore, ServeDelete, ServeUpdate
    <2>2. \/ Reply(c, [c EXCEPT !.st = "answered"]) \/ Reply(c, [c EXCEPT !.st = "refused"])
          \/ Reply(c, [c EXCEPT !.st = "answered", !.voice = Len(library) + 1])
      BY <1>2 DEF ServeStore, ServeDelete, ServeUpdate
    <2>3. CallsFit'
      BY <2>1, <2>2, RefusedFits, ReplyFits DEF ReviewInv
    <2>4. QED BY <1>2, <2>3 DEF ReviewInv, ServeStore, ServeDelete, ServeUpdate
  <1>3. ASSUME NEW clip \in Clips, FileReplaced(clip) \/ \E cut \in Cuts : OtherTabCreates(clip, cut)
        PROVE  CallsFit' /\ version' \in [Clips -> Nat]
    <2>1. CASE FileReplaced(clip)
      BY <2>1 DEF FileReplaced, ReviewInv, CallsFit
    <2>2. ASSUME NEW cut \in Cuts, OtherTabCreates(clip, cut)
          PROVE  CallsFit' /\ version' \in [Clips -> Nat]
      BY <2>2 DEF OtherTabCreates, ReviewInv, CallsFit
    <2>3. QED BY <1>3, <2>1, <2>2
  <1>4. QED BY <1>1, <1>2, <1>3 DEF StoreSteps

-----------------------------------------------------------------------------
\* The page sends what fits, and its draft fits the report it shows.

LEMMA LibraryStepsFit ==
  ASSUME ReviewInv, LibrarySteps
  PROVE  ReviewInv'
  <1>1. CASE SaveEdit
    <2> DEFINE c == [Call("update", NoClip, NoReport.cut) EXCEPT !.voice = editing]
    <2>1. NoReport.cut \in Cuts
      BY NoReportTyped DEF Reports
    <2>2. c \in CallRecords /\ c.op = "update"
      BY <2>1, CallTyped DEF CallRecords, ReviewInv, PageFits
    <2>3. CallFits(c)
      BY <2>2 DEF CallFits
    <2>4. CallsFit'
      BY <1>1, <2>3, SendFits DEF SaveEdit, ReviewInv
    <2>5. QED BY <1>1, <2>4 DEF SaveEdit, ReviewInv, PageFits, pageVars
  <1>2. CASE ConfirmDelete
    <2> DEFINE c == [Call("delete", NoClip, NoReport.cut) EXCEPT !.voice = target]
    <2>1. NoReport.cut \in Cuts
      BY NoReportTyped DEF Reports
    <2>2. c \in CallRecords /\ c.op = "delete"
      BY <2>1, CallTyped DEF CallRecords, ReviewInv, PageFits
    <2>3. CallFits(c)
      BY <2>2 DEF CallFits
    <2>4. CallsFit'
      BY <1>2, <2>3, SendFits DEF ConfirmDelete, ReviewInv
    <2>5. QED BY <1>2, <2>4 DEF ConfirmDelete, ReviewInv, PageFits, pageVars
  <1>3. ASSUME NEW v \in VoiceIds, StartEdit(v) \/ AskDelete(v)
        PROVE  ReviewInv'
    BY <1>3, VoiceBoundsAssumption
       DEF StartEdit, AskDelete, StoreOnly, storeVars, VoiceIds, ReviewInv, CallsFit, PageFits
  <1>4. CASE CancelEdit \/ CloseDelete \/ ListLands
    BY <1>4 DEF CancelEdit, CloseDelete, ListLands, StoreOnly, storeVars, ReviewInv, CallsFit, PageFits
  <1>5. ASSUME NEW c \in calls, Analyzed(c)
        PROVE  ReviewInv'
    <2> DEFINE d == [clip |-> c.clip, cut |-> c.cut, report |-> c.report, ack |-> FALSE, dirty |-> FALSE]
    <2>1. CallFits(c) /\ c.clip \in Clips /\ c.report.cut = c.cut
      BY <1>5 DEF ReviewInv, CallsFit, CallFits, Analyzed, Answer
    <2>2. d \in Drafts /\ d.report.cut = d.cut
      BY <2>1 DEF Drafts, CallFits, CallRecords
    <2>3. draft' = d \/ draft' = draft
      BY <1>5 DEF Analyzed
    <2>4. CallsFit'
      BY <1>5, DoneFits DEF Analyzed, Answer, ReviewInv
    <2>5. PageFits'
      BY <1>5, <2>2, <2>3 DEF Analyzed, ReviewInv, PageFits
    <2>6. QED BY <1>5, <2>4, <2>5 DEF Analyzed, Answer, Done, ReviewInv
  <1>6. ASSUME NEW c \in calls, Created(c) \/ Updated(c) \/ Deleted(c) \/ CallFailed(c)
        PROVE  ReviewInv'
    <2>1. Done(c)
      BY <1>6 DEF Created, Updated, Deleted, CallFailed, Answer
    <2>2. PageFits'
      BY <1>6 DEF Created, Updated, Deleted, CallFailed, ReviewInv, PageFits, pageVars
    <2>3. QED BY <2>1, <2>2, DoneFits DEF Done, ReviewInv
  <1>7. QED BY <1>1, <1>2, <1>3, <1>4, <1>5, <1>6 DEF LibrarySteps

\* beginIntakeReview() for a clip and a cut of it.
LEMMA AnalyzeSends ==
  ASSUME ReviewInv, NEW clip \in Clips, NEW cut \in Cuts, Analyze(clip, cut)
  PROVE  ReviewInv'
  <1>1. CallFits(Call("analyze", clip, cut))
    BY CallTyped DEF CallFits
  <1>2. CallsFit'
    BY <1>1, SendFits DEF Analyze, ReviewInv
  <1>3. QED BY <1>2 DEF Analyze, ReviewInv, PageFits, pageVars

LEMMA IntakeStepsFit ==
  ASSUME ReviewInv, IntakeSteps
  PROVE  ReviewInv'
  <1>1. ASSUME NEW p, ChangePanel(p) PROVE ReviewInv'
    BY <1>1 DEF ChangePanel, StoreOnly, storeVars, ReviewInv, CallsFit, PageFits
  <1>2. ASSUME NEW clip \in Uploads \cup {NoClip}, ChooseFile(clip) PROVE ReviewInv'
    BY <1>2 DEF ChooseFile, StoreOnly, storeVars, ReviewInv, CallsFit, PageFits
  <1>3. CASE ReviewUpload
    BY <1>3, AnalyzeSends, CutsAssumption DEF ReviewUpload, ReviewInv, PageFits, Clips
  <1>4. ASSUME NEW clip \in Locals, ReviewLocal(clip) PROVE ReviewInv'
    BY <1>4, AnalyzeSends, CutsAssumption DEF ReviewLocal, Clips
  <1>5. ASSUME NEW cut \in Cuts, EditDraft(cut) PROVE ReviewInv'
    <2>1. draft \in Drafts
      BY <1>5 DEF EditDraft, InDialog, ReviewInv, PageFits
    <2>2. draft' \in Drafts /\ draft'.dirty
      BY <1>5, <2>1 DEF EditDraft, Drafts
    <2>3. QED BY <1>5, <2>2 DEF EditDraft, DraftOnly, StoreOnly, storeVars, ReviewInv, CallsFit, PageFits
  <1>6. CASE Acknowledge
    <2>1. draft \in Drafts /\ draft.report.cut = draft.cut
      BY <1>6 DEF Acknowledge, InDialog, ReviewInv, PageFits
    <2>2. draft' \in Drafts /\ draft'.report.cut = draft'.cut
      BY <1>6, <2>1 DEF Acknowledge, Drafts
    <2>3. QED BY <1>6, <2>2 DEF Acknowledge, DraftOnly, StoreOnly, storeVars, ReviewInv, CallsFit, PageFits
  <1>7. CASE Reanalyze
    BY <1>7, AnalyzeSends DEF Reanalyze, InDialog, ReviewInv, PageFits, Drafts
  <1>8. CASE Create
    <2> DEFINE b == Call("create", draft.clip, draft.cut)
               c == [b EXCEPT !.report = draft.report, !.ack = draft.ack]
    <2>1. draft \in Drafts /\ draft.report.cut = draft.cut
      BY <1>8 DEF Create, CreateEnabled, InDialog, ReviewInv, PageFits
    <2>2. draft.clip \in Clips \cup {NoClip} /\ draft.cut \in Cuts /\ draft.report \in Reports
          /\ draft.ack \in BOOLEAN
      BY <2>1 DEF Drafts
    <2>3. b \in CallRecords /\ b.op = "create" /\ b.st = "sent" /\ b.clip = draft.clip /\ b.cut = draft.cut
      BY <2>2, CallTyped
    <2> HIDE DEF b
    <2>4. /\ c \in CallRecords /\ c.op = "create" /\ c.st = "sent" /\ c.clip = draft.clip
          /\ c.cut = draft.cut /\ c.report = draft.report
      BY <2>2, <2>3 DEF CallRecords
    <2> HIDE DEF c
    <2>5. CallFits(c)
      BY <2>1, <2>4 DEF CallFits, Drafts
    <2>6. CallsFit'
      BY <1>8, <2>5, SendFits DEF Create, ReviewInv, b, c
    <2>7. QED BY <1>8, <2>6 DEF Create, ReviewInv, PageFits, pageVars
  <1>9. CASE Reuse \/ CloseReview
    BY <1>9 DEF Reuse, CloseReview, DraftOnly, StoreOnly, storeVars, ReviewInv, CallsFit, PageFits
  <1>10. QED BY <1>1, <1>2, <1>3, <1>4, <1>5, <1>6, <1>7, <1>8, <1>9 DEF IntakeSteps

LEMMA OtherStepsFit ==
  ASSUME ReviewInv, Recording \/ LateAnswer \/ Enter \/ Leave
  PROVE  ReviewInv'
  <1>1. CASE Recording
    <2>1. staged' \in Uploads \cup {NoClip}
      BY <1>1 DEF Recording, ReviewInv, PageFits
    <2>2. QED BY <1>1, <2>1 DEF Recording, storeVars, ReviewInv, CallsFit, PageFits
  <1>2. CASE LateAnswer \/ Enter
    BY <1>2 DEF LateAnswer, Enter, storeVars, pageVars, ReviewInv, CallsFit, PageFits
  <1>3. CASE Leave
    <2>1. ASSUME NEW c \in calls PROVE CallFits([c EXCEPT !.held = FALSE])
      <3> DEFINE d == [c EXCEPT !.held = FALSE]
      <3>1. CallFits(c) BY DEF ReviewInv, CallsFit
      <3>2. /\ d \in CallRecords /\ d.op = c.op /\ d.st = c.st /\ d.clip = c.clip /\ d.cut = c.cut
            /\ d.read = c.read /\ d.report = c.report /\ d.ack = c.ack
        BY <3>1 DEF CallFits, CallRecords
      <3> HIDE DEF d
      <3>3. CallFits(d) BY <3>1, <3>2 DEF CallFits, AsReviewed
      <3>4. QED BY <3>3 DEF d
    <2>2. CallsFit'
      BY <1>3, <2>1 DEF Leave, CallsFit
    <2>3. QED BY <1>3, <2>2 DEF Leave, ReviewInv, PageFits
  <1>4. QED BY <1>1, <1>2, <1>3

-----------------------------------------------------------------------------
\* The library.

LEMMA LibrarySame ==
  ASSUME [VoicesNext]_vars, ~(StoreSteps /\ UNCHANGED pageVars)
  PROVE  UNCHANGED library
  <1>1. CASE LibrarySteps
    BY <1>1 DEF LibrarySteps, StartEdit, AskDelete, CancelEdit, SaveEdit, CloseDelete, ConfirmDelete,
       Analyzed, Created, Updated, Deleted, CallFailed, Answer, Done, ListLands, StoreOnly, storeVars
  <1>2. CASE IntakeSteps
    BY <1>2 DEF IntakeSteps, ChangePanel, ChooseFile, ReviewUpload, ReviewLocal, Analyze, EditDraft,
       Acknowledge, DraftOnly, Reanalyze, Create, Reuse, CloseReview, StoreOnly, storeVars
  <1>3. CASE Recording \/ LateAnswer \/ Enter \/ Leave \/ UNCHANGED vars
    BY <1>3 DEF Recording, LateAnswer, Enter, Leave, storeVars, vars
  <1>4. QED BY <1>1, <1>2, <1>3 DEF VoicesNext

LibraryInv == LibraryTyped /\ OneVoicePerRecording /\ CreatedAsReviewed

\* What a step of the server makes of the library.
LibraryMoves ==
  \/ UNCHANGED library
  \/ \E v \in Here : library' = [library EXCEPT ![v] = Gone]
  \/ \E a : /\ Unique(a)
            /\ library' = Append(library, [audio |-> a, here |-> TRUE, asReviewed |-> TRUE])

LEMMA StoreStepsMove ==
  ASSUME CallsFit, StoreSteps
  PROVE  LibraryMoves
  <1>1. ASSUME NEW c \in calls, ServeStore(c) PROVE LibraryMoves
    <2>1. AsReviewed(c) \in BOOLEAN /\ AsReviewed(c)
      BY <1>1 DEF ServeStore, CallsFit, CallFits, AsReviewed
    <2>2. [audio |-> <<c.clip, c.read, c.cut>>, here |-> TRUE, asReviewed |-> AsReviewed(c)]
            = [audio |-> <<c.clip, c.read, c.cut>>, here |-> TRUE, asReviewed |-> TRUE]
      BY <2>1, Zenon
    <2>3. QED BY <1>1, <2>2, Zenon DEF ServeStore, LibraryMoves
  <1>2. ASSUME NEW c \in calls, ServeDelete(c) PROVE LibraryMoves
    BY <1>2 DEF ServeDelete, LibraryMoves
  <1>3. ASSUME NEW c \in calls, ServeAnalyze(c) \/ ServeCreate(c) \/ ServeUpdate(c) PROVE LibraryMoves
    BY <1>3 DEF ServeAnalyze, ServeCreate, ServeUpdate, LibraryMoves
  <1>4. ASSUME NEW clip \in Clips, NEW cut \in Cuts, OtherTabCreates(clip, cut) PROVE LibraryMoves
    BY <1>4, Zenon DEF OtherTabCreates, LibraryMoves
  <1>5. ASSUME NEW clip \in Clips, FileReplaced(clip) PROVE LibraryMoves
    BY <1>5 DEF FileReplaced, LibraryMoves
  <1>6. QED BY <1>1, <1>2, <1>3, <1>4, <1>5 DEF StoreSteps

LEMMA LibraryKept ==
  ASSUME LibraryInv, LibraryMoves
  PROVE  LibraryInv'
  <1>1. PICK S : library \in Seq(S)
    BY DEF LibraryInv, LibraryTyped
  <1>2. CASE UNCHANGED library
    BY <1>2 DEF LibraryInv, LibraryTyped, OneVoicePerRecording, CreatedAsReviewed, Here
  <1>3. ASSUME NEW v \in Here, library' = [library EXCEPT ![v] = Gone] PROVE LibraryInv'
    <2>1. library' \in Seq(S \cup {Gone}) /\ Len(library') = Len(library)
      BY <1>1, <1>3 DEF Here
    <2>2. \A w \in 1..Len(library) : library'[w] = IF w = v THEN Gone ELSE library[w]
      BY <1>1, <1>3
    <2>3. Here' = Here \ {v} /\ \A w \in Here' : library'[w] = library[w]
      BY <2>1, <2>2 DEF Here, Gone
    <2>4. QED BY <2>1, <2>3 DEF LibraryInv, LibraryTyped, OneVoicePerRecording, CreatedAsReviewed
  <1>4. ASSUME NEW a, Unique(a),
               library' = Append(library, [audio |-> a, here |-> TRUE, asReviewed |-> TRUE])
        PROVE  LibraryInv'
    <2> DEFINE p == [audio |-> a, here |-> TRUE, asReviewed |-> TRUE]
               n == Len(library) + 1
    <2>1. library' \in Seq(S \cup {p}) /\ Len(library') = n /\ library'[n] = p
          /\ \A w \in 1..Len(library) : library'[w] = library[w]
      BY <1>1, <1>4
    <2>2. Here' = Here \cup {n}
      BY <1>1, <2>1 DEF Here
    <2>3. \A w \in Here : library'[w] = library[w] /\ library[w].audio # a
      BY <1>4, <2>1 DEF Here, Unique, WithAudio
    <2>4. library'[n].audio = a /\ library'[n].asReviewed
      BY <2>1
    <2>5. OneVoicePerRecording'
      BY <2>2, <2>3, <2>4 DEF LibraryInv, OneVoicePerRecording
    <2>6. CreatedAsReviewed'
      BY <2>2, <2>3, <2>4 DEF LibraryInv, CreatedAsReviewed
    <2>7. QED BY <2>1, <2>5, <2>6 DEF LibraryInv, LibraryTyped
  <1>5. QED BY <1>2, <1>3, <1>4 DEF LibraryMoves

-----------------------------------------------------------------------------
\* Both together.

VoicesInv == ReviewInv /\ LibraryInv

LEMMA VoicesInitially ==
  ASSUME VoicesInit
  PROVE  VoicesInv
  <1>1. LibraryInv
    BY DEF VoicesInit, LibraryInv, LibraryTyped, OneVoicePerRecording, CreatedAsReviewed, Here
  <1>2. ReviewInv
    BY DEF VoicesInit, PageInit, ReviewInv, CallsFit, PageFits
  <1>3. QED BY <1>1, <1>2 DEF VoicesInv

LEMMA VoicesKept ==
  ASSUME VoicesInv, [VoicesNext]_vars
  PROVE  VoicesInv'
  <1>1. LibraryInv'
    <2>1. CASE StoreSteps /\ UNCHANGED pageVars
      BY <2>1, StoreStepsMove, LibraryKept DEF VoicesInv, ReviewInv
    <2>2. CASE ~(StoreSteps /\ UNCHANGED pageVars)
      BY <2>2, LibrarySame, LibraryKept DEF VoicesInv, LibraryMoves
    <2>3. QED BY <2>1, <2>2
  <1>2. ReviewInv'
    <2>1. CASE StoreSteps /\ UNCHANGED pageVars
      BY <2>1, StoreStepsFit DEF VoicesInv, LibraryInv, ReviewInv, PageFits, pageVars
    <2>2. CASE UNCHANGED vars
      BY <2>2 DEF vars, VoicesInv, ReviewInv, CallsFit, PageFits
    <2>3. QED BY <2>1, <2>2, LibraryStepsFit, IntakeStepsFit, OtherStepsFit DEF VoicesInv, VoicesNext
  <1>3. QED BY <1>1, <1>2 DEF VoicesInv

\* One recording has one profile, however many tabs save it.
THEOREM RecordingsUnique == Spec => []OneVoicePerRecording
  <1>1. VoicesInv => OneVoicePerRecording
    BY DEF VoicesInv, LibraryInv
  <1>2. QED
    BY <1>1, VoicesInitially, VoicesKept, PTL DEF Spec

\* A profile is made from the source and the cut its user reviewed, with warnings accepted.
THEOREM ReviewedOnly == Spec => []CreatedAsReviewed
  <1>1. VoicesInv => CreatedAsReviewed
    BY DEF VoicesInv, LibraryInv
  <1>2. QED
    BY <1>1, VoicesInitially, VoicesKept, PTL DEF Spec
=============================================================================
