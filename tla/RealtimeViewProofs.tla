------------------------- MODULE RealtimeViewProofs -------------------------
(***************************************************************************)
(* Theorems about RealtimeView, for any number of sockets and whatever     *)
(* server, network, user and browser do: the page's refs agree with its    *)
(* screen, what was cleared stays cleared, and a session that is stopped   *)
(* and confirmed has all of its audio on the page.                         *)
(***************************************************************************)
EXTENDS RealtimeView, RealtimeSessionProofs, TLAPS

\* What the proofs need of the page's type.
PageTyped == ready \in [Sockets -> Connection] /\ current \in Sides

\* Every reachable socket is the current one.
OnlyCurrent == \A s \in Sockets : ready[s] \in Reachable => current = s
AtRest      == screen \in {"idle", "error", "away"} => current = NoSocket /\ alarm = NoSocket

PageInv == PageTyped /\ OnlyCurrent /\ AtRest /\ MicrophoneOnlyListening

-----------------------------------------------------------------------------
\* cleanupRealtimeResources(), where nothing but the current socket can be open.

Nothing == /\ alarm = NoSocket /\ current = NoSocket /\ capture = NoSocket
           /\ ready \in [Sockets -> Connection]
           /\ \A s \in Sockets : ready[s] \notin Reachable

LEMMA ReleaseLeavesNothing ==
  ASSUME PageInv, Release
  PROVE  Nothing'
  BY NoSocketAssumption
     DEF PageInv, PageTyped, OnlyCurrent, Release, Nothing, Sides, Connection, Reachable

LEMMA ReleaseClosedLeavesNothing ==
  ASSUME PageInv, NEW s \in Sockets, IsCurrent(s), ReleaseClosed(s)
  PROVE  Nothing'
  BY NoSocketAssumption
     DEF PageInv, PageTyped, OnlyCurrent, IsCurrent, ReleaseClosed, Nothing, Sides, Connection,
         Reachable

LEMMA NothingIsFine ==
  ASSUME Nothing'
  PROVE  PageInv'
  BY DEF Nothing, PageInv, PageTyped, OnlyCurrent, AtRest, MicrophoneOnlyListening, Sides

-----------------------------------------------------------------------------
\* The page may also stay as it is.

LEMMA SamePage ==
  ASSUME PageInv, UNCHANGED <<screen, current, finalizing, alarm, ready, capture>>
  PROVE  PageInv'
  BY DEF PageInv, PageTyped, OnlyCurrent, AtRest, MicrophoneOnlyListening

LEMMA UserKeeps ==
  ASSUME PageInv, User
  PROVE  PageInv'
  <1>1. CASE Start
    <2>1. /\ current = NoSocket
          /\ \A s \in Sockets : ready[s] \notin Reachable
          /\ alarm' = NoSocket /\ capture' = NoSocket
      BY <1>1, NoSocketAssumption DEF Start, PageInv, OnlyCurrent
    <2>2. CASE \E s \in Sockets : /\ ready' = [ready EXCEPT ![s] = "connecting"]
                                  /\ current' = s
                                  /\ screen' = "connecting"
      BY <2>1, <2>2 DEF PageInv, PageTyped, OnlyCurrent, AtRest, MicrophoneOnlyListening, Sides,
         Connection
    <2>3. CASE UNCHANGED <<current, ready>>
      BY <2>1, <2>3 DEF PageInv, PageTyped, OnlyCurrent, AtRest, MicrophoneOnlyListening
    <2>4. QED
      BY <1>1, <2>2, <2>3 DEF Start
  <1>2. CASE Stop
    <2>1. CASE StopOpen
      BY <2>1 DEF StopOpen, PageInv, PageTyped, OnlyCurrent, AtRest, MicrophoneOnlyListening
    <2>2. CASE StopOther
      BY <2>2, ReleaseLeavesNothing, NothingIsFine DEF StopOther
    <2>3. QED
      BY <1>2, <2>1, <2>2 DEF Stop
  <1>3. CASE ClearPage
    BY <1>3, SamePage DEF ClearPage
  <1>4. CASE Leave
    BY <1>4, ReleaseLeavesNothing, NothingIsFine DEF Leave
  <1>5. CASE Open
    BY <1>5 DEF Open, PageInv, PageTyped, OnlyCurrent, AtRest, MicrophoneOnlyListening
  <1>6. QED
    BY <1>1, <1>2, <1>3, <1>4, <1>5 DEF User

LEMMA OnCloseKeeps ==
  ASSUME PageInv, NEW s \in Sockets, OnClose(s)
  PROVE  PageInv'
  <1>1. CASE IsCurrent(s)
    BY <1>1, ReleaseClosedLeavesNothing, NothingIsFine DEF OnClose
  <1>2. CASE ~IsCurrent(s)
    BY <1>2 DEF OnClose, PageInv, PageTyped, OnlyCurrent, AtRest, MicrophoneOnlyListening,
       Connection, Reachable
  <1>3. QED
    BY <1>1, <1>2

LEMMA BrowserKeeps ==
  ASSUME PageInv, NEW s \in Sockets, Browser(s)
  PROVE  PageInv'
  <1>1. CASE Established(s)
    BY <1>1 DEF Established, PageInv, PageTyped, OnlyCurrent, AtRest, MicrophoneOnlyListening,
       Connection, Reachable
  <1>2. CASE OnMessage(s)
    <2>1. CASE OnReady(s) \/ OnTranscript(s) \/ OnCleared(s)
      BY <2>1, SamePage DEF OnReady, OnTranscript, OnCleared
    <2>2. CASE OnClosed(s) \/ OnError(s)
      BY <2>2, ReleaseLeavesNothing, NothingIsFine DEF OnClosed, OnError
    <2>3. QED
      BY <1>2, <2>1, <2>2 DEF OnMessage
  <1>3. CASE Closing(s)
    BY <1>3 DEF Closing, PageInv, PageTyped, OnlyCurrent, AtRest, MicrophoneOnlyListening,
       Connection, Reachable
  <1>4. CASE Closed(s) \/ Failed(s)
    BY <1>4, OnCloseKeeps DEF Closed, Failed
  <1>5. CASE Granted(s)
    <2>1. CASE StillWanted(s)
      BY <1>5, <2>1, NoSocketAssumption DEF Granted, StillWanted, IsCurrent, PageInv, PageTyped,
         OnlyCurrent, AtRest, MicrophoneOnlyListening
    <2>2. CASE ~StillWanted(s)
      BY <1>5, <2>2, SamePage DEF Granted
    <2>3. QED
      BY <2>1, <2>2
  <1>6. CASE Denied(s)
    <2>1. CASE IsCurrent(s) /\ ~finalizing
      BY <1>6, <2>1, ReleaseLeavesNothing, NothingIsFine DEF Denied
    <2>2. CASE ~(IsCurrent(s) /\ ~finalizing)
      BY <1>6, <2>2, SamePage DEF Denied
    <2>3. QED
      BY <2>1, <2>2
  <1>7. CASE \E k \in 1 .. MaxSpoken : Capture(s, k)
    BY <1>7, SamePage DEF Capture, page
  <1>8. QED
    BY <1>1, <1>2, <1>3, <1>4, <1>5, <1>6, <1>7 DEF Browser

LEMMA TimesOutKeeps ==
  ASSUME PageInv, TimesOut
  PROVE  PageInv'
  <1>1. CASE IsCurrent(alarm)
    BY <1>1, ReleaseLeavesNothing, NothingIsFine DEF TimesOut
  <1>2. CASE ~IsCurrent(alarm)
    BY <1>2 DEF TimesOut, PageInv, PageTyped, OnlyCurrent, AtRest, MicrophoneOnlyListening
  <1>3. QED
    BY <1>1, <1>2

-----------------------------------------------------------------------------

LEMMA PageInvariant == ViewSpec => []PageInv
  <1>1. ViewInit => PageInv
    BY DEF ViewInit, PageInv, PageTyped, OnlyCurrent, AtRest, MicrophoneOnlyListening, Sides,
       Connection, Reachable
  <1>2. PageInv /\ [ViewNext]_viewVars => PageInv'
    <2>1. ASSUME PageInv, ViewNext PROVE PageInv'
      <3>1. ASSUME NEW s \in Sockets, Server(s) \/ NetworkFails(s) PROVE PageInv'
        BY <2>1, <3>1, SamePage DEF Server, NetworkFails, page
      <3>2. QED
        BY <2>1, <3>1, UserKeeps, BrowserKeeps, TimesOutKeeps DEF ViewNext
    <2>2. ASSUME PageInv, UNCHANGED viewVars PROVE PageInv'
      BY <2>2, SamePage DEF viewVars
    <2>3. QED
      BY <2>1, <2>2
  <1>3. QED
    BY <1>1, <1>2, PTL DEF ViewSpec

\* However late getUserMedia() answers and whatever happens to the sockets meanwhile, the
\* microphone is open only for the session the page shows as listening (startMicrophone,
\* stopSession, cleanupRealtimeResources).
THEOREM MicrophoneConfined == ViewSpec => []MicrophoneOnlyListening
  <1>1. PageInv => MicrophoneOnlyListening
    BY DEF PageInv
  <1>2. QED
    BY <1>1, PageInvariant, PTL

\* At most one socket can be reached, it is the one the page refers to, and a page that
\* rests refers to none and has no timeout left (cleanupRealtimeResources, onclose).
THEOREM NoSocketLeaks == ViewSpec => []NothingLeftBehind
  <1>1. PageInv => NothingLeftBehind
    BY DEF PageInv, OnlyCurrent, AtRest, NothingLeftBehind
  <1>2. QED
    BY <1>1, PageInvariant, PTL

-----------------------------------------------------------------------------
\* The page's type.

Typed == TypeOK /\ ViewTypeOK

\* What a step that leaves the sessions alone may do to the messages.
Wired == /\ up \in [Sockets -> Seq(Messages)]
         /\ down \in [Sockets -> Seq(Answers)]
         /\ gone \subseteq Sockets

LEMMA WiredTyped ==
  ASSUME TypeOK, UNCHANGED <<session, mic>>, Wired'
  PROVE  TypeOK'
  BY DEF TypeOK, Wired

LEMMA DisconnectIsMessage == [type |-> "disconnect"] \in Messages
  BY DEF Messages, Plain

LEMMA ReleaseTyped ==
  ASSUME Typed, Release
  PROVE  /\ Wired' /\ alarm' = NoSocket /\ current' = NoSocket /\ capture' = NoSocket
         /\ ready' \in [Sockets -> Connection]
  <1>1. CASE current # NoSocket /\ ready[current] \in Reachable
    <2>1. current \in Sockets
      BY <1>1 DEF Typed, ViewTypeOK, Sides
    <2>2. up' \in [Sockets -> Seq(Messages)]
      BY <1>1, <2>1, DisconnectIsMessage, SentType DEF Release, HangUp, Typed
    <2>3. gone' \subseteq Sockets
      BY <1>1, <2>1 DEF Release, HangUp, Typed, TypeOK
    <2>4. down' \in [Sockets -> Seq(Answers)]
      <3>1. <<>> \in Seq(Answers)
        BY EmptySeq
      <3>2. QED
        BY <1>1, <2>1, <3>1 DEF Release, Typed, TypeOK
    <2>5. ready' \in [Sockets -> Connection]
      BY <1>1, <2>1 DEF Release, Typed, ViewTypeOK, Connection
    <2>6. QED
      BY <2>2, <2>3, <2>4, <2>5 DEF Release, Wired
  <1>2. CASE ~(current # NoSocket /\ ready[current] \in Reachable)
    BY <1>2 DEF Release, Typed, TypeOK, ViewTypeOK, Wired
  <1>3. QED
    BY <1>1, <1>2

LEMMA ConsumedTyped ==
  ASSUME TypeOK, NEW s \in Sockets, down[s] # <<>>, Consumed(s)
  PROVE  down' \in [Sockets -> Seq(Answers)]
  <1>1. down[s] \in Seq(Answers)
    BY DEF TypeOK
  <1>2. Tail(down[s]) \in Seq(Answers)
    BY <1>1, HeadTailProperties
  <1>3. QED
    BY <1>2 DEF Consumed, TypeOK

LEMMA NothingShownTyped == NothingShown \in [Sockets -> Seq(Sample)]
  <1>1. <<>> \in Seq(Sample)
    BY EmptySeq
  <1>2. QED
    BY <1>1 DEF NothingShown

LEMMA SpeakTyped ==
  ASSUME TypeOK, NEW s \in Sockets, NEW k \in Nat, Speak(s, k)
  PROVE  TypeOK'
  <1>1. [type |-> "audio", samples |-> Speech(s, k)] \in Messages
    BY SpeechFacts DEF Messages
  <1>2. up' \in [Sockets -> Seq(Messages)]
    BY <1>1, SentType DEF Speak
  <1>3. mic[s].take \in Nat /\ mic[s].n \in Nat /\ mic[s].n + k \in Nat
    BY DEF TypeOK
  <1> DEFINE n0 == mic[s].n
  <1>4. n0 + k \in Nat /\ mic' = [mic EXCEPT ![s].n = n0 + k]
    BY <1>3 DEF Speak
  <1> HIDE DEF n0
  <1>5. mic' \in [Sockets -> [take : Nat, n : Nat]]
    BY <1>3, <1>4 DEF TypeOK
  <1>6. QED
    BY <1>2, <1>5 DEF Speak, TypeOK

LEMMA AskToClearTyped ==
  ASSUME TypeOK, NEW s \in Sockets, AskToClear(s)
  PROVE  TypeOK'
  <1>1. [type |-> "clear"] \in Messages
    BY DEF Messages, Plain
  <1>2. up' \in [Sockets -> Seq(Messages)]
    BY <1>1, SentType DEF AskToClear
  <1>3. mic[s].take + 1 \in Nat
    BY DEF TypeOK
  <1>4. mic' = [mic EXCEPT ![s] = [take |-> mic[s].take + 1, n |-> 0]]
    BY DEF AskToClear
  <1>5. mic' \in [Sockets -> [take : Nat, n : Nat]]
    BY <1>3, <1>4 DEF TypeOK
  <1>6. QED
    BY <1>2, <1>5 DEF AskToClear, TypeOK

\* The server's steps, and the opening of a connection.
LEMMA ServedTyped ==
  ASSUME TypeOK, NEW s \in Sockets, Serve(s) \/ ServerCloses(s) \/ Ask(s)
  PROVE  TypeOK'
  <1>1. SessionStep /\ Elsewhere'
    BY ServeTyped
  <1>2. session' \in [Sockets -> Session]
    <2>1. CASE session' = session
      BY <2>1 DEF TypeOK
    <2>2. ASSUME NEW r \in Sockets, NEW y, Becomes(r, y), Moves(session[r], y)
          PROVE  session' \in [Sockets -> Session]
      <3>1. y \in Session
        BY <2>2, MovesType DEF TypeOK
      <3>2. QED
        BY <2>2, <3>1 DEF Becomes, TypeOK
    <2>3. QED
      BY <1>1, <2>1, <2>2 DEF SessionStep
  <1>3. QED
    BY <1>1, <1>2 DEF TypeOK, Elsewhere

LEMMA UserTyped ==
  ASSUME Typed, User
  PROVE  Typed'
  <1>1. CASE Start
    <2>1. CASE \E s \in Sockets : /\ Ask(s)
                                  /\ ready' = [ready EXCEPT ![s] = "connecting"]
                                  /\ current' = s
                                  /\ screen' = "connecting"
      <3>1. TypeOK'
        BY <2>1, ServedTyped DEF Typed
      <3>2. QED
        BY <1>1, <2>1, <3>1 DEF Start, Typed, ViewTypeOK, Screens, Sides, Connection
    <2>2. CASE /\ screen' = "error"
               /\ UNCHANGED <<session, up, down, gone, mic, current, ready>>
      BY <1>1, <2>2 DEF Start, Typed, TypeOK, ViewTypeOK, Screens, Sides
    <2>3. QED
      BY <1>1, <2>1, <2>2 DEF Start
  <1>2. CASE Stop
    <2>1. CASE StopOpen
      <3>1. [type |-> "close"] \in Messages /\ current \in Sockets
        BY <2>1 DEF StopOpen, Messages, Plain, Typed, ViewTypeOK, Sides
      <3>2. up' \in [Sockets -> Seq(Messages)]
        BY <2>1, <3>1, SentType DEF StopOpen, Typed
      <3>3. QED
        BY <2>1, <3>1, <3>2 DEF StopOpen, StopAlarm, Typed, TypeOK, ViewTypeOK, Screens, Sides
    <2>2. CASE StopOther
      BY <2>2, ReleaseTyped, WiredTyped DEF StopOther, Typed, ViewTypeOK, Screens, Sides
    <2>3. QED
      BY <1>2, <2>1, <2>2 DEF Stop
  <1>3. CASE ClearPage
    <2>1. TypeOK'
      <3>1. CASE current # NoSocket /\ ready[current] = "open" /\ AskToClear(current)
        BY <3>1, AskToClearTyped DEF Typed, ViewTypeOK, Sides
      <3>2. CASE UNCHANGED <<session, up, down, gone, mic>>
        BY <3>2 DEF Typed, TypeOK
      <3>3. QED
        BY <1>3, <3>1, <3>2 DEF ClearPage
    <2>2. QED
      BY <1>3, <2>1, NothingShownTyped DEF ClearPage, Typed, ViewTypeOK
  <1>4. CASE Leave
    BY <1>4, ReleaseTyped, WiredTyped DEF Leave, Typed, ViewTypeOK, Screens, Sides
  <1>5. CASE Open
    BY <1>5, NothingShownTyped DEF Open, Typed, TypeOK, ViewTypeOK, Screens
  <1>6. QED
    BY <1>1, <1>2, <1>3, <1>4, <1>5 DEF User

LEMMA MessageTyped ==
  ASSUME Typed, NEW s \in Sockets, OnMessage(s)
  PROVE  Typed'
  <1>1. CASE OnReady(s) \/ OnTranscript(s) \/ OnCleared(s)
    <2>1. down' \in [Sockets -> Seq(Answers)]
      BY <1>1, ConsumedTyped DEF OnReady, OnTranscript, OnCleared, Arrived, Typed
    <2>2. TypeOK'
      BY <1>1, <2>1 DEF OnMessage, OnReady, OnTranscript, OnCleared, Typed, TypeOK
    <2>3. shown' \in [Sockets -> Seq(Sample)]
      <3>1. CASE OnReady(s)
        BY <3>1 DEF OnReady, Typed, ViewTypeOK
      <3>2. CASE OnCleared(s)
        BY <3>2, NothingShownTyped DEF OnCleared, AfterCleared
      <3>3. CASE OnTranscript(s)
        <4>1. down[s] \in Seq(Answers) /\ down[s] # <<>>
          BY <3>3 DEF OnTranscript, Arrived, Typed, TypeOK
        <4>2. Head(down[s]) \in Answers
          BY <4>1, HeadTailProperties
        <4>3. Head(down[s]).samples \in Seq(Sample)
          BY <4>2 DEF Answers
        <4>4. shown[s] \o Head(down[s]).samples \in Seq(Sample)
          BY <4>3, ConcatProperties DEF Typed, ViewTypeOK
        <4>5. QED
          BY <3>3, <4>4 DEF OnTranscript, Typed, ViewTypeOK
      <3>4. QED
        BY <1>1, <3>1, <3>2, <3>3
    <2>4. QED
      BY <1>1, <2>2, <2>3 DEF OnReady, OnTranscript, OnCleared, Typed, ViewTypeOK
  <1>2. CASE OnClosed(s) \/ OnError(s)
    <2>1. screen' \in Screens /\ finalizing' \in BOOLEAN
      BY <1>2 DEF OnClosed, OnError, ScreenAfterClosed, Screens, Typed, ViewTypeOK
    <2>2. Release /\ UNCHANGED <<session, mic, asking, shown>>
      BY <1>2 DEF OnMessage, OnClosed, OnError
    <2>3. QED
      BY <2>1, <2>2, ReleaseTyped, WiredTyped DEF Typed, ViewTypeOK, Sides
  <1>3. QED
    BY <1>1, <1>2 DEF OnMessage

LEMMA OnCloseTyped ==
  ASSUME Typed, NEW s \in Sockets, OnClose(s), down' \in [Sockets -> Seq(Answers)]
  PROVE  Typed'
  <1>1. UNCHANGED <<session, up, gone, mic, asking, shown, finalizing>>
    BY DEF OnClose, ReleaseClosed
  <1>2. /\ screen' \in Screens /\ current' \in Sides /\ alarm' \in Sides /\ capture' \in Sides
        /\ ready' \in [Sockets -> Connection]
    BY DEF OnClose, ReleaseClosed, Typed, ViewTypeOK, Screens, Sides, Connection
  <1>3. QED
    BY <1>1, <1>2 DEF Typed, TypeOK, ViewTypeOK

LEMMA BrowserTyped ==
  ASSUME Typed, NEW s \in Sockets, Browser(s)
  PROVE  Typed'
  <1>1. CASE Established(s) \/ Closing(s)
    <2>1. down' \in [Sockets -> Seq(Answers)]
      BY <1>1, ConsumedTyped DEF Established, Closing, Arrived, Typed
    <2>2. ready' \in [Sockets -> Connection]
      BY <1>1 DEF Established, Closing, Typed, ViewTypeOK, Connection
    <2>3. QED
      BY <1>1, <2>1, <2>2 DEF Established, Closing, Typed, TypeOK, ViewTypeOK
  <1>2. CASE OnMessage(s)
    BY <1>2, MessageTyped
  <1>3. CASE Closed(s) \/ Failed(s)
    <2>1. down' \in [Sockets -> Seq(Answers)]
      BY <1>3, ConsumedTyped DEF Closed, Failed, Arrived, Typed, TypeOK
    <2>2. QED
      BY <1>3, <2>1, OnCloseTyped DEF Closed, Failed
  <1>4. CASE Granted(s)
    BY <1>4 DEF Granted, Typed, TypeOK, ViewTypeOK, Screens, Sides
  <1>5. CASE Denied(s)
    <2>1. CASE screen' = "error" /\ Release
      BY <1>5, <2>1, ReleaseTyped, WiredTyped DEF Denied, Typed, ViewTypeOK, Screens, Sides
    <2>2. CASE UNCHANGED <<screen, alarm, current, capture, ready, gone, up, down>>
      BY <1>5, <2>2 DEF Denied, Typed, TypeOK, ViewTypeOK
    <2>3. QED
      BY <1>5, <2>1, <2>2 DEF Denied
  <1>6. CASE \E k \in 1 .. MaxSpoken : Capture(s, k)
    <2>1. PICK k \in 1 .. MaxSpoken : Capture(s, k)
      BY <1>6
    <2>2. k \in Nat
      BY BoundsAssumption
    <2>3. TypeOK'
      BY <2>1, <2>2, SpeakTyped DEF Capture, Typed
    <2>4. QED
      BY <2>1, <2>3 DEF Capture, page, Typed, ViewTypeOK
  <1>7. QED
    BY <1>1, <1>2, <1>3, <1>4, <1>5, <1>6 DEF Browser

LEMMA TimesOutTyped ==
  ASSUME Typed, TimesOut
  PROVE  Typed'
  <1>1. CASE screen' = "error" /\ Release
    BY <1>1, ReleaseTyped, WiredTyped DEF TimesOut, Typed, ViewTypeOK, Screens, Sides
  <1>2. CASE alarm' = NoSocket /\ UNCHANGED <<screen, current, capture, ready, gone, up, down>>
    BY <1>2 DEF TimesOut, Typed, TypeOK, ViewTypeOK, Sides
  <1>3. QED
    BY <1>1, <1>2 DEF TimesOut

\* What a network failure leaves on its way.
LEMMA CutTyped ==
  ASSUME NEW S, NEW q \in Seq(S), NEW i \in 0 .. Len(q), NEW z \in S
  PROVE  SubSeq(q, 1, i) \in Seq(S) /\ Append(SubSeq(q, 1, i), z) \in Seq(S)
  <1>1. Len(q) \in Nat
    BY LenProperties
  <1>2. i \in Nat /\ i <= Len(q)
    BY <1>1
  <1>3. \A j \in 1 .. i : q[j] \in S
    BY <1>1, <1>2, ElementOfSeq
  <1>4. SubSeq(q, 1, i) \in Seq(S)
    BY <1>2, <1>3, SubSeqProperties
  <1>5. QED
    BY <1>4, AppendProperties

LEMMA NetworkFailsTyped ==
  ASSUME Typed, NEW s \in Sockets, NetworkFails(s)
  PROVE  Typed'
  <1>1. down[s] \in Seq(Answers) /\ up[s] \in Seq(Messages)
    BY DEF Typed, TypeOK
  <1>2. Answer("lost") \in Answers
    BY AnswerType
  <1>3. PICK i \in 0 .. Len(down[s]) :
          down' = [down EXCEPT ![s] = Append(SubSeq(down[s], 1, i), Answer("lost"))]
    BY DEF NetworkFails
  <1>4. down' \in [Sockets -> Seq(Answers)]
    BY <1>1, <1>2, <1>3, CutTyped DEF Typed, TypeOK
  <1>5. PICK j \in 0 .. Len(up[s]) :
          up' = [up EXCEPT ![s] = Append(SubSeq(up[s], 1, j), [type |-> "disconnect"])]
    BY DEF NetworkFails, Break
  <1>6. up' \in [Sockets -> Seq(Messages)]
    BY <1>1, <1>5, CutTyped, DisconnectIsMessage DEF Typed, TypeOK
  <1>7. gone' \subseteq Sockets
    BY DEF NetworkFails, Break, Typed, TypeOK
  <1>8. QED
    BY <1>4, <1>6, <1>7 DEF NetworkFails, page, Typed, TypeOK, ViewTypeOK

LEMMA TypedStep ==
  ASSUME Typed, [ViewNext]_viewVars
  PROVE  Typed'
  <1>1. CASE UNCHANGED viewVars
    BY <1>1 DEF viewVars, Typed, TypeOK, ViewTypeOK
  <1>2. ASSUME NEW s \in Sockets, Server(s)
        PROVE  Typed'
    <2>1. TypeOK'
      BY <1>2, ServedTyped DEF Server, Typed
    <2>2. QED
      BY <1>2, <2>1 DEF Server, page, Typed, ViewTypeOK
  <1>3. CASE ViewNext
    BY <1>2, <1>3, UserTyped, BrowserTyped, TimesOutTyped, NetworkFailsTyped DEF ViewNext
  <1>4. QED
    BY <1>1, <1>3

LEMMA AlwaysTyped == ViewSpec => []Typed
  <1>1. ViewInit => Typed
    BY InitType, NothingShownTyped
       DEF ViewInit, Typed, ViewTypeOK, Screens, Sides, Connection
  <1>2. QED
    BY <1>1, TypedStep, PTL DEF ViewSpec

\* Type invariant of the page and its sockets, with any client of the page and any server.
THEOREM ViewTypeCorrect == ViewSpec => []ViewTypeOK
  <1>1. Typed => ViewTypeOK
    BY DEF Typed
  <1>2. QED
    BY <1>1, AlwaysTyped, PTL

-----------------------------------------------------------------------------
(* What a step can do to one socket of the page and to what is shown of it. *)

Quietly(s) == Still(s) /\ shown'[s] = shown[s]

Wiping(s) == Still(s) /\ shown'[s] = <<>> /\ ready[s] # "open"

Serving(s) == ServerActs(s) /\ shown'[s] = shown[s]

\* The page says something: may it, and does it reach the connection?
MayTalk(s) == ready[s] = "open" /\ screen # "stopping"

Wasting(s) == /\ s \in gone /\ s \in gone' /\ MayTalk(s)
              /\ session'[s] = session[s] /\ up'[s] = up[s] /\ down'[s] = down[s]

Capturing(s) == MayTalk(s) /\ Speaking(s) /\ shown'[s] = shown[s]

Resetting(s) == MayTalk(s) /\ AskingClear(s) /\ shown'[s] = <<>>

Stopping(s) == /\ Listens(s) /\ Rests(s) /\ shown'[s] = shown[s]
               /\ up'[s] = Append(up[s], [type |-> "close"])
               /\ ready'[s] = "open" /\ screen' = "stopping"

\* The page takes the next answer off the wire.
Reads(s) ==
  /\ Rests(s) /\ session'[s] = session[s] /\ up'[s] = up[s]
  /\ down[s] # <<>> /\ down'[s] = Tail(down[s])
  /\ \/ Head(down[s]).type = "transcript" /\ ready[s] = "open"
        /\ shown'[s] = shown[s] \o Head(down[s]).samples
     \/ Head(down[s]).type = "cleared" /\ shown'[s] = <<>>
     \/ Head(down[s]).type \notin {"transcript", "cleared", "closed"} /\ shown'[s] = shown[s]

\* The page lets go of the socket.
LetsGo(s) == /\ s \in gone' /\ session'[s] = session[s] /\ down'[s] = <<>> /\ shown'[s] = shown[s]
             /\ up'[s] = up[s] \/ up'[s] = Append(up[s], [type |-> "disconnect"])

\* The network does.
Cutting(s) ==
  /\ s \notin gone /\ s \in gone' /\ session'[s] = session[s] /\ mic'[s] = mic[s]
  /\ shown'[s] = shown[s]
  /\ \E i \in 0 .. Len(up[s]) :
       up'[s] = Append(SubSeq(up[s], 1, i), [type |-> "disconnect"])
  /\ \E i \in 0 .. Len(down[s]) :
       down'[s] = Append(SubSeq(down[s], 1, i), Answer("lost"))

PageActs(s) == \/ Quietly(s) \/ Wiping(s) \/ Serving(s)
               \/ Wasting(s) \/ Capturing(s) \/ Resetting(s) \/ Stopping(s)
               \/ Reads(s) \/ LetsGo(s) \/ Cutting(s)

LEMMA LeftStill ==
  ASSUME UNCHANGED <<session, up, down, gone, mic>>, NEW s \in Sockets
  PROVE  Still(s)
  BY DEF Still, Rests

LEMMA ReleaseLocal ==
  ASSUME Typed, Release, UNCHANGED <<session, mic, shown>>, NEW s \in Sockets
  PROVE  PageActs(s)
  <1>0. /\ up \in [Sockets -> Seq(Messages)] /\ down \in [Sockets -> Seq(Answers)]
        /\ current \in Sides
    BY DEF Typed, TypeOK, ViewTypeOK
  <1>1. CASE current # NoSocket /\ ready[current] \in Reachable
    <2>1. current \in Sockets
      BY <1>0, <1>1 DEF Sides
    <2>2. /\ down' = [down EXCEPT ![current] = <<>>]
          /\ gone' = gone \cup {current}
          /\ up' = IF current \in gone THEN up
                   ELSE [up EXCEPT ![current] = Append(@, [type |-> "disconnect"])]
      BY <1>1 DEF Release, HangUp, Sent
    <2>3. CASE s = current
      <3>1. /\ s \in gone' /\ down'[s] = <<>> /\ session'[s] = session[s]
            /\ up'[s] = up[s] \/ up'[s] = Append(up[s], [type |-> "disconnect"])
        BY <1>0, <2>1, <2>2, <2>3
      <3>2. QED
        BY <3>1 DEF PageActs, LetsGo
    <2>4. CASE s # current
      <3>1. down'[s] = down[s] /\ up'[s] = up[s] /\ (s \in gone' <=> s \in gone)
        BY <1>0, <2>1, <2>2, <2>4
      <3>2. QED
        BY <3>1 DEF PageActs, Quietly, Still, Rests
    <2>5. QED
      BY <2>3, <2>4
  <1>2. CASE ~(current # NoSocket /\ ready[current] \in Reachable)
    BY <1>2, LeftStill DEF Release, PageActs, Quietly
  <1>3. QED
    BY <1>1, <1>2

\* The next answer of socket r is taken, and the page shows something, or stays.
LEMMA ConsumedLocal ==
  ASSUME Typed, NEW r \in Sockets, down[r] # <<>>, Consumed(r), UNCHANGED <<session, up, gone, mic>>,
         NEW s \in Sockets
  PROVE  IF s = r
         THEN Rests(s) /\ session'[s] = session[s] /\ up'[s] = up[s] /\ down'[s] = Tail(down[s])
         ELSE Still(s)
  <1>1. down \in [Sockets -> Seq(Answers)]
    BY DEF Typed, TypeOK
  <1>2. down' = [down EXCEPT ![r] = Tail(down[r])]
    BY DEF Consumed
  <1>3. QED
    BY <1>1, <1>2 DEF Still, Rests

LEMMA UserLocal ==
  ASSUME Typed, PageInv, User, NEW s \in Sockets
  PROVE  PageActs(s)
  <1>0. /\ up \in [Sockets -> Seq(Messages)] /\ mic \in [Sockets -> [take : Nat, n : Nat]]
        /\ current \in Sides /\ shown \in [Sockets -> Seq(Sample)]
    BY DEF Typed, TypeOK, ViewTypeOK
  <1>1. CASE Start
    <2>1. shown'[s] = shown[s]
      BY <1>1 DEF Start
    <2>2. CASE UNCHANGED <<session, up, down, gone, mic>>
      BY <2>1, <2>2, LeftStill DEF PageActs, Quietly
    <2>3. ASSUME NEW r \in Sockets, Ask(r), screen' = "connecting", ready[r] = "none",
                 ready' = [ready EXCEPT ![r] = "connecting"]
          PROVE  PageActs(s)
      <3>1. CASE s # r
        BY <2>1, <2>3, <3>1, ElsewhereStill DEF PageActs, Quietly, Typed
      <3>2. CASE s = r
        <4>1. ServerActs(s)
          BY <2>3, <3>2, ServerLocal DEF Typed
        <4>2. QED
          BY <2>1, <4>1 DEF PageActs, Serving
      <3>3. QED
        BY <3>1, <3>2
    <2>4. QED
      BY <1>1, <2>2, <2>3 DEF Start
  <1>2. CASE Stop
    <2>1. CASE StopOpen
      <3>1. current \in Sockets /\ ready[current] = "open"
        BY <1>0, <2>1 DEF StopOpen, Sides
      <3>2. up' = IF current \in gone THEN up
                  ELSE [up EXCEPT ![current] = Append(@, [type |-> "close"])]
        BY <2>1 DEF StopOpen, Sent
      <3>3. UNCHANGED <<session, down, gone, mic, ready, shown>> /\ screen' = "stopping"
        BY <2>1 DEF StopOpen
      <3>4. CASE s = current /\ s \notin gone
        <4>1. up'[s] = Append(up[s], [type |-> "close"])
          BY <1>0, <3>1, <3>2, <3>4
        <4>2. QED
          BY <3>1, <3>3, <3>4, <4>1 DEF PageActs, Stopping, Listens, Rests
      <3>5. CASE ~(s = current /\ s \notin gone)
        <4>1. up'[s] = up[s]
          BY <1>0, <3>1, <3>2, <3>5
        <4>2. QED
          BY <3>3, <4>1 DEF PageActs, Quietly, Still, Rests
      <3>6. QED
        BY <3>4, <3>5
    <2>2. CASE StopOther
      BY <2>2, ReleaseLocal DEF StopOther
    <2>3. QED
      BY <1>2, <2>1, <2>2 DEF Stop
  <1>3. CASE ClearPage
    <2>1. shown'[s] = <<>> /\ screen # "stopping"
      BY <1>3 DEF ClearPage, NothingShown
    <2>2. CASE current # NoSocket /\ ready[current] = "open" /\ AskToClear(current)
      <3>1. current \in Sockets
        BY <1>0, <2>2 DEF Sides
      <3>2. /\ up' = IF current \in gone THEN up
                     ELSE [up EXCEPT ![current] = Append(@, [type |-> "clear"])]
            /\ mic' = [mic EXCEPT ![current] = [take |-> mic[current].take + 1, n |-> 0]]
            /\ UNCHANGED <<session, down, gone>>
        BY <2>2 DEF AskToClear, Sent
      <3>3. CASE s # current
        <4>1. ready[s] # "open"
          BY <3>3 DEF PageInv, OnlyCurrent, Reachable
        <4>2. up'[s] = up[s] /\ mic'[s] = mic[s]
          BY <1>0, <3>1, <3>2, <3>3
        <4>3. QED
          BY <2>1, <3>2, <4>1, <4>2 DEF PageActs, Wiping, Still, Rests
      <3>4. CASE s = current /\ s \in gone
        <4>1. up'[s] = up[s]
          BY <3>2, <3>4
        <4>2. QED
          BY <2>1, <2>2, <3>2, <3>4, <4>1 DEF PageActs, Wasting, MayTalk
      <3>5. CASE s = current /\ s \notin gone
        <4>1. /\ up'[s] = Append(up[s], [type |-> "clear"])
              /\ mic'[s] = [take |-> mic[s].take + 1, n |-> 0]
          BY <1>0, <3>1, <3>2, <3>5
        <4>2. QED
          BY <2>1, <2>2, <3>2, <3>5, <4>1 DEF PageActs, Resetting, MayTalk, AskingClear, Listens
      <3>6. QED
        BY <3>3, <3>4, <3>5
    <2>3. CASE /\ ~(current # NoSocket /\ ready[current] = "open")
               /\ UNCHANGED <<session, up, down, gone, mic>>
      <3>1. ready[s] # "open"
        BY <2>3, NoSocketAssumption DEF PageInv, OnlyCurrent, Reachable
      <3>2. QED
        BY <2>1, <2>3, <3>1, LeftStill DEF PageActs, Wiping
    <2>4. QED
      BY <1>3, <2>2, <2>3 DEF ClearPage
  <1>4. CASE Leave
    BY <1>4, ReleaseLocal DEF Leave
  <1>5. CASE Open
    <2>1. ready[s] # "open"
      BY <1>5, NoSocketAssumption DEF Open, PageInv, OnlyCurrent, AtRest, Reachable
    <2>2. shown'[s] = <<>>
      BY <1>5 DEF Open, NothingShown
    <2>3. QED
      BY <1>5, <2>1, <2>2, LeftStill DEF Open, PageActs, Wiping
  <1>6. QED
    BY <1>1, <1>2, <1>3, <1>4, <1>5 DEF User

LEMMA MessageLocal ==
  ASSUME Typed, PageInv, NEW r \in Sockets, OnMessage(r), NEW s \in Sockets
  PROVE  PageActs(s)
  <1>0. ready[r] = "open" /\ current = r /\ UNCHANGED <<session, mic>>
        /\ shown \in [Sockets -> Seq(Sample)]
    BY DEF OnMessage, IsCurrent, Typed, ViewTypeOK
  <1>1. CASE OnReady(r)
    <2>1. down[r] # <<>> /\ Consumed(r) /\ UNCHANGED <<session, up, gone, mic>>
      BY <1>0, <1>1 DEF OnReady, Arrived
    <2>2. Head(down[r]).type = "ready" /\ shown'[s] = shown[s]
      BY <1>1 DEF OnReady, Arrived
    <2>3. QED
      BY <2>1, <2>2, ConsumedLocal DEF PageActs, Quietly, Reads
  <1>2. CASE OnTranscript(r)
    <2>1. down[r] # <<>> /\ Consumed(r) /\ UNCHANGED <<session, up, gone, mic>>
      BY <1>0, <1>2 DEF OnTranscript, Arrived
    <2>2. Head(down[r]).type = "transcript"
      BY <1>2 DEF OnTranscript, Arrived
    <2>3. shown'[s] = IF s = r THEN shown[s] \o Head(down[s]).samples ELSE shown[s]
      BY <1>0, <1>2 DEF OnTranscript
    <2>4. QED
      BY <1>0, <2>1, <2>2, <2>3, ConsumedLocal DEF PageActs, Quietly, Reads
  <1>3. CASE OnCleared(r)
    <2>1. down[r] # <<>> /\ Consumed(r) /\ UNCHANGED <<session, up, gone, mic>>
      BY <1>0, <1>3 DEF OnCleared, Arrived
    <2>2. Head(down[r]).type = "cleared" /\ shown'[s] = <<>>
      BY <1>3 DEF OnCleared, Arrived, AfterCleared, NothingShown
    <2>3. s # r => ready[s] # "open"
      BY <1>0 DEF PageInv, OnlyCurrent, Reachable
    <2>4. QED
      BY <2>1, <2>2, <2>3, ConsumedLocal DEF PageActs, Wiping, Reads
  <1>4. CASE OnClosed(r) \/ OnError(r)
    BY <1>0, <1>4, ReleaseLocal DEF OnClosed, OnError
  <1>5. QED
    BY <1>1, <1>2, <1>3, <1>4 DEF OnMessage

LEMMA BrowserLocal ==
  ASSUME Typed, PageInv, NEW r \in Sockets, Browser(r), NEW s \in Sockets
  PROVE  PageActs(s)
  <1>0. /\ up \in [Sockets -> Seq(Messages)] /\ mic \in [Sockets -> [take : Nat, n : Nat]]
    BY DEF Typed, TypeOK
  <1>1. ASSUME down[r] # <<>>, Head(down[r]).type \notin {"transcript", "cleared", "closed"},
               Consumed(r), UNCHANGED <<session, up, gone, mic, shown>>
        PROVE  PageActs(s)
    BY <1>1, ConsumedLocal DEF PageActs, Quietly, Reads
  <1>2. CASE UNCHANGED <<session, up, down, gone, mic, shown>>
    BY <1>2, LeftStill DEF PageActs, Quietly
  <1>3. CASE Established(r) \/ Closing(r)
    BY <1>1, <1>3 DEF Established, Closing, Arrived
  <1>4. CASE OnMessage(r)
    BY <1>4, MessageLocal
  <1>5. OnClose(r) => UNCHANGED <<session, up, gone, mic, shown>>
    BY DEF OnClose, ReleaseClosed
  <1>6. CASE Closed(r)
    BY <1>2, <1>5, <1>6 DEF Closed
  <1>7. CASE Failed(r)
    BY <1>1, <1>5, <1>7 DEF Failed, Arrived
  <1>8. CASE Granted(r)
    BY <1>2, <1>8 DEF Granted
  <1>9. CASE Denied(r)
    BY <1>2, <1>9, ReleaseLocal DEF Denied
  <1>10. CASE \E k \in 1 .. MaxSpoken : Capture(r, k)
    <2>1. PICK k \in 1 .. MaxSpoken : Capture(r, k)
      BY <1>10
    <2>2. k \in Nat
      BY BoundsAssumption
    <2>3. /\ up' = IF r \in gone THEN up
                   ELSE [up EXCEPT ![r] = Append(@, [type |-> "audio", samples |-> Speech(r, k)])]
          /\ mic' = [mic EXCEPT ![r].n = @ + k]
          /\ UNCHANGED <<session, down, gone, shown>>
      BY <2>1 DEF Capture, Speak, Sent, page
    <2>4. ready[r] = "open" /\ capture = r
      BY <2>1 DEF Capture
    <2>5. MayTalk(r)
      BY <2>4, NoSocketAssumption DEF MayTalk, PageInv, MicrophoneOnlyListening
    <2>6. CASE s # r
      <3>1. up'[s] = up[s] /\ mic'[s] = mic[s]
        BY <1>0, <2>3, <2>6
      <3>2. QED
        BY <2>3, <3>1 DEF PageActs, Quietly, Still, Rests
    <2>7. CASE s = r /\ s \in gone
      BY <2>3, <2>5, <2>7 DEF PageActs, Wasting
    <2>8. CASE s = r /\ s \notin gone
      <3>1. up'[s] = Append(up[s], [type |-> "audio", samples |-> Speech(s, k)])
        BY <1>0, <2>3, <2>8
      <3>2. mic'[s] = [take |-> mic[s].take, n |-> mic[s].n + k]
        BY <1>0, <2>3, <2>8
      <3>3. Speaking(s)
        BY <2>2, <2>3, <2>8, <3>1, <3>2 DEF Speaking, Listens
      <3>4. QED
        BY <2>3, <2>5, <2>8, <3>3 DEF PageActs, Capturing
    <2>9. QED
      BY <2>6, <2>7, <2>8
  <1>11. QED
    BY <1>3, <1>4, <1>6, <1>7, <1>8, <1>9, <1>10 DEF Browser

LEMMA NetworkFailsLocal ==
  ASSUME Typed, NEW r \in Sockets, NetworkFails(r), NEW s \in Sockets
  PROVE  PageActs(s)
  <1>0. up \in [Sockets -> Seq(Messages)] /\ down \in [Sockets -> Seq(Answers)]
    BY DEF Typed, TypeOK
  <1>1. r \notin gone /\ gone' = gone \cup {r} /\ UNCHANGED <<session, mic, shown>>
    BY DEF NetworkFails, Break, page
  <1>2. PICK i \in 0 .. Len(up[r]) :
          up' = [up EXCEPT ![r] = Append(SubSeq(up[r], 1, i), [type |-> "disconnect"])]
    BY DEF NetworkFails, Break
  <1>3. PICK j \in 0 .. Len(down[r]) :
          down' = [down EXCEPT ![r] = Append(SubSeq(down[r], 1, j), Answer("lost"))]
    BY DEF NetworkFails
  <1>4. CASE s = r
    <2>1. /\ up'[s] = Append(SubSeq(up[s], 1, i), [type |-> "disconnect"])
          /\ down'[s] = Append(SubSeq(down[s], 1, j), Answer("lost"))
      BY <1>0, <1>2, <1>3, <1>4
    <2>2. QED
      BY <1>1, <1>4, <2>1 DEF PageActs, Cutting
  <1>5. CASE s # r
    <2>1. up'[s] = up[s] /\ down'[s] = down[s]
      BY <1>0, <1>2, <1>3, <1>5
    <2>2. QED
      BY <1>1, <1>5, <2>1 DEF PageActs, Quietly, Still, Rests
  <1>6. QED
    BY <1>4, <1>5

\* What any step does to a socket.
LEMMA OneOfThese ==
  ASSUME Typed, PageInv, [ViewNext]_viewVars, NEW s \in Sockets
  PROVE  PageActs(s)
  <1>1. CASE UNCHANGED viewVars
    BY <1>1, LeftStill DEF viewVars, PageActs, Quietly
  <1>2. CASE User
    BY <1>2, UserLocal
  <1>3. CASE TimesOut
    BY <1>3, ReleaseLocal, LeftStill DEF TimesOut, PageActs, Quietly
  <1>4. ASSUME NEW r \in Sockets, Server(r)
        PROVE  PageActs(s)
    <2>1. shown'[s] = shown[s] /\ (Serve(r) \/ ServerCloses(r))
      BY <1>4 DEF Server, page
    <2>2. CASE s = r
      BY <2>1, <2>2, ServerLocal DEF Typed, PageActs, Serving
    <2>3. CASE s # r
      BY <2>1, <2>3, ElsewhereStill DEF Typed, PageActs, Quietly
    <2>4. QED
      BY <2>2, <2>3
  <1>5. CASE ViewNext
    BY <1>2, <1>3, <1>4, <1>5, BrowserLocal, NetworkFailsLocal DEF ViewNext
  <1>6. QED
    BY <1>1, <1>5

-----------------------------------------------------------------------------
\* The page while a session is being stopped.

StoppingFinal == screen = "stopping" => finalizing

Early == {"none", "connecting"}
Over  == {"closing", "closed"}

ReadyOnward(s) == /\ ready[s] \in Over => ready'[s] \in Over
                  /\ ready'[s] \in Early => ready[s] \in Early
                  /\ ready[s] = "open" /\ screen = "stopping" =>
                       ready'[s] \in Over \/ (ready'[s] = "open" /\ screen' = "stopping")

LEMMA ReleaseOnward ==
  ASSUME Typed, PageInv, Release, NEW s \in Sockets
  PROVE  ReadyOnward(s)
  <1>1. ready \in [Sockets -> Connection] /\ (ready[s] = "open" => current = s)
    BY DEF Typed, ViewTypeOK, PageInv, OnlyCurrent, Reachable
  <1>2. CASE current # NoSocket /\ ready[current] \in Reachable
    <2>1. ready' = [ready EXCEPT ![current] = "closing"]
      BY <1>2 DEF Release
    <2>2. CASE s = current
      <3>1. ready'[s] = "closing"
        BY <1>1, <2>1, <2>2
      <3>2. QED
        BY <3>1, <1>2, <2>2 DEF ReadyOnward, Over, Early
    <2>3. CASE s # current
      <3>1. ready'[s] = ready[s] /\ ready[s] # "open"
        BY <1>1, <2>1, <2>3
      <3>2. QED
        BY <3>1 DEF ReadyOnward, Over, Early
    <2>4. QED
      BY <2>2, <2>3
  <1>3. CASE ~(current # NoSocket /\ ready[current] \in Reachable)
    <2>1. ready' = ready
      BY <1>3 DEF Release
    <2>2. ready[s] # "open"
      BY <1>1, <1>3, NoSocketAssumption DEF Reachable
    <2>3. QED
      BY <2>1, <2>2 DEF ReadyOnward
  <1>4. QED
    BY <1>2, <1>3

LEMMA SameOnward ==
  ASSUME UNCHANGED <<ready, screen>>, NEW s \in Sockets
  PROVE  ReadyOnward(s)
  BY DEF ReadyOnward

LEMMA StoppingFinalStep ==
  ASSUME StoppingFinal, [ViewNext]_viewVars
  PROVE  StoppingFinal'
  <1>1. CASE UNCHANGED <<screen, finalizing>>
    BY <1>1 DEF StoppingFinal
  <1>2. CASE User
    BY <1>2 DEF User, Start, Stop, StopOpen, StopOther, ClearPage, Leave, Open, StoppingFinal
  <1>3. CASE TimesOut
    BY <1>3 DEF TimesOut, StoppingFinal
  <1>4. ASSUME NEW s \in Sockets, OnClose(s)
        PROVE  StoppingFinal'
    BY <1>4 DEF OnClose, StoppingFinal
  <1>5. ASSUME NEW s \in Sockets, Browser(s)
        PROVE  StoppingFinal'
    <2>1. CASE Established(s) \/ Closing(s) \/ Granted(s) \/ Denied(s)
      BY <2>1 DEF Established, Closing, Granted, Denied, StoppingFinal
    <2>2. CASE OnMessage(s)
      <3>1. CASE OnReady(s) \/ OnTranscript(s) \/ OnCleared(s)
        BY <1>1, <3>1 DEF OnReady, OnTranscript, OnCleared
      <3>2. CASE OnClosed(s) \/ OnError(s)
        BY <3>2 DEF OnClosed, OnError, ScreenAfterClosed, StoppingFinal
      <3>3. QED
        BY <2>2, <3>1, <3>2 DEF OnMessage
    <2>3. CASE Closed(s) \/ Failed(s)
      BY <1>4, <2>3 DEF Closed, Failed
    <2>4. CASE \E k \in 1 .. MaxSpoken : Capture(s, k)
      BY <1>1, <2>4 DEF Capture, page
    <2>5. QED
      BY <1>5, <2>1, <2>2, <2>3, <2>4 DEF Browser
  <1>6. ASSUME NEW s \in Sockets, Server(s) \/ NetworkFails(s)
        PROVE  StoppingFinal'
    BY <1>1, <1>6 DEF Server, NetworkFails, page
  <1>7. CASE UNCHANGED viewVars
    BY <1>1, <1>7 DEF viewVars
  <1>8. QED
    BY <1>2, <1>3, <1>5, <1>6, <1>7 DEF ViewNext

LEMMA StepOnward ==
  ASSUME Typed, PageInv, StoppingFinal, [ViewNext]_viewVars, NEW s \in Sockets
  PROVE  ReadyOnward(s)
  <1>0. ready \in [Sockets -> Connection] /\ (ready[s] = "open" => current = s)
    BY DEF Typed, ViewTypeOK, PageInv, OnlyCurrent, Reachable
  <1>1. CASE UNCHANGED <<ready, screen, finalizing>>
    BY <1>1, SameOnward
  <1>2. CASE User
    <2>1. CASE Start
      <3>1. screen # "stopping" /\ screen' # "stopping"
        BY <2>1 DEF Start
      <3>2. \/ ready' = ready
            \/ \E r \in Sockets : ready[r] = "none" /\ ready' = [ready EXCEPT ![r] = "connecting"]
        BY <2>1 DEF Start
      <3>3. QED
        BY <1>0, <3>1, <3>2 DEF ReadyOnward, Over, Early
    <2>2. CASE Stop
      <3>1. CASE StopOpen
        BY <3>1 DEF StopOpen, ReadyOnward, Over
      <3>2. CASE StopOther
        BY <3>2, ReleaseOnward DEF StopOther
      <3>3. QED
        BY <2>2, <3>1, <3>2 DEF Stop
    <2>3. CASE ClearPage
      BY <1>1, <2>3 DEF ClearPage
    <2>4. CASE Leave
      BY <2>4, ReleaseOnward DEF Leave
    <2>5. CASE Open
      BY <2>5 DEF Open, ReadyOnward
    <2>6. QED
      BY <1>2, <2>1, <2>2, <2>3, <2>4, <2>5 DEF User
  <1>3. ASSUME NEW r \in Sockets, OnClose(r), ready[r] \in {"connecting", "open", "closing"}
        PROVE  ReadyOnward(s)
    <2>1. ready' = [ready EXCEPT ![r] = "closed"] /\ finalizing' = finalizing
      BY <1>3 DEF OnClose, ReleaseClosed
    <2>2. screen' = "error" \/ (screen' = screen /\ current # r)
      BY <1>3 DEF OnClose, IsCurrent
    <2>4. CASE s = r
      <3>1. ready'[s] = "closed"
        BY <1>0, <2>1, <2>4
      <3>2. QED
        BY <3>1 DEF ReadyOnward, Over, Early
    <2>5. CASE s # r
      <3>1. ready'[s] = ready[s]
        BY <1>0, <2>1, <2>5
      <3>2. ready[s] = "open" => screen' = screen
        BY <1>0, <1>3, <2>5 DEF OnClose, IsCurrent
      <3>3. QED
        BY <3>1, <3>2 DEF ReadyOnward
    <2>6. QED
      BY <2>4, <2>5
  <1>4. ASSUME NEW r \in Sockets, Browser(r)
        PROVE  ReadyOnward(s)
    <2>1. CASE Established(r) \/ Closing(r)
      <3>1. /\ screen' = screen /\ finalizing' = finalizing
            /\ \/ ready[r] = "connecting" /\ ready' = [ready EXCEPT ![r] = "open"]
               \/ ready[r] = "open" /\ ready' = [ready EXCEPT ![r] = "closing"]
        BY <2>1 DEF Established, Closing
      <3>2. QED
        BY <1>0, <3>1 DEF ReadyOnward, Over, Early
    <2>2. CASE OnMessage(r)
      <3>1. CASE OnReady(r) \/ OnTranscript(r) \/ OnCleared(r)
        BY <1>1, <3>1 DEF OnReady, OnTranscript, OnCleared
      <3>2. CASE OnClosed(r) \/ OnError(r)
        BY <3>2, ReleaseOnward DEF OnClosed, OnError, ScreenAfterClosed
      <3>3. QED
        BY <2>2, <3>1, <3>2 DEF OnMessage
    <2>3. CASE Closed(r) \/ Failed(r)
      BY <1>3, <2>3 DEF Closed, Failed, Reachable
    <2>4. CASE Granted(r)
      <3>1. CASE ~finalizing /\ screen' = "listening" /\ UNCHANGED <<ready, finalizing>>
        BY <3>1 DEF ReadyOnward, StoppingFinal
      <3>2. QED
        BY <1>1, <2>4, <3>1 DEF Granted, StillWanted
    <2>5. CASE Denied(r)
      <3>1. CASE screen' = "error" /\ Release
        BY <3>1, ReleaseOnward
      <3>2. QED
        BY <1>1, <2>5, <3>1 DEF Denied
    <2>6. CASE \E k \in 1 .. MaxSpoken : Capture(r, k)
      BY <1>1, <2>6 DEF Capture, page
    <2>7. QED
      BY <1>4, <2>1, <2>2, <2>3, <2>4, <2>5, <2>6 DEF Browser
  <1>5. CASE TimesOut
    <2>1. CASE screen' = "error" /\ Release
      BY <2>1, ReleaseOnward
    <2>2. CASE UNCHANGED <<screen, ready>>
      BY <1>1, <1>5, <2>2 DEF TimesOut
    <2>3. QED
      BY <1>5, <2>1, <2>2 DEF TimesOut
  <1>6. ASSUME NEW r \in Sockets, Server(r) \/ NetworkFails(r)
        PROVE  ReadyOnward(s)
    BY <1>1, <1>6 DEF Server, NetworkFails, page
  <1>7. CASE ViewNext
    BY <1>2, <1>4, <1>5, <1>6, <1>7 DEF ViewNext
  <1>8. CASE UNCHANGED viewVars
    BY <1>1, <1>8 DEF viewVars
  <1>9. QED
    BY <1>7, <1>8

\* Before a socket is open nothing of it is shown.
Unheard(s) == ready[s] \in Early => shown[s] = <<>>

LEMMA UnheardStep ==
  ASSUME NEW s \in Sockets, Unheard(s), PageActs(s), ReadyOnward(s)
  PROVE  Unheard(s)'
  BY DEF Unheard, PageActs, ReadyOnward, Early, Quietly, Wiping, Serving, Wasting, Capturing,
         Resetting, Stopping, Reads, LetsGo, Cutting, MayTalk

-----------------------------------------------------------------------------
(* The end of a session.  The page says nothing more once it has asked to  *)
(* close, and nothing but the close frame follows "closed".                *)

Has(q, t) == \E i \in 1 .. Len(q) : q[i].type = t
Speaks(q) == \E i \in 1 .. Len(q) : q[i].type \in {"audio", "clear"}

\* Nothing is said after "close".
Orderly(q) == \A i, j \in 1 .. Len(q) : i < j /\ q[i].type = "close" => q[j].type \notin {"audio", "clear"}

LastWords(s) == \A i \in 1 .. Len(down[s]) : down[s][i].type = "closed" =>
  /\ session[s].state = "ended"
  /\ \A j \in i + 1 .. Len(down[s]) : down[s][j].type \in {"bye", "lost"}

\* Only transcripts carry audio.
Worded(s) == \A i \in 1 .. Len(down[s]) : down[s][i].type # "transcript" => down[s][i].samples = <<>>

\* The session is being closed, or is.
Told(s) == Has(up[s], "close") \/ session[s].reply = "closed" \/ Has(down[s], "closed")

Ordered(s) ==
  /\ Orderly(up[s])
  /\ session[s].reply = "closed" \/ Has(down[s], "closed") => ~Speaks(up[s])
  /\ Told(s) => ready[s] \in Over \/ (ready[s] = "open" /\ screen = "stopping")

Story(s) == Quiet(s) /\ LastWords(s) /\ Worded(s) /\ Ordered(s)

LEMMA OrderlyAppend ==
  ASSUME NEW q \in Seq(Messages), NEW m \in Messages, Orderly(q)
  PROVE  /\ m.type \notin {"audio", "clear"} \/ ~Has(q, "close") => Orderly(Append(q, m))
         /\ m.type \notin {"audio", "clear"} /\ ~Speaks(q) => ~Speaks(Append(q, m))
         /\ Has(Append(q, m), "close") => Has(q, "close") \/ m.type = "close"
  <1>1. /\ Len(Append(q, m)) = Len(q) + 1 /\ Len(q) \in Nat
        /\ \A i \in 1 .. Len(q) : Append(q, m)[i] = q[i]
        /\ Append(q, m)[Len(q) + 1] = m
    OBVIOUS
  <1>2. PICK n \in Nat : n = Len(q)
    BY <1>1
  <1>3. PICK r : r = Append(q, m)
    OBVIOUS
  <1>4. /\ Len(r) = n + 1 /\ r[n + 1] = m
        /\ \A i \in 1 .. n : r[i] = q[i]
    BY <1>1, <1>2, <1>3
  <1>5. \A i \in 1 .. n + 1 : i \in 1 .. n \/ i = n + 1
    BY <1>2
  <1>6. m.type \notin {"audio", "clear"} \/ ~Has(q, "close") => Orderly(r)
    <2>1. SUFFICES ASSUME m.type \notin {"audio", "clear"} \/ ~Has(q, "close"),
                          NEW i \in 1 .. n + 1, NEW j \in 1 .. n + 1, i < j, r[i].type = "close"
                   PROVE  r[j].type \notin {"audio", "clear"}
      BY <1>4 DEF Orderly
    <2>2. i \in 1 .. n
      BY <2>1, <1>2
    <2>3. q[i].type = "close" /\ Has(q, "close")
      BY <2>1, <2>2, <1>2, <1>4 DEF Has
    <2>4. CASE j \in 1 .. n
      BY <2>1, <2>2, <2>3, <2>4, <1>2, <1>4 DEF Orderly
    <2>5. CASE j = n + 1
      BY <2>1, <2>3, <2>5, <1>4
    <2>6. QED
      BY <2>4, <2>5, <1>5
  <1>7. m.type \notin {"audio", "clear"} /\ ~Speaks(q) => ~Speaks(r)
    BY <1>2, <1>4, <1>5 DEF Speaks
  <1>8. Has(r, "close") => Has(q, "close") \/ m.type = "close"
    BY <1>2, <1>4, <1>5 DEF Has
  <1>9. QED
    BY <1>3, <1>6, <1>7, <1>8

LEMMA OrderlyTail ==
  ASSUME NEW q \in Seq(Messages), q # <<>>, Orderly(q)
  PROVE  /\ Orderly(Tail(q))
         /\ Head(q).type = "close" => ~Speaks(Tail(q))
         /\ ~Speaks(q) => ~Speaks(Tail(q))
         /\ Has(Tail(q), "close") => Has(q, "close")
         /\ Head(q).type = "close" => Has(q, "close")
  <1>1. PICK n \in Nat : n = Len(q) /\ n > 0
    OBVIOUS
  <1>2. PICK r : r = Tail(q)
    OBVIOUS
  <1>3. /\ Len(r) = n - 1 /\ n - 1 \in Nat
        /\ \A i \in 1 .. n - 1 : r[i] = q[i + 1] /\ i + 1 \in 1 .. n
        /\ Head(q) = q[1] /\ 1 \in 1 .. n
    BY <1>1, <1>2
  <1>4. Orderly(r)
    BY <1>1, <1>3 DEF Orderly
  <1>5. Head(q).type = "close" => ~Speaks(r)
    BY <1>1, <1>3 DEF Orderly, Speaks
  <1>6. ~Speaks(q) => ~Speaks(r)
    BY <1>1, <1>3 DEF Speaks
  <1>7. (Has(r, "close") => Has(q, "close")) /\ (Head(q).type = "close" => Has(q, "close"))
    BY <1>1, <1>3 DEF Has
  <1>8. QED
    BY <1>2, <1>4, <1>5, <1>6, <1>7

LEMMA OrderlyCut ==
  ASSUME NEW q \in Seq(Messages), Orderly(q), NEW i \in 0 .. Len(q)
  PROVE  /\ SubSeq(q, 1, i) \in Seq(Messages)
         /\ Orderly(SubSeq(q, 1, i))
         /\ ~Speaks(q) => ~Speaks(SubSeq(q, 1, i))
         /\ Has(SubSeq(q, 1, i), "close") => Has(q, "close")
  <1>1. PICK r : r = SubSeq(q, 1, i)
    OBVIOUS
  <1>2. PICK n \in Nat : n = Len(q)
    OBVIOUS
  <1>3. /\ r \in Seq(Messages) /\ Len(r) = i /\ i \in Nat /\ i <= n
        /\ \A j \in 1 .. i : r[j] = q[j] /\ j \in 1 .. n
    BY <1>1, <1>2
  <1>4. Orderly(r)
    BY <1>2, <1>3 DEF Orderly
  <1>5. ~Speaks(q) => ~Speaks(r)
    BY <1>2, <1>3 DEF Speaks
  <1>6. Has(r, "close") => Has(q, "close")
    BY <1>2, <1>3 DEF Has
  <1>7. QED
    BY <1>1, <1>3, <1>4, <1>5, <1>6

\* What the server says keeps the order while nothing was closed.
LEMMA SaysOn ==
  ASSUME Typed, NEW s \in Sockets, session[s].state # "ended", LastWords(s), Worded(s), Mutters(s)
  PROVE  LastWords(s)' /\ Worded(s)' /\ ~Has(down'[s], "closed")
  <1>1. down[s] \in Seq(Answers)
    BY SocketTypes DEF Typed
  <1>2. PICK q \in Seq(Answers) : Mute(q) /\ down'[s] = down[s] \o q
    BY DEF Mutters
  <1>3. PICK n \in Nat : n = Len(down[s])
    BY <1>1
  <1>4. PICK k \in Nat : k = Len(q)
    OBVIOUS
  <1>5. PICK d : d = down'[s]
    OBVIOUS
  <1>6. /\ Len(d) = n + k
        /\ \A i \in 1 .. n : d[i] = down[s][i]
        /\ \A i \in n + 1 .. n + k : d[i] = q[i - n] /\ i - n \in 1 .. k
    BY <1>1, <1>2, <1>3, <1>4, <1>5
  <1>7. \A i \in 1 .. n : d[i].type # "closed" /\ (d[i].type # "transcript" => d[i].samples = <<>>)
    BY <1>3, <1>6 DEF LastWords, Worded
  <1>8. \A i \in n + 1 .. n + k : d[i].type # "closed" /\ d[i].samples = <<>>
    BY <1>2, <1>4, <1>6 DEF Mute
  <1>9. \A i \in 1 .. n + k : i \in 1 .. n \/ i \in n + 1 .. n + k
    BY <1>3, <1>4
  <1>10. \A i \in 1 .. Len(d) : d[i].type # "closed" /\ (d[i].type # "transcript" => d[i].samples = <<>>)
    BY <1>6, <1>7, <1>8, <1>9
  <1>11. QED
    BY <1>5, <1>10 DEF LastWords, Worded, Has

\* One answer more.
LEMMA SaysOne ==
  ASSUME NEW d \in Seq(Answers), NEW a \in Answers
  PROVE  /\ Len(Append(d, a)) = Len(d) + 1 /\ Len(d) \in Nat
         /\ Append(d, a)[Len(d) + 1] = a
         /\ \A i \in 1 .. Len(d) : Append(d, a)[i] = d[i]
         /\ \A i \in 1 .. Len(Append(d, a)) : i \in 1 .. Len(d) \/ i = Len(d) + 1
  OBVIOUS

LEMMA SaysAnother ==
  ASSUME Typed, NEW s \in Sockets, session[s].state # "ended", LastWords(s), Worded(s),
         NEW a \in Answers, a.type # "closed", a.type # "transcript" => a.samples = <<>>,
         down'[s] = down[s] \/ down'[s] = Append(down[s], a)
  PROVE  LastWords(s)' /\ Worded(s)' /\ ~Has(down'[s], "closed")
  <1>1. down[s] \in Seq(Answers)
    BY SocketTypes DEF Typed
  <1>2. \A i \in 1 .. Len(down[s]) :
          /\ down[s][i].type # "closed"
          /\ down[s][i].type # "transcript" => down[s][i].samples = <<>>
    BY DEF LastWords, Worded
  <1>3. PICK d : d = down'[s]
    OBVIOUS
  <1>4. \A i \in 1 .. Len(d) : d[i].type # "closed" /\ (d[i].type # "transcript" => d[i].samples = <<>>)
    <2>1. CASE d = down[s]
      BY <1>2, <2>1
    <2>2. CASE d = Append(down[s], a)
      BY <1>1, <1>2, <2>2, SaysOne
    <2>3. QED
      BY <1>3, <2>1, <2>2
  <1>5. QED
    BY <1>3, <1>4 DEF LastWords, Worded, Has

LEMMA SaysClosed ==
  ASSUME Typed, NEW s \in Sockets, session[s].state # "ended", session'[s].state = "ended",
         LastWords(s), Worded(s),
         down'[s] = Append(Append(down[s], Answer("closed")), Answer("bye"))
  PROVE  LastWords(s)' /\ Worded(s)'
  <1>1. down[s] \in Seq(Answers) /\ Answer("closed") \in Answers /\ Answer("bye") \in Answers
    BY SocketTypes, AnswerType DEF Typed, Spoken
  <1>2. \A i \in 1 .. Len(down[s]) :
          /\ down[s][i].type # "closed"
          /\ down[s][i].type # "transcript" => down[s][i].samples = <<>>
    BY DEF LastWords, Worded
  <1>3. /\ Answer("closed").type = "closed" /\ Answer("bye").type = "bye"
        /\ Answer("closed").samples = <<>> /\ Answer("bye").samples = <<>>
    BY DEF Answer
  <1>4. PICK b : b = Append(down[s], Answer("closed"))
    OBVIOUS
  <1>5. PICK d : d = Append(b, Answer("bye"))
    OBVIOUS
  <1>6. PICK n \in Nat : n = Len(down[s])
    BY <1>1
  <1>7. /\ b \in Seq(Answers) /\ Len(b) = n + 1 /\ b[n + 1] = Answer("closed")
        /\ \A i \in 1 .. n : b[i] = down[s][i]
    BY <1>1, <1>4, <1>6
  <1>8. /\ Len(d) = n + 2 /\ d[n + 2] = Answer("bye") /\ d[n + 1] = Answer("closed")
        /\ \A i \in 1 .. n : d[i] = down[s][i]
    BY <1>1, <1>5, <1>6, <1>7
  <1>9. \A i \in 1 .. n + 2 : i \in 1 .. n \/ i = n + 1 \/ i = n + 2
    BY <1>6
  <1>10. \A i \in 1 .. Len(d) : d[i].type # "transcript" => d[i].samples = <<>>
    BY <1>2, <1>3, <1>6, <1>8, <1>9
  <1>11. \A i \in 1 .. Len(d) : d[i].type = "closed" => i = n + 1
    BY <1>2, <1>3, <1>6, <1>8, <1>9
  <1>12. \A j \in n + 2 .. Len(d) : d[j].type = "bye"
    BY <1>3, <1>6, <1>8
  <1>13. d = down'[s]
    BY <1>4, <1>5
  <1>14. QED
    BY <1>6, <1>10, <1>11, <1>12, <1>13 DEF LastWords, Worded

LEMMA QuietStep ==
  ASSUME Typed, NEW s \in Sockets, Quiet(s), session'[s] = session[s] \/ ServerActs(s)
  PROVE  Quiet(s)'
  <1>1. CASE session'[s] = session[s]
    BY <1>1 DEF Quiet
  <1>2. CASE Ending(s)
    BY <1>2 DEF Ending, Quiet
  <1>3. CASE Minding(s)
    BY <1>3 DEF Minding, Quiet
  <1>4. CASE Hearing(s) \/ Clearing(s)
    BY <1>4 DEF Hearing, Clearing, Quiet
  <1>5. CASE Transcribing(s)
    BY <1>5 DEF Transcribing, Quiet
  <1>6. CASE Finishing(s)
    BY <1>6 DEF Finishing, Quiet
  <1>7. QED
    BY <1>1, <1>2, <1>3, <1>4, <1>5, <1>6 DEF ServerActs

\* What the server takes keeps the order.
LEMMA TakesOn ==
  ASSUME Typed, NEW s \in Sockets, NEW types, up'[s] = up[s] \/ Drops(s, types), Orderly(up[s])
  PROVE  /\ Orderly(up'[s])
         /\ ~Speaks(up[s]) => ~Speaks(up'[s])
         /\ Has(up'[s], "close") => Has(up[s], "close")
  BY SocketTypes, OrderlyTail DEF Drops, Typed

LEMMA StoryServing ==
  ASSUME Typed, NEW s \in Sockets, ServerActs(s), ReadyOnward(s), Story(s)
  PROVE  Story(s)'
  <1>0. up[s] \in Seq(Messages) /\ down[s] \in Seq(Answers)
    BY SocketTypes DEF Typed
  <1>1. Quiet(s)'
    BY QuietStep DEF Story
  <1>2. Told(s) => ready'[s] \in Over \/ (ready'[s] = "open" /\ screen' = "stopping")
    BY DEF Story, Ordered, ReadyOnward
  <1>3. Orderly(up[s]) /\ (session[s].reply = "closed" => ~Speaks(up[s])) /\ LastWords(s) /\ Worded(s)
    BY DEF Story, Ordered
  <1>4. CASE Ending(s)
    <2>1. LastWords(s)' /\ Worded(s)' /\ ~Has(down'[s], "closed")
      BY <1>3, <1>4, SaysOn DEF Ending
    <2>2. session'[s].reply = "none"
      BY <1>4 DEF Ending
    <2>3. Orderly(up'[s]) /\ (Has(up'[s], "close") => Has(up[s], "close"))
      BY <1>3, <1>4, TakesOn DEF Ending
    <2>4. QED
      BY <1>1, <1>2, <2>1, <2>2, <2>3 DEF Story, Ordered, Told
  <1>5. CASE Minding(s)
    <2>1. LastWords(s)' /\ Worded(s)' /\ ~Has(down'[s], "closed")
      BY <1>3, <1>5, SaysOn DEF Minding
    <2>2. /\ Orderly(up'[s]) /\ (Has(up'[s], "close") => Has(up[s], "close"))
          /\ ~Speaks(up[s]) => ~Speaks(up'[s])
      BY <1>3, <1>5, TakesOn DEF Minding
    <2>3. session'[s].reply = "closed" => ~Speaks(up'[s]) /\ Told(s)
      <3>1. CASE Drops(s, {"close"})
        BY <1>0, <1>3, <3>1, OrderlyTail DEF Drops, Told
      <3>2. CASE session[s].reply = "closed"
        BY <1>3, <2>2, <3>2 DEF Told
      <3>3. QED
        BY <1>5, <3>1, <3>2 DEF Minding
    <2>4. QED
      BY <1>1, <1>2, <2>1, <2>2, <2>3 DEF Story, Ordered, Told
  <1>6. CASE Hearing(s) \/ Clearing(s) \/ Transcribing(s)
    <2>1. PICK a \in Answers : /\ down'[s] = down[s] \/ down'[s] = Append(down[s], a)
                               /\ a.type # "closed" /\ (a.type # "transcript" => a.samples = <<>>)
      <3>1. Answer("cleared") \in Answers /\ Answer("cleared").type = "cleared"
            /\ Answer("cleared").samples = <<>>
        BY AnswerType DEF Answer, Spoken
      <3>2. QED
        BY <1>6, <3>1 DEF Hearing, Clearing, Transcribing
    <2>2. session[s].state # "ended"
      BY <1>6 DEF Hearing, Clearing, Transcribing
    <2>3. LastWords(s)' /\ Worded(s)' /\ ~Has(down'[s], "closed")
      BY <1>3, <2>1, <2>2, SaysAnother
    <2>4. session'[s].reply = "none" \/ session'[s].reply = session[s].reply
      BY <1>6 DEF Hearing, Clearing, Transcribing
    <2>5. /\ Orderly(up'[s]) /\ (Has(up'[s], "close") => Has(up[s], "close"))
          /\ ~Speaks(up[s]) => ~Speaks(up'[s])
      BY <1>3, <1>6, TakesOn DEF Hearing, Clearing, Transcribing
    <2>6. QED
      BY <1>1, <1>2, <1>3, <2>3, <2>4, <2>5 DEF Story, Ordered, Told
  <1>7. CASE Finishing(s)
    <2>1. /\ up'[s] = up[s] /\ session[s].reply = "closed" /\ session'[s].reply = "none"
          /\ session[s].state # "ended" /\ session'[s].state = "ended"
      BY <1>7 DEF Finishing
    <2>2. LastWords(s)' /\ Worded(s)'
      <3>1. CASE s \in gone
        BY <1>3, <1>7, <2>1, <3>1 DEF Finishing, LastWords, Worded
      <3>2. CASE s \notin gone
        BY <1>3, <1>7, <2>1, <3>2, SaysClosed DEF Finishing
      <3>3. QED
        BY <3>1, <3>2
    <2>3. Told(s) /\ ~Speaks(up'[s])
      BY <1>3, <2>1 DEF Told
    <2>4. QED
      BY <1>1, <1>2, <1>3, <2>1, <2>2, <2>3 DEF Story, Ordered
  <1>8. QED
    BY <1>4, <1>5, <1>6, <1>7 DEF ServerActs

LEMMA StoryStep ==
  ASSUME Typed, NEW s \in Sockets, PageActs(s), ReadyOnward(s), Story(s)
  PROVE  Story(s)'
  <1>0. up[s] \in Seq(Messages) /\ down[s] \in Seq(Answers)
    BY SocketTypes DEF Typed
  <1>2. Told(s) => ready'[s] \in Over \/ (ready'[s] = "open" /\ screen' = "stopping")
    BY DEF Story, Ordered, ReadyOnward
  <1>3. /\ Orderly(up[s]) /\ (session[s].reply = "closed" \/ Has(down[s], "closed") => ~Speaks(up[s]))
        /\ LastWords(s) /\ Worded(s) /\ Quiet(s)
    BY DEF Story, Ordered
  <1>4. CASE Quietly(s) \/ Wiping(s) \/ Wasting(s)
    BY <1>2, <1>3, <1>4 DEF Quietly, Wiping, Wasting, Still, Story, Ordered, Told, LastWords, Worded, Quiet
  <1>5. CASE Serving(s)
    BY <1>5, StoryServing DEF Serving
  <1>6. CASE Capturing(s) \/ Resetting(s)
    <2>1. ~Told(s)
      BY <1>6 DEF Capturing, Resetting, MayTalk, Story, Ordered, Over
    <2>2. session'[s] = session[s] /\ down'[s] = down[s]
      BY <1>6 DEF Capturing, Resetting, Speaking, AskingClear, Listens
    <2>3. PICK m \in Messages : up'[s] = Append(up[s], m) /\ m.type # "close"
      <3>1. CASE Capturing(s)
        <4>1. PICK k \in Nat : up'[s] = Append(up[s], [type |-> "audio", samples |-> Speech(s, k)])
          BY <3>1 DEF Capturing, Speaking
        <4>2. Speech(s, k) \in Seq(Sample)
          BY SpeechFacts DEF Typed
        <4>3. [type |-> "audio", samples |-> Speech(s, k)] \in Messages
          BY <4>2 DEF Messages
        <4>4. QED
          BY <4>1, <4>3
      <3>2. CASE Resetting(s)
        <4>1. [type |-> "clear"] \in Messages
          BY DEF Messages, Plain
        <4>2. QED
          BY <3>2, <4>1 DEF Resetting, AskingClear
      <3>3. QED
        BY <1>6, <3>1, <3>2
    <2>4. Orderly(up'[s]) /\ ~Has(up'[s], "close")
      BY <1>0, <1>3, <2>1, <2>3, OrderlyAppend DEF Told
    <2>5. QED
      BY <1>3, <2>1, <2>2, <2>4 DEF Story, Ordered, Told, LastWords, Worded, Quiet
  <1>7. CASE Stopping(s)
    <2>1. [type |-> "close"] \in Messages
      BY DEF Messages, Plain
    <2>2. /\ session'[s] = session[s] /\ down'[s] = down[s]
          /\ up'[s] = Append(up[s], [type |-> "close"])
          /\ ready'[s] = "open" /\ screen' = "stopping"
      BY <1>7 DEF Stopping, Listens
    <2>3. Orderly(up'[s]) /\ (~Speaks(up[s]) => ~Speaks(up'[s]))
      BY <1>0, <1>3, <2>1, <2>2, OrderlyAppend
    <2>4. QED
      BY <1>3, <2>2, <2>3 DEF Story, Ordered, LastWords, Worded, Quiet
  <1>8. CASE Reads(s)
    <2>1. session'[s] = session[s] /\ up'[s] = up[s] /\ down[s] # <<>> /\ down'[s] = Tail(down[s])
      BY <1>8 DEF Reads
    <2>2. PICK n \in Nat : n = Len(down[s]) /\ n > 0
      BY <1>0, <2>1
    <2>3. PICK d : d = down'[s]
      OBVIOUS
    <2>4. Len(d) = n - 1 /\ \A i \in 1 .. n - 1 : d[i] = down[s][i + 1] /\ i + 1 \in 1 .. n
      BY <1>0, <2>1, <2>2, <2>3
    <2>5. Has(d, "closed") => Has(down[s], "closed")
      BY <2>2, <2>4 DEF Has
    <2>6. LastWords(s)' /\ Worded(s)'
      BY <1>3, <2>1, <2>2, <2>3, <2>4 DEF LastWords, Worded
    <2>7. QED
      BY <1>2, <1>3, <2>1, <2>3, <2>5, <2>6 DEF Story, Ordered, Told, Quiet
  <1>9. CASE LetsGo(s)
    <2>1. /\ session'[s] = session[s] /\ down'[s] = <<>>
          /\ up'[s] = up[s] \/ up'[s] = Append(up[s], [type |-> "disconnect"])
      BY <1>9 DEF LetsGo
    <2>2. /\ Orderly(up'[s]) /\ (~Speaks(up[s]) => ~Speaks(up'[s]))
          /\ Has(up'[s], "close") => Has(up[s], "close")
      BY <1>0, <1>3, <2>1, OrderlyAppend, DisconnectIsMessage
    <2>3. ~Has(down'[s], "closed") /\ LastWords(s)' /\ Worded(s)'
      BY <2>1 DEF Has, LastWords, Worded
    <2>4. QED
      BY <1>2, <1>3, <2>1, <2>2, <2>3 DEF Story, Ordered, Told, Quiet
  <1>10. CASE Cutting(s)
    <2>1. session'[s] = session[s]
      BY <1>10 DEF Cutting
    <2>2. /\ Orderly(up'[s]) /\ (~Speaks(up[s]) => ~Speaks(up'[s]))
          /\ Has(up'[s], "close") => Has(up[s], "close")
      <3>1. PICK i \in 0 .. Len(up[s]) :
              up'[s] = Append(SubSeq(up[s], 1, i), [type |-> "disconnect"])
        BY <1>10 DEF Cutting
      <3>2. PICK r : r = SubSeq(up[s], 1, i)
        OBVIOUS
      <3>3. /\ r \in Seq(Messages) /\ Orderly(r) /\ (~Speaks(up[s]) => ~Speaks(r))
            /\ Has(r, "close") => Has(up[s], "close")
        BY <1>0, <1>3, <3>2, OrderlyCut
      <3>4. QED
        BY <3>1, <3>2, <3>3, OrderlyAppend, DisconnectIsMessage
    <2>3. PICK i \in 0 .. Len(down[s]) : down'[s] = Append(SubSeq(down[s], 1, i), Answer("lost"))
      BY <1>10 DEF Cutting
    <2>4. PICK n \in Nat : n = Len(down[s])
      BY <1>0
    <2>5. PICK r : r = SubSeq(down[s], 1, i)
      OBVIOUS
    <2>6. /\ r \in Seq(Answers) /\ Len(r) = i /\ i \in Nat /\ i <= n
          /\ \A j \in 1 .. i : r[j] = down[s][j] /\ j \in 1 .. n
      BY <1>0, <2>4, <2>5
    <2>7. Answer("lost") \in Answers /\ Answer("lost").type = "lost" /\ Answer("lost").samples = <<>>
      BY AnswerType DEF Answer
    <2>8. PICK d : d = down'[s]
      OBVIOUS
    <2>9. /\ Len(d) = i + 1 /\ d[i + 1] = Answer("lost")
          /\ \A j \in 1 .. i : d[j] = down[s][j] /\ j \in 1 .. n
          /\ \A j \in 1 .. i + 1 : j \in 1 .. i \/ j = i + 1
      BY <2>3, <2>5, <2>6, <2>7, <2>8
    <2>10. Has(d, "closed") => Has(down[s], "closed")
      BY <2>4, <2>6, <2>7, <2>9 DEF Has
    <2>11. Worded(s)'
      BY <1>3, <2>4, <2>6, <2>7, <2>8, <2>9 DEF Worded
    <2>12. LastWords(s)'
      <3>1. SUFFICES ASSUME NEW j \in 1 .. i + 1, d[j].type = "closed"
                     PROVE  /\ session[s].state = "ended"
                            /\ \A k \in j + 1 .. i + 1 : d[k].type \in {"bye", "lost"}
        BY <2>1, <2>8, <2>9 DEF LastWords
      <3>2. j \in 1 .. i
        BY <2>7, <2>9, <3>1
      <3>3. /\ session[s].state = "ended"
            /\ \A k \in j + 1 .. n : down[s][k].type \in {"bye", "lost"}
        BY <1>3, <2>4, <2>9, <3>1, <3>2 DEF LastWords
      <3>4. ASSUME NEW k \in j + 1 .. i + 1 PROVE d[k].type \in {"bye", "lost"}
        <4>1. CASE k = i + 1
          BY <2>7, <2>9, <4>1
        <4>2. CASE k # i + 1
          BY <2>6, <2>9, <3>3, <4>2
        <4>3. QED
          BY <4>1, <4>2
      <3>5. QED
        BY <3>3, <3>4
    <2>13. QED
      BY <1>2, <1>3, <2>1, <2>2, <2>8, <2>10, <2>11, <2>12 DEF Story, Ordered, Told, Quiet
  <1>11. QED
    BY <1>4, <1>5, <1>6, <1>7, <1>8, <1>9, <1>10 DEF PageActs

-----------------------------------------------------------------------------
(* Takes.  While a session may still be confirmed, every sample on its way *)
(* to the page belongs to the take its place says: the takes are counted   *)
(* back from the one being recorded, one for each "clear" on the way up    *)
(* and each "cleared" on the way down.                                     *)

\* The session goes on, or has been confirmed.
Alive(s) == (s \notin gone /\ session[s].state # "ended") \/ Has(down[s], "closed")

TakesOf(q, b) == \A k \in 1 .. Len(q) : q[k][1] = b

\* e[j] is the take the page is at when it has read j answers.
Tells(d, e) ==
  /\ e \in [0 .. Len(d) -> Nat]
  /\ \A j \in 1 .. Len(d) : e[j] = e[j - 1] + (IF d[j].type = "cleared" THEN 1 ELSE 0)
  /\ \A j \in 1 .. Len(d) : TakesOf(d[j].samples, e[j])

Matching(s, t, e) ==
  /\ Paces(up[s], t) /\ t[Len(up[s])] = mic[s].take
  /\ Tells(down[s], e) /\ e[Len(down[s])] = t[0]
  /\ TakesOf(Held(s), t[0])
  /\ TakesOf(shown[s], e[0])

Matched(s) == Alive(s) => \E t, e : Matching(s, t, e)

LEMMA TakesJoin ==
  ASSUME NEW a \in Seq(Sample), NEW c \in Seq(Sample), NEW b
  PROVE  TakesOf(a \o c, b) <=> TakesOf(a, b) /\ TakesOf(c, b)
  <1>1. PICK n \in Nat : n = Len(a)
    OBVIOUS
  <1>2. PICK m \in Nat : m = Len(c)
    OBVIOUS
  <1>3. PICK r : r = a \o c
    OBVIOUS
  <1>4. /\ Len(r) = n + m
        /\ \A k \in 1 .. n : r[k] = a[k] /\ k \in 1 .. n + m
        /\ \A k \in 1 .. m : r[n + k] = c[k] /\ n + k \in 1 .. n + m
        /\ \A k \in 1 .. n + m : k \in 1 .. n \/ (k - n \in 1 .. m /\ n + (k - n) = k)
    BY <1>1, <1>2, <1>3
  <1>5. ASSUME TakesOf(r, b) PROVE TakesOf(a, b) /\ TakesOf(c, b)
    BY <1>1, <1>2, <1>4, <1>5 DEF TakesOf
  <1>6. ASSUME TakesOf(a, b), TakesOf(c, b) PROVE TakesOf(r, b)
    <2>1. ASSUME NEW k \in 1 .. n + m PROVE r[k][1] = b
      <3>1. CASE k \in 1 .. n
        BY <1>1, <1>4, <1>6, <3>1 DEF TakesOf
      <3>2. CASE k - n \in 1 .. m /\ n + (k - n) = k
        <4>1. r[n + (k - n)] = c[k - n]
          BY <1>4, <3>2
        <4>2. r[k] = c[k - n]
          BY <3>2, <4>1
        <4>3. QED
          BY <1>2, <1>6, <3>2, <4>2 DEF TakesOf
      <3>3. QED
        BY <1>4, <3>1, <3>2
    <2>2. QED
      BY <1>4, <2>1 DEF TakesOf
  <1>7. QED
    BY <1>3, <1>5, <1>6

\* A count that no step between a and b changes.
LEMMA Flat ==
  ASSUME NEW f, NEW a \in Nat, NEW b \in Nat, a <= b, \A j \in a + 1 .. b : f[j] = f[j - 1]
  PROVE  f[a] = f[b]
  <1>1. SUFFICES ASSUME f[a] # f[b] PROVE FALSE
    OBVIOUS
  <1> DEFINE T == {j \in Nat : a <= j /\ j <= b /\ f[j] # f[a]}
  <1>2. T \in SUBSET Nat /\ b \in T
    BY <1>1
  <1>3. PICK m \in T : \A k \in T : m <= k
    BY <1>2, Least
  <1>4. m \in Nat /\ a <= m /\ m <= b /\ f[m] # f[a]
    BY <1>3
  <1>5. m # a
    BY <1>4
  <1>6. m \in a + 1 .. b /\ m - 1 \in Nat /\ a <= m - 1 /\ m - 1 <= b /\ ~(m <= m - 1)
    BY <1>4, <1>5
  <1>7. m - 1 \notin T
    BY <1>3, <1>6
  <1>8. f[m - 1] = f[a]
    BY <1>6, <1>7
  <1>9. f[m] = f[m - 1]
    BY <1>6
  <1>10. QED
    BY <1>4, <1>8, <1>9

LEMMA PaceFlat ==
  ASSUME NEW q \in Seq(Messages), NEW t, Paces(q, t), ~Has(q, "clear")
  PROVE  t[0] = t[Len(q)] /\ t[0] \in Nat
  <1>1. PICK n \in Nat : n = Len(q)
    OBVIOUS
  <1>2. t \in [0 .. n -> Nat] /\ \A j \in 0 .. n : t[j] \in Nat
    BY <1>1 DEF Paces
  <1>3. \A j \in 1 .. n : t[j] = t[j - 1]
    <2>1. SUFFICES ASSUME NEW j \in 1 .. n PROVE t[j] = t[j - 1]
      OBVIOUS
    <2>2. t[j] = t[j - 1] + 0
      BY <1>1 DEF Paces, Has
    <2>3. t[j - 1] \in Nat
      BY <1>1, <1>2
    <2>4. QED
      BY <2>2, <2>3
  <1>4. t[0] = t[n]
    BY <1>1, <1>3, Flat
  <1>5. QED
    BY <1>1, <1>2, <1>4

\* An answer that is not "cleared" leaves the take.
LEMMA TellsSame ==
  ASSUME NEW d, NEW e, Tells(d, e), NEW n \in Nat, Len(d) = n, NEW j \in 1 .. n
  PROVE  /\ e[j] \in Nat /\ e[j - 1] \in Nat /\ TakesOf(d[j].samples, e[j])
         /\ e[j] = IF d[j].type = "cleared" THEN e[j - 1] + 1 ELSE e[j - 1]
  <1>1. j \in 0 .. n /\ j - 1 \in 0 .. n /\ e \in [0 .. n -> Nat]
    BY DEF Tells
  <1>2. e[j] \in Nat /\ e[j - 1] \in Nat
    BY <1>1
  <1>3. e[j] = e[j - 1] + (IF d[j].type = "cleared" THEN 1 ELSE 0)
    BY DEF Tells
  <1>4. QED
    BY <1>2, <1>3 DEF Tells

LEMMA TellsFlat ==
  ASSUME NEW d, NEW e, Tells(d, e), NEW n \in Nat, Len(d) = n, NEW i \in 0 .. n,
         \A j \in i + 1 .. n : d[j].type # "cleared"
  PROVE  e[i] = e[n]
  <1>1. ASSUME NEW j \in i + 1 .. n PROVE e[j] = e[j - 1]
    <2>1. j \in 1 .. n /\ d[j].type # "cleared"
      OBVIOUS
    <2>2. QED
      BY <2>1, TellsSame
  <1>2. QED
    BY <1>1, Flat

\* r is d and more, of take b.
Longer(d, r, b) ==
  /\ Len(d) <= Len(r)
  /\ \A j \in 1 .. Len(d) : r[j] = d[j]
  /\ \A j \in Len(d) + 1 .. Len(r) : r[j].type # "cleared" /\ TakesOf(r[j].samples, b)

LEMMA TellsMore ==
  ASSUME NEW d \in Seq(Answers), NEW e, Tells(d, e), NEW r \in Seq(Answers),
         Longer(d, r, e[Len(d)])
  PROVE  \E u : Tells(r, u) /\ u[0] = e[0] /\ u[Len(r)] = e[Len(d)]
  <1>a. PICK n \in Nat : n = Len(d)
    OBVIOUS
  <1>b. PICK k \in Nat : Len(r) = n + k
    <2>1. Len(r) - n \in Nat /\ Len(r) = n + (Len(r) - n)
      BY <1>a DEF Longer
    <2>2. QED
      BY <2>1
  <1>c. /\ \A j \in 1 .. n : r[j] = d[j]
        /\ \A j \in n + 1 .. n + k : r[j].type # "cleared" /\ TakesOf(r[j].samples, e[n])
    BY <1>a, <1>b DEF Longer
  <1> DEFINE u == [j \in 0 .. n + k |-> IF j <= n THEN e[j] ELSE e[n]]
  <1>1. e \in [0 .. n -> Nat] /\ n \in 0 .. n /\ 0 \in 0 .. n + k /\ n + k \in 0 .. n + k
    BY <1>a DEF Tells
  <1>2. e[n] \in Nat /\ \A j \in 0 .. n : e[j] \in Nat
    BY <1>1
  <1>3. \A j \in 0 .. n + k : u[j] = IF j <= n THEN e[j] ELSE e[n]
    OBVIOUS
  <1>4. u \in [0 .. n + k -> Nat]
    <2>1. \A j \in 0 .. n + k : j <= n => j \in 0 .. n
      OBVIOUS
    <2>2. QED
      BY <1>2, <2>1
  <1>5. u[0] = e[0] /\ u[n + k] = e[n]
    <2>1. k = 0 => n + k = n
      OBVIOUS
    <2>2. k # 0 => ~(n + k <= n)
      OBVIOUS
    <2>3. QED
      BY <1>1, <1>3, <2>1, <2>2
  <1> HIDE DEF u
  <1>6. ASSUME NEW j \in 1 .. n + k
        PROVE  /\ u[j] = u[j - 1] + (IF r[j].type = "cleared" THEN 1 ELSE 0)
               /\ TakesOf(r[j].samples, u[j])
    <2>1. j \in 0 .. n + k /\ j - 1 \in 0 .. n + k
      OBVIOUS
    <2>2. CASE j <= n
      <3>1. j \in 1 .. n /\ j - 1 <= n
        BY <2>2
      <3>2. u[j] = e[j] /\ u[j - 1] = e[j - 1] /\ r[j] = d[j]
        BY <1>c, <1>3, <2>1, <2>2, <3>1
      <3>3. QED
        BY <1>a, <3>1, <3>2 DEF Tells
    <2>3. CASE ~(j <= n)
      <3>1. j \in n + 1 .. n + k
        BY <2>3
      <3>2. u[j] = e[n]
        BY <1>3, <2>1, <2>3
      <3>3. u[j - 1] = e[n]
        <4>1. CASE j - 1 <= n
          <5>1. j - 1 = n
            BY <2>3, <4>1
          <5>2. QED
            BY <1>3, <2>1, <4>1, <5>1
        <4>2. CASE ~(j - 1 <= n)
          BY <1>3, <2>1, <4>2
        <4>3. QED
          BY <4>1, <4>2
      <3>4. r[j].type # "cleared" /\ TakesOf(r[j].samples, e[n])
        BY <1>c, <3>1
      <3>5. QED
        BY <1>2, <3>2, <3>3, <3>4
    <2>4. QED
      BY <2>2, <2>3
  <1>7. Tells(r, u)
    BY <1>b, <1>4, <1>6 DEF Tells
  <1>8. QED
    BY <1>a, <1>b, <1>5, <1>7

LEMMA TellsCleared ==
  ASSUME NEW d \in Seq(Answers), NEW e, Tells(d, e),
         NEW a \in Answers, a.type = "cleared", a.samples = <<>>
  PROVE  \E u : Tells(Append(d, a), u) /\ u[0] = e[0] /\ u[Len(Append(d, a))] = e[Len(d)] + 1
  <1>a. PICK n \in Nat : n = Len(d)
    OBVIOUS
  <1>b. PICK r : r = Append(d, a)
    OBVIOUS
  <1> DEFINE u == [j \in 0 .. n + 1 |-> IF j <= n THEN e[j] ELSE e[n] + 1]
  <1>0. Len(r) = n + 1 /\ r[n + 1] = a /\ \A j \in 1 .. n : r[j] = d[j]
    BY <1>a, <1>b
  <1>1. e \in [0 .. n -> Nat] /\ n \in 0 .. n /\ 0 \in 0 .. n + 1 /\ n + 1 \in 0 .. n + 1
    BY <1>a DEF Tells
  <1>2. e[n] \in Nat /\ \A j \in 0 .. n : e[j] \in Nat
    BY <1>1
  <1>3. \A j \in 0 .. n + 1 : u[j] = IF j <= n THEN e[j] ELSE e[n] + 1
    OBVIOUS
  <1>4. u \in [0 .. n + 1 -> Nat]
    <2>1. \A j \in 0 .. n + 1 : j <= n => j \in 0 .. n
      OBVIOUS
    <2>2. QED
      BY <1>2, <2>1
  <1>5. u[0] = e[0] /\ u[n + 1] = e[n] + 1
    <2>1. ~(n + 1 <= n)
      OBVIOUS
    <2>2. QED
      BY <1>1, <1>3, <2>1
  <1> HIDE DEF u
  <1>6. ASSUME NEW j \in 1 .. n + 1
        PROVE  /\ u[j] = u[j - 1] + (IF r[j].type = "cleared" THEN 1 ELSE 0)
               /\ TakesOf(r[j].samples, u[j])
    <2>1. j \in 0 .. n + 1 /\ j - 1 \in 0 .. n + 1 /\ j - 1 <= n
      OBVIOUS
    <2>2. CASE j <= n
      <3>1. j \in 1 .. n
        BY <2>2
      <3>2. u[j] = e[j] /\ u[j - 1] = e[j - 1] /\ r[j] = d[j]
        BY <1>0, <1>3, <2>1, <2>2, <3>1
      <3>3. QED
        BY <1>a, <3>1, <3>2 DEF Tells
    <2>3. CASE ~(j <= n)
      <3>1. j = n + 1 /\ j - 1 = n
        BY <2>3
      <3>2. u[j] = e[n] + 1 /\ u[j - 1] = e[n] /\ r[j] = a
        BY <1>0, <1>3, <1>5, <2>1, <3>1
      <3>3. Len(a.samples) = 0
        OBVIOUS
      <3>4. TakesOf(r[j].samples, u[j])
        BY <3>2, <3>3 DEF TakesOf
      <3>5. QED
        BY <3>2, <3>4
    <2>4. QED
      BY <2>2, <2>3
  <1>7. Tells(r, u)
    BY <1>0, <1>4, <1>6 DEF Tells
  <1>8. QED
    BY <1>a, <1>b, <1>0, <1>5, <1>7

LEMMA TellsTail ==
  ASSUME NEW d \in Seq(Answers), d # <<>>, NEW e, Tells(d, e)
  PROVE  \E u : Tells(Tail(d), u) /\ u[0] = e[1] /\ u[Len(Tail(d))] = e[Len(d)]
  <1>1. PICK n \in Nat : n = Len(d) /\ n # 0
    OBVIOUS
  <1>2. PICK r : r = Tail(d)
    OBVIOUS
  <1> DEFINE u == [j \in 0 .. n - 1 |-> e[j + 1]]
  <1>3. Len(r) = n - 1 /\ \A j \in 1 .. n - 1 : r[j] = d[j + 1]
    BY <1>1, <1>2
  <1>4. \A j \in 0 .. n - 1 : u[j] = e[j + 1] /\ j + 1 \in 0 .. n
    BY <1>1
  <1>5. u \in [0 .. n - 1 -> Nat]
    BY <1>1, <1>4 DEF Tells
  <1> HIDE DEF u
  <1>6. ASSUME NEW j \in 1 .. n - 1
        PROVE  /\ u[j] = u[j - 1] + (IF r[j].type = "cleared" THEN 1 ELSE 0)
               /\ TakesOf(r[j].samples, u[j])
    <2>1. j + 1 \in 1 .. n /\ (j + 1) - 1 = j /\ j - 1 \in 0 .. n - 1 /\ (j - 1) + 1 = j /\ j \in 0 .. n - 1
      BY <1>1
    <2>2. u[j] = e[j + 1] /\ u[j - 1] = e[j] /\ r[j] = d[j + 1]
      BY <1>3, <1>4, <2>1
    <2>3. QED
      BY <1>1, <2>1, <2>2 DEF Tells
  <1>7. Tells(r, u)
    BY <1>3, <1>5, <1>6 DEF Tells
  <1>8. 0 \in 0 .. n - 1 /\ n - 1 \in 0 .. n - 1 /\ (n - 1) + 1 = n
    BY <1>1
  <1>9. u[0] = e[1] /\ u[Len(r)] = e[n]
    BY <1>3, <1>4, <1>8
  <1>10. QED
    BY <1>1, <1>2, <1>7, <1>9

LEMMA TellsCut ==
  ASSUME NEW d \in Seq(Answers), NEW e, Tells(d, e), NEW i \in 0 .. Len(d)
  PROVE  \E u : Tells(SubSeq(d, 1, i), u) /\ u[0] = e[0] /\ u[i] = e[i]
  <1>1. PICK n \in Nat : n = Len(d)
    OBVIOUS
  <1>2. PICK r : r = SubSeq(d, 1, i)
    OBVIOUS
  <1> DEFINE u == [j \in 0 .. i |-> e[j]]
  <1>3. i \in Nat /\ i <= n /\ Len(r) = i /\ \A j \in 1 .. i : r[j] = d[j]
    BY <1>1, <1>2
  <1>4. \A j \in 0 .. i : u[j] = e[j] /\ j \in 0 .. n
    BY <1>3
  <1>5. u \in [0 .. i -> Nat]
    BY <1>1, <1>4 DEF Tells
  <1> HIDE DEF u
  <1>6. ASSUME NEW j \in 1 .. i
        PROVE  /\ u[j] = u[j - 1] + (IF r[j].type = "cleared" THEN 1 ELSE 0)
               /\ TakesOf(r[j].samples, u[j])
    <2>1. j \in 1 .. n /\ j - 1 \in 0 .. i /\ j \in 0 .. i
      BY <1>1, <1>3
    <2>2. u[j] = e[j] /\ u[j - 1] = e[j - 1] /\ r[j] = d[j]
      BY <1>3, <1>4, <2>1
    <2>3. QED
      BY <1>1, <2>1, <2>2 DEF Tells
  <1>7. Tells(r, u)
    BY <1>3, <1>5, <1>6 DEF Tells
  <1>8. u[0] = e[0] /\ u[i] = e[i]
    BY <1>3, <1>4
  <1>9. QED
    BY <1>2, <1>7, <1>8

LEMMA NothingTaken == \A b : TakesOf(<<>>, b)
  <1>1. Len(<<>>) = 0
    OBVIOUS
  <1>2. QED
    BY <1>1 DEF TakesOf

\* What matches when the session goes on with t and e.
LEMMA Rematched ==
  ASSUME NEW s \in Sockets, NEW t, NEW e, NEW u, NEW v, Matching(s, t, e),
         Paces(up'[s], u), u[Len(up'[s])] = mic'[s].take,
         Tells(down'[s], v), v[Len(down'[s])] = u[0],
         TakesOf(Held(s)', u[0]), TakesOf(shown'[s], v[0])
  PROVE  Matched(s)'
  BY DEF Matched, Matching

LEMMA SaysLonger ==
  ASSUME Typed, Typed', NEW s \in Sockets, NEW t, NEW e, Matching(s, t, e),
         Longer(down[s], down'[s], t[0])
  PROVE  \E v : Tells(down'[s], v) /\ v[0] = e[0] /\ v[Len(down'[s])] = t[0]
  <1>1. PICK b \in Seq(Answers) : b = down[s]
    BY DEF Typed, TypeOK
  <1>2. PICK d \in Seq(Answers) : d = down'[s]
    BY DEF Typed, TypeOK
  <1>3. Tells(b, e) /\ e[Len(b)] = t[0] /\ Longer(b, d, e[Len(b)])
    BY <1>1, <1>2 DEF Matching
  <1>4. \E v : Tells(d, v) /\ v[0] = e[0] /\ v[Len(d)] = e[Len(b)]
    BY <1>3, TellsMore
  <1>5. QED
    BY <1>2, <1>3, <1>4

LEMMA SaysMore ==
  ASSUME Typed, NEW s \in Sockets, Mutters(s), NEW b
  PROVE  Longer(down[s], down'[s], b)
  <1>1. down[s] \in Seq(Answers)
    BY SocketTypes DEF Typed
  <1>2. PICK q \in Seq(Answers) : Mute(q) /\ down'[s] = down[s] \o q
    BY DEF Mutters
  <1>3. PICK n \in Nat : n = Len(down[s])
    BY <1>1
  <1>4. PICK k \in Nat : k = Len(q)
    OBVIOUS
  <1>5. PICK d : d = down'[s]
    OBVIOUS
  <1>6. /\ Len(d) = n + k
        /\ \A j \in 1 .. n : d[j] = down[s][j]
        /\ \A j \in n + 1 .. n + k : d[j] = q[j - n] /\ j - n \in 1 .. k
    BY <1>1, <1>2, <1>3, <1>4, <1>5
  <1>7. \A j \in n + 1 .. n + k : d[j].type # "cleared" /\ TakesOf(d[j].samples, b)
    BY <1>2, <1>4, <1>6, NothingTaken DEF Mute
  <1>8. QED
    BY <1>3, <1>5, <1>6, <1>7 DEF Longer

LEMMA SaysAnswer ==
  ASSUME NEW d \in Seq(Answers), NEW a \in Answers, NEW b, a.type # "cleared", TakesOf(a.samples, b)
  PROVE  Longer(d, Append(d, a), b)
  <1>1. /\ Len(Append(d, a)) = Len(d) + 1 /\ Len(d) \in Nat
        /\ \A j \in 1 .. Len(d) : Append(d, a)[j] = d[j]
        /\ \A j \in Len(d) + 1 .. Len(d) + 1 : Append(d, a)[j] = a
    OBVIOUS
  <1>2. QED
    BY <1>1 DEF Longer

LEMMA SaysGoodbye ==
  ASSUME NEW d \in Seq(Answers), NEW b
  PROVE  Longer(d, Append(Append(d, Answer("closed")), Answer("bye")), b)
  <1>1. Answer("closed") \in Answers /\ Answer("bye") \in Answers
    BY AnswerType DEF Spoken
  <1>2. PICK n \in Nat : n = Len(d)
    OBVIOUS
  <1>3. PICK c : c = Append(d, Answer("closed"))
    OBVIOUS
  <1>4. PICK r : r = Append(c, Answer("bye"))
    OBVIOUS
  <1>5. /\ c \in Seq(Answers) /\ Len(c) = n + 1 /\ c[n + 1] = Answer("closed")
        /\ \A i \in 1 .. n : c[i] = d[i]
    BY <1>1, <1>2, <1>3
  <1>6. /\ Len(r) = n + 2 /\ r[n + 2] = Answer("bye") /\ r[n + 1] = Answer("closed")
        /\ \A i \in 1 .. n : r[i] = d[i]
        /\ \A j \in n + 1 .. n + 2 : j = n + 1 \/ j = n + 2
    BY <1>1, <1>2, <1>4, <1>5
  <1>7. /\ Answer("closed").type = "closed" /\ Answer("bye").type = "bye"
        /\ Answer("closed").samples = <<>> /\ Answer("bye").samples = <<>>
    BY DEF Answer
  <1>8. \A j \in n + 1 .. n + 2 : r[j].type # "cleared" /\ TakesOf(r[j].samples, b)
    BY <1>6, <1>7, NothingTaken
  <1>9. n <= n + 2
    OBVIOUS
  <1>10. QED
    BY <1>2, <1>3, <1>4, <1>6, <1>8, <1>9 DEF Longer

\* The first message of the client tells the take the server moves to.
LEMMA FirstTaken ==
  ASSUME NEW q \in Seq(Messages), q # <<>>, NEW t, Paces(q, t)
  PROVE  /\ t[0] \in Nat /\ t[1] \in Nat /\ Head(q) \in Messages
         /\ t[1] = IF Head(q).type = "clear" THEN t[0] + 1 ELSE t[0]
         /\ Head(q).type = "audio" => TakesOf(Head(q).samples, t[1])
  <1>1. PICK n \in Nat : n = Len(q) /\ n # 0
    OBVIOUS
  <1>2. Head(q) = q[1] /\ q[1] \in Messages /\ 1 \in 1 .. n /\ 0 \in 0 .. n /\ 1 \in 0 .. n /\ 1 - 1 = 0
    BY <1>1
  <1>3. t \in [0 .. n -> Nat] /\ t[1] = t[1 - 1] + (IF q[1].type = "clear" THEN 1 ELSE 0)
    BY <1>1, <1>2 DEF Paces
  <1>4. t[0] \in Nat /\ t[1] \in Nat
    BY <1>2, <1>3
  <1>5. q[1].type = "audio" => TakesOf(q[1].samples, t[1])
    BY <1>1, <1>2 DEF Paces, TakesOf
  <1>6. QED
    BY <1>2, <1>3, <1>4, <1>5

LEMMA MatchedServing ==
  ASSUME Typed, Typed', NEW s \in Sockets, Story(s), ServerActs(s), shown'[s] = shown[s], Matched(s)
  PROVE  Matched(s)'
  <1>0. /\ up[s] \in Seq(Messages) /\ down[s] \in Seq(Answers) /\ Held(s) \in Seq(Sample)
        /\ TypeOK /\ TypeOK'
    BY SocketTypes DEF Typed
  <1>1. session[s].state # "ended" /\ mic'[s] = mic[s] /\ (s \in gone' <=> s \in gone)
    BY DEF ServerActs, Ending, Minding, Hearing, Clearing, Transcribing, Finishing, Rests
  <1>2. ~Has(down[s], "closed")
    BY <1>1 DEF Story, LastWords, Has
  <1>3. CASE s \in gone
    <2>1. ~Has(down'[s], "closed")
      <3>1. CASE Ending(s) \/ Minding(s)
        BY <1>1, <3>1, SaysOn DEF Ending, Minding, Story
      <3>2. CASE Hearing(s) \/ Clearing(s) \/ Transcribing(s) \/ Finishing(s)
        <4>1. down'[s] = down[s]
          BY <1>3, <3>2 DEF Hearing, Clearing, Transcribing, Finishing
        <4>2. QED
          BY <1>2, <4>1
      <3>3. QED
        BY <3>1, <3>2 DEF ServerActs
    <2>2. QED
      BY <1>1, <1>3, <2>1 DEF Matched, Alive
  <1>4. CASE s \notin gone
    <2>1. PICK t, e : Matching(s, t, e)
      BY <1>1, <1>4 DEF Matched, Alive
    <2>2. /\ Paces(up[s], t) /\ t[Len(up[s])] = mic[s].take
          /\ TakesOf(Held(s), t[0]) /\ TakesOf(shown[s], e[0])
      BY <2>1 DEF Matching
    <2>3. ASSUME \/ up'[s] = up[s]
                 \/ Drops(s, {"audio", "config", "flush", "close", "ping", "malformed", "disconnect"}),
                 TakesOf(Held(s)', t[0]),
                 \E v : Tells(down'[s], v) /\ v[0] = e[0] /\ v[Len(down'[s])] = t[0]
          PROVE  Matched(s)'
      <3>1. PICK u : Paces(up'[s], u) /\ u[0] = t[0] /\ u[Len(up'[s])] = t[Len(up[s])]
        BY <1>0, <2>2, <2>3, PaceTaken
      <3>2. PICK v : Tells(down'[s], v) /\ v[0] = e[0] /\ v[Len(down'[s])] = t[0]
        BY <2>3
      <3>3. QED
        BY <1>1, <2>1, <2>2, <2>3, <3>1, <3>2, Rematched
    <2>4. CASE Ending(s)
      <3>1. ~Has(down'[s], "closed") /\ session'[s].state = "ended"
        BY <1>1, <2>4, SaysOn DEF Ending, Story
      <3>2. QED
        BY <3>1 DEF Matched, Alive
    <2>5. CASE Minding(s)
      <3>1. \E v : Tells(down'[s], v) /\ v[0] = e[0] /\ v[Len(down'[s])] = t[0]
        BY <2>1, <2>5, SaysMore, SaysLonger DEF Minding
      <3>2. Held(s)' = Held(s)
        BY <2>5 DEF Minding
      <3>3. \/ up'[s] = up[s]
            \/ Drops(s, {"audio", "config", "flush", "close", "ping", "malformed", "disconnect"})
        BY <2>5 DEF Minding, Drops
      <3>4. QED
        BY <2>2, <2>3, <3>1, <3>2, <3>3
    <2>6. CASE Hearing(s)
      <3>1. /\ up[s] # <<>> /\ Head(up[s]).type = "audio"
            /\ Held(s)' = Held(s) \o Head(up[s]).samples /\ down'[s] = down[s]
            /\ Drops(s, {"audio", "config", "flush", "close", "ping", "malformed", "disconnect"})
        BY <2>6 DEF Hearing, Drops
      <3>2. Head(up[s]).samples \in Seq(Sample) /\ TakesOf(Head(up[s]).samples, t[0])
        BY <1>0, <2>2, <3>1, FirstTaken, AudioMessage
      <3>3. TakesOf(Held(s)', t[0])
        BY <1>0, <2>2, <3>1, <3>2, TakesJoin
      <3>4. QED
        BY <2>1, <2>3, <3>1, <3>3 DEF Matching
    <2>7. CASE Clearing(s)
      <3>1. /\ up[s] # <<>> /\ Head(up[s]).type = "clear" /\ up'[s] = Tail(up[s])
            /\ Held(s)' = <<>> /\ down'[s] = Append(down[s], Answer("cleared"))
        BY <1>4, <2>7 DEF Clearing, Drops
      <3>2. PICK u : Paces(up'[s], u) /\ u[0] = t[1] /\ u[Len(up'[s])] = t[Len(up[s])]
        <4>1. PICK q \in Seq(Messages) : q = up[s]
          BY <1>0
        <4>2. q # <<>> /\ Paces(q, t)
          BY <2>2, <3>1, <4>1
        <4>3. \E u : Paces(Tail(q), u) /\ u[0] = t[1] /\ u[Len(Tail(q))] = t[Len(q)]
          BY <4>2, PaceTail
        <4>4. QED
          BY <3>1, <4>1, <4>3
      <3>3. t[1] = t[0] + 1
        BY <1>0, <2>2, <3>1, FirstTaken
      <3>4. /\ Answer("cleared") \in Answers /\ Answer("cleared").type = "cleared"
            /\ Answer("cleared").samples = <<>>
        BY AnswerType DEF Answer, Spoken
      <3>6. PICK v : Tells(down'[s], v) /\ v[0] = e[0] /\ v[Len(down'[s])] = e[Len(down[s])] + 1
        <4>1. Tells(down[s], e)
          BY <2>1 DEF Matching
        <4>2. PICK a \in Answers : a = Answer("cleared")
          BY <3>4
        <4>3. a.type = "cleared" /\ a.samples = <<>> /\ down[s] \in Seq(Answers)
          BY <1>0, <3>4, <4>2
        <4>4. \E v : /\ Tells(Append(down[s], a), v) /\ v[0] = e[0]
                     /\ v[Len(Append(down[s], a))] = e[Len(down[s])] + 1
          BY <4>1, <4>3, TellsCleared
        <4>5. down'[s] = Append(down[s], a)
          BY <3>1, <4>2
        <4>6. QED
          BY <4>4, <4>5
      <3>7. e[Len(down[s])] = t[0]
        BY <2>1 DEF Matching
      <3>8. TakesOf(Held(s)', u[0])
        BY <3>1, NothingTaken
      <3>9. v[Len(down'[s])] = u[0] /\ u[Len(up'[s])] = mic'[s].take /\ TakesOf(shown'[s], v[0])
        BY <1>1, <2>2, <3>2, <3>3, <3>6, <3>7
      <3>10. QED
        BY <2>1, <3>2, <3>6, <3>8, <3>9, Rematched
    <2>8. CASE Transcribing(s)
      <3>1. PICK a \in Answers : /\ a.type = "transcript"
                                 /\ Held(s) = a.samples \o Held(s)'
                                 /\ down'[s] = Append(down[s], a)
        BY <1>4, <2>8 DEF Transcribing
      <3>2. a.samples \in Seq(Sample)
        BY DEF Answers
      <3>3. PICK rest \in Seq(Sample) : rest = Held(s)'
        <4>1. session'[s].due \in Seq(Sample) /\ session'[s].buffer \in Seq(Sample)
          BY <1>0 DEF TypeOK, Session
        <4>2. QED
          BY <4>1, ConcatProperties DEF Held
      <3>4. TakesOf(a.samples, t[0]) /\ TakesOf(rest, t[0])
        BY <2>2, <3>1, <3>2, <3>3, TakesJoin
      <3>5. \E v : Tells(down'[s], v) /\ v[0] = e[0] /\ v[Len(down'[s])] = t[0]
        <4>1. Longer(down[s], down'[s], t[0])
          BY <1>0, <3>1, <3>4, SaysAnswer
        <4>2. QED
          BY <2>1, <4>1, SaysLonger
      <3>6. up'[s] = up[s]
        BY <2>8 DEF Transcribing
      <3>7. QED
        BY <2>3, <3>3, <3>4, <3>5, <3>6
    <2>9. CASE Finishing(s)
      <3>1. /\ up'[s] = up[s] /\ Held(s)' = Held(s)
            /\ down'[s] = Append(Append(down[s], Answer("closed")), Answer("bye"))
        BY <1>4, <2>9 DEF Finishing, Held
      <3>2. \E v : Tells(down'[s], v) /\ v[0] = e[0] /\ v[Len(down'[s])] = t[0]
        <4>1. Longer(down[s], down'[s], t[0])
          BY <1>0, <3>1, SaysGoodbye
        <4>2. QED
          BY <2>1, <4>1, SaysLonger
      <3>3. QED
        BY <2>2, <2>3, <3>1, <3>2
    <2>10. QED
      BY <2>4, <2>5, <2>6, <2>7, <2>8, <2>9 DEF ServerActs
  <1>5. QED
    BY <1>3, <1>4

\* The page speaks only while nothing was said of closing.
LEMMA TalksEarly ==
  ASSUME NEW s \in Sockets, Story(s), MayTalk(s)
  PROVE  ~Has(up[s], "close") /\ ~Has(down[s], "closed") /\ session[s].reply # "closed"
  BY DEF Story, Ordered, Told, MayTalk, Over

LEMMA CutFacts ==
  ASSUME NEW d \in Seq(Answers), NEW i \in 0 .. Len(d)
  PROVE  /\ SubSeq(d, 1, i) \in Seq(Answers) /\ Len(SubSeq(d, 1, i)) = i
         /\ i \in Nat /\ i <= Len(d) /\ Len(d) \in Nat
         /\ \A j \in 1 .. i : SubSeq(d, 1, i)[j] = d[j] /\ j \in 1 .. Len(d)
  OBVIOUS

LEMMA LostAnswer == Answer("lost") \in Answers /\ Answer("lost").type = "lost" /\ Answer("lost").samples = <<>>
  BY AnswerType DEF Answer

LEMMA CutHas ==
  ASSUME NEW d \in Seq(Answers), NEW i \in 0 .. Len(d),
         Has(Append(SubSeq(d, 1, i), Answer("lost")), "closed")
  PROVE  Has(d, "closed")
  <1>1. PICK r \in Seq(Answers) : r = SubSeq(d, 1, i)
    BY CutFacts
  <1>2. Len(r) = i /\ i \in Nat /\ \A j \in 1 .. i : r[j] = d[j] /\ j \in 1 .. Len(d)
    BY <1>1, CutFacts
  <1>3. PICK c : c = Append(r, Answer("lost"))
    OBVIOUS
  <1>4. /\ Len(c) = i + 1 /\ c[i + 1] = Answer("lost")
        /\ \A j \in 1 .. i : c[j] = d[j]
        /\ \A j \in 1 .. i + 1 : j \in 1 .. i \/ j = i + 1
    BY <1>2, <1>3
  <1>5. PICK j \in 1 .. i + 1 : c[j].type = "closed"
    BY <1>1, <1>3, <1>4 DEF Has
  <1>6. j \in 1 .. i
    BY <1>4, <1>5, LostAnswer
  <1>7. QED
    BY <1>2, <1>4, <1>5, <1>6 DEF Has

LEMMA StaysAlive ==
  ASSUME Typed, NEW s \in Sockets, Story(s), PageActs(s), Alive(s)'
  PROVE  Alive(s)
  <1>0. down[s] \in Seq(Answers)
    BY SocketTypes DEF Typed
  <1>1. CASE Quietly(s) \/ Wiping(s)
    BY <1>1 DEF Quietly, Wiping, Still, Rests, Alive
  <1>2. CASE Wasting(s)
    BY <1>2, TalksEarly DEF Wasting, Alive
  <1>3. CASE Capturing(s) \/ Resetting(s) \/ Stopping(s)
    BY <1>3 DEF Capturing, Resetting, Stopping, Speaking, AskingClear, Listens, Alive
  <1>4. CASE Reads(s)
    <2>1. session'[s] = session[s] /\ down[s] # <<>> /\ down'[s] = Tail(down[s]) /\ (s \in gone' <=> s \in gone)
      BY <1>4 DEF Reads, Rests
    <2>2. PICK n \in Nat : n = Len(down[s]) /\ n > 0
      BY <1>0, <2>1
    <2>3. PICK d : d = down'[s]
      OBVIOUS
    <2>4. Len(d) = n - 1 /\ \A i \in 1 .. n - 1 : d[i] = down[s][i + 1] /\ i + 1 \in 1 .. n
      BY <1>0, <2>1, <2>2, <2>3
    <2>5. Has(d, "closed") => Has(down[s], "closed")
      BY <2>2, <2>4 DEF Has
    <2>6. QED
      BY <2>1, <2>3, <2>5 DEF Alive
  <1>5. CASE LetsGo(s)
    <2>1. ~Has(down'[s], "closed")
      <3>1. down'[s] = <<>> /\ Len(<<>>) = 0
        BY <1>5 DEF LetsGo
      <3>2. QED
        BY <3>1 DEF Has
    <2>2. QED
      BY <1>5, <2>1 DEF LetsGo, Alive
  <1>6. CASE Cutting(s)
    BY <1>0, <1>6, CutHas DEF Cutting, Alive
  <1>7. CASE Serving(s)
    <2>1. session[s].state # "ended" /\ (s \in gone' <=> s \in gone)
      BY <1>7 DEF Serving, ServerActs, Ending, Minding, Hearing, Clearing, Transcribing, Finishing, Rests
    <2>2. CASE s \in gone
      <3>1. ~Has(down'[s], "closed")
        <4>1. CASE Ending(s) \/ Minding(s)
          BY <2>1, <4>1, SaysOn DEF Ending, Minding, Story
        <4>2. CASE Hearing(s) \/ Clearing(s) \/ Transcribing(s) \/ Finishing(s)
          <5>1. down'[s] = down[s]
            BY <2>2, <4>2 DEF Hearing, Clearing, Transcribing, Finishing
          <5>2. QED
            BY <2>1, <5>1 DEF Story, LastWords, Has
        <4>3. QED
          BY <1>7, <4>1, <4>2 DEF Serving, ServerActs
      <3>2. QED
        BY <2>1, <2>2, <3>1 DEF Alive
    <2>3. CASE s \notin gone
      BY <2>1, <2>3 DEF Alive
    <2>4. QED
      BY <2>2, <2>3
  <1>8. QED
    BY <1>1, <1>2, <1>3, <1>4, <1>5, <1>6, <1>7 DEF PageActs

LEMMA MatchedStep ==
  ASSUME Typed, Typed', NEW s \in Sockets, Story(s), PageActs(s), Matched(s)
  PROVE  Matched(s)'
  <1>1. SUFFICES ASSUME Alive(s)' PROVE Matched(s)'
    BY DEF Matched
  <1>2. Alive(s)
    BY <1>1, StaysAlive
  <1>3. PICK t, e : Matching(s, t, e)
    BY <1>2 DEF Matched
  <1>4. /\ Paces(up[s], t) /\ t[Len(up[s])] = mic[s].take
        /\ Tells(down[s], e) /\ e[Len(down[s])] = t[0]
        /\ TakesOf(Held(s), t[0])
        /\ TakesOf(shown[s], e[0])
    BY <1>3 DEF Matching
  <1>5. up[s] \in Seq(Messages) /\ down[s] \in Seq(Answers) /\ shown[s] \in Seq(Sample) /\ TypeOK
    BY SocketTypes DEF Typed, ViewTypeOK
  <1>6. session'[s] = session[s] => Held(s)' = Held(s)
    BY DEF Held
  <1>7. CASE Quietly(s) \/ Wiping(s)
    <2>1. /\ up'[s] = up[s] /\ down'[s] = down[s] /\ mic'[s] = mic[s] /\ session'[s] = session[s]
          /\ shown'[s] \in {shown[s], <<>>}
      BY <1>7 DEF Quietly, Wiping, Still, Rests
    <2>2. TakesOf(shown'[s], e[0])
      BY <1>4, <2>1, NothingTaken
    <2>3. QED
      BY <1>3, <1>4, <1>6, <2>1, <2>2, Rematched
  <1>8. CASE Wasting(s)
    BY <1>1, <1>8, TalksEarly DEF Wasting, Alive
  <1>9. CASE Serving(s)
    BY <1>9, MatchedServing DEF Serving
  <1>10. ASSUME NEW m \in Messages, up'[s] = Append(up[s], m), session'[s] = session[s],
                down'[s] = down[s], shown'[s] \in {shown[s], <<>>},
                m.type = "audio" => \A k \in 1 .. Len(m.samples) : m.samples[k][1] = mic[s].take,
                mic'[s].take = t[Len(up[s])] + (IF m.type = "clear" THEN 1 ELSE 0)
         PROVE  Matched(s)'
    <2>1. m.type = "audio" => \A k \in 1 .. Len(m.samples) : m.samples[k][1] = t[Len(up[s])]
      BY <1>4, <1>10
    <2>2. \E u : /\ Paces(Append(up[s], m), u) /\ u[0] = t[0]
                 /\ u[Len(Append(up[s], m))] = t[Len(up[s])] + (IF m.type = "clear" THEN 1 ELSE 0)
      BY <1>4, <1>5, <2>1, PaceAppend
    <2>3. PICK u : Paces(up'[s], u) /\ u[0] = t[0] /\ u[Len(up'[s])] = mic'[s].take
      BY <1>10, <2>2
    <2>4. TakesOf(shown'[s], e[0]) /\ Held(s)' = Held(s)
      BY <1>4, <1>6, <1>10, NothingTaken
    <2>5. QED
      BY <1>3, <1>4, <1>10, <2>3, <2>4, Rematched
  <1>11. t[Len(up[s])] + 0 = t[Len(up[s])] /\ mic[s].take \in Nat
    BY <1>4, <1>5, SocketTypes
  <1>12. CASE Capturing(s)
    <2>1. PICK k \in Nat : /\ up'[s] = Append(up[s], [type |-> "audio", samples |-> Speech(s, k)])
                           /\ mic'[s] = [take |-> mic[s].take, n |-> mic[s].n + k]
      BY <1>12 DEF Capturing, Speaking
    <2>2. /\ Speech(s, k) \in Seq(Sample)
          /\ \A i \in 1 .. Len(Speech(s, k)) : Speech(s, k)[i][1] = mic[s].take
      BY <1>5, SpeechFacts
    <2>3. PICK m \in Messages : m = [type |-> "audio", samples |-> Speech(s, k)]
      BY <2>2 DEF Messages
    <2>4. m.type = "audio" /\ \A i \in 1 .. Len(m.samples) : m.samples[i][1] = mic[s].take
      BY <2>2, <2>3
    <2>5. mic'[s].take = t[Len(up[s])] + (IF m.type = "clear" THEN 1 ELSE 0)
      BY <1>4, <1>11, <2>1, <2>4
    <2>6. up'[s] = Append(up[s], m) /\ session'[s] = session[s] /\ down'[s] = down[s] /\ shown'[s] = shown[s]
      BY <1>12, <2>1, <2>3 DEF Capturing, Speaking, Listens
    <2>7. QED
      BY <1>10, <2>4, <2>5, <2>6
  <1>13. CASE Resetting(s)
    <2>1. PICK m \in Messages : m = [type |-> "clear"]
      BY DEF Messages, Plain
    <2>2. m.type = "clear" /\ mic'[s] = [take |-> mic[s].take + 1, n |-> 0]
      BY <1>13, <2>1 DEF Resetting, AskingClear
    <2>3. mic'[s].take = t[Len(up[s])] + (IF m.type = "clear" THEN 1 ELSE 0)
      BY <1>4, <2>2
    <2>4. up'[s] = Append(up[s], m) /\ session'[s] = session[s] /\ down'[s] = down[s] /\ shown'[s] = <<>>
      BY <1>13, <2>1 DEF Resetting, AskingClear, Listens
    <2>5. QED
      BY <1>10, <2>2, <2>3, <2>4
  <1>14. CASE Stopping(s)
    <2>1. PICK m \in Messages : m = [type |-> "close"]
      BY DEF Messages, Plain
    <2>2. m.type = "close" /\ mic'[s] = mic[s]
      BY <1>14, <2>1 DEF Stopping, Rests
    <2>3. mic'[s].take = t[Len(up[s])] + (IF m.type = "clear" THEN 1 ELSE 0)
      BY <1>4, <1>11, <2>2
    <2>4. up'[s] = Append(up[s], m) /\ session'[s] = session[s] /\ down'[s] = down[s] /\ shown'[s] = shown[s]
      BY <1>14, <2>1 DEF Stopping, Listens
    <2>5. QED
      BY <1>10, <2>2, <2>3, <2>4
  <1>15. CASE Reads(s)
    <2>1. /\ session'[s] = session[s] /\ up'[s] = up[s] /\ mic'[s] = mic[s]
          /\ down[s] # <<>> /\ down'[s] = Tail(down[s])
      BY <1>15 DEF Reads, Rests
    <2>2. PICK v : Tells(down'[s], v) /\ v[0] = e[1] /\ v[Len(down'[s])] = e[Len(down[s])]
      BY <1>4, <1>5, <2>1, TellsTail
    <2>3. PICK n \in Nat : n = Len(down[s]) /\ 1 \in 1 .. n
      <3>1. Len(down[s]) \in Nat /\ Len(down[s]) # 0
        BY <1>5, <2>1, EmptySeq, LenProperties
      <3>2. QED
        BY <3>1
    <2>4. Head(down[s]) = down[s][1] /\ Head(down[s]) \in Answers /\ 1 - 1 = 0
      BY <1>5, <2>1
    <2>5. /\ TakesOf(Head(down[s]).samples, e[1])
          /\ Head(down[s]).type # "cleared" => e[1] = e[0]
      BY <1>4, <2>3, <2>4, TellsSame
    <2>6. TakesOf(shown'[s], e[1])
      <3>1. CASE shown'[s] = <<>>
        BY <3>1, NothingTaken
      <3>2. CASE Head(down[s]).type # "cleared" /\ shown'[s] = shown[s]
        BY <1>4, <2>5, <3>2
      <3>3. CASE Head(down[s]).type # "cleared" /\ shown'[s] = shown[s] \o Head(down[s]).samples
        <4>1. Head(down[s]).samples \in Seq(Sample)
          BY <2>4 DEF Answers
        <4>2. QED
          BY <1>4, <1>5, <2>5, <3>3, <4>1, TakesJoin
      <3>4. QED
        BY <1>15, <3>1, <3>2, <3>3 DEF Reads
    <2>7. QED
      BY <1>3, <1>4, <1>6, <2>1, <2>2, <2>6, Rematched
  <1>16. CASE LetsGo(s)
    <2>1. ~Has(down'[s], "closed")
      <3>1. down'[s] = <<>> /\ Len(<<>>) = 0
        BY <1>16 DEF LetsGo
      <3>2. QED
        BY <3>1 DEF Has
    <2>2. QED
      BY <1>1, <1>16, <2>1 DEF LetsGo, Alive
  <1>17. CASE Cutting(s)
    <2>1. s \in gone' /\ session'[s] = session[s] /\ mic'[s] = mic[s] /\ shown'[s] = shown[s]
      BY <1>17 DEF Cutting
    <2>2. Has(down'[s], "closed")
      BY <1>1, <2>1 DEF Alive
    <2>3. PICK i \in 0 .. Len(down[s]) : down'[s] = Append(SubSeq(down[s], 1, i), Answer("lost"))
      BY <1>17 DEF Cutting
    <2>4. PICK n \in Nat : n = Len(down[s])
      BY <1>5
    <2>5. PICK r \in Seq(Answers) : r = SubSeq(down[s], 1, i)
      BY <1>5, CutFacts
    <2>6. /\ Len(r) = i /\ i \in Nat /\ i <= n
          /\ \A j \in 1 .. i : r[j] = down[s][j] /\ j \in 1 .. n
      BY <1>5, <2>4, <2>5, CutFacts
    <2>7. PICK a \in Answers : a = Answer("lost") /\ a.type = "lost" /\ a.samples = <<>>
      BY LostAnswer
    <2>8. PICK d \in Seq(Answers) : d = down'[s] /\ d = Append(r, a)
      <3>1. PICK d \in Seq(Answers) : d = down'[s]
        BY DEF Typed, TypeOK
      <3>2. d = Append(r, a)
        BY <2>3, <2>5, <2>7, <3>1
      <3>3. QED
        BY <3>1, <3>2
    <2>9. /\ Len(d) = i + 1 /\ d[i + 1] = a
          /\ \A j \in 1 .. i : d[j] = down[s][j]
          /\ \A j \in 1 .. i + 1 : j \in 1 .. i \/ j = i + 1
      BY <2>6, <2>8
    \* The confirmation is among the answers that arrive ...
    <2>10. PICK c \in 1 .. i : down[s][c].type = "closed"
      BY <2>2, <2>7, <2>8, <2>9 DEF Has
    <2>11. c \in 1 .. n /\ Has(down[s], "closed")
      BY <2>4, <2>6, <2>10 DEF Has
    \* ... so no take is closed after it, ...
    <2>12. \A j \in i + 1 .. n : down[s][j].type # "cleared"
      BY <2>4, <2>6, <2>10, <2>11 DEF Story, LastWords
    <2>13. e[i] = t[0]
      BY <1>4, <2>4, <2>12, TellsFlat
    <2>14. PICK w : Tells(r, w) /\ w[0] = e[0] /\ w[i] = e[i]
      BY <1>4, <1>5, <2>5, TellsCut
    <2>15. Longer(r, d, w[Len(r)])
      BY <2>7, <2>8, NothingTaken, SaysAnswer
    <2>16. PICK v : Tells(d, v) /\ v[0] = w[0] /\ v[Len(d)] = w[Len(r)]
      BY <2>14, <2>15, TellsMore
    <2>17. Tells(down'[s], v) /\ v[0] = e[0] /\ v[Len(down'[s])] = t[0]
      BY <2>6, <2>8, <2>13, <2>14, <2>16
    \* ... and nothing was on its way to the server that counts.
    <2>18. ~Speaks(up[s])
      BY <2>11 DEF Story, Ordered
    <2>19. PICK l \in 0 .. Len(up[s]) : up'[s] = Append(SubSeq(up[s], 1, l), [type |-> "disconnect"])
      BY <1>17 DEF Cutting
    <2>20. PICK q \in Seq(Messages) : q = SubSeq(up[s], 1, l)
      BY <1>4, <1>5, PaceCut
    <2>21. Orderly(up[s])
      BY DEF Story, Ordered
    <2>22. ~Speaks(q)
      BY <1>5, <2>18, <2>20, <2>21, OrderlyCut
    <2>23. PICK u : Paces(q, u) /\ u[0] = t[0]
      BY <1>4, <1>5, <2>20, PaceCut
    <2>24. ~Has(up[s], "clear") /\ ~Has(q, "clear")
      BY <2>18, <2>22 DEF Speaks, Has
    <2>25. u[Len(q)] = u[0] /\ t[0] = mic[s].take /\ t[0] \in Nat
      BY <1>4, <1>5, <2>23, <2>24, PaceFlat
    <2>26. PICK m \in Messages : m = [type |-> "disconnect"] /\ m.type = "disconnect"
      BY DisconnectIsMessage
    <2>27. \E x : /\ Paces(Append(q, m), x) /\ x[0] = u[0]
                  /\ x[Len(Append(q, m))] = u[Len(q)] + (IF m.type = "clear" THEN 1 ELSE 0)
      BY <2>23, <2>26, PaceAppend
    <2>28. PICK x : Paces(up'[s], x) /\ x[0] = t[0] /\ x[Len(up'[s])] = mic'[s].take
      <3>1. up'[s] = Append(q, m) /\ u[Len(q)] + (IF m.type = "clear" THEN 1 ELSE 0) = mic'[s].take
        BY <2>1, <2>19, <2>20, <2>23, <2>25, <2>26
      <3>2. QED
        BY <2>23, <2>27, <3>1
    <2>29. QED
      BY <1>3, <1>4, <1>6, <2>1, <2>17, <2>28, Rematched
  <1>18. QED
    BY <1>7, <1>8, <1>9, <1>12, <1>13, <1>14, <1>15, <1>16, <1>17 DEF PageActs

LEMMA Sticks ==
  ASSUME Typed, NEW s \in Sockets, Matched(s), s \notin gone, session[s].state # "ended"
  PROVE  \/ \A i \in 1 .. Len(shown[s]) : shown[s][i][1] = mic[s].take
         \/ \E i \in 1 .. Len(up[s]) : up[s][i].type = "clear"
         \/ \E i \in 1 .. Len(down[s]) : down[s][i].type = "cleared"
  <1>1. SUFFICES ASSUME ~Has(up[s], "clear"), ~Has(down[s], "cleared")
                 PROVE  TakesOf(shown[s], mic[s].take)
    BY DEF Has, TakesOf
  <1>2. PICK t, e : Matching(s, t, e)
    BY DEF Matched, Alive
  <1>3. up[s] \in Seq(Messages) /\ down[s] \in Seq(Answers)
    BY SocketTypes DEF Typed
  <1>4. t[0] = mic[s].take
    BY <1>1, <1>2, <1>3, PaceFlat DEF Matching
  <1>5. PICK n \in Nat : n = Len(down[s])
    BY <1>3
  <1>6. 0 \in 0 .. n /\ Tells(down[s], e) /\ \A j \in 0 + 1 .. n : down[s][j].type # "cleared"
    BY <1>1, <1>2, <1>5 DEF Matching, Has
  <1>7. e[0] = e[n]
    BY <1>5, <1>6, TellsFlat
  <1>8. QED
    BY <1>2, <1>4, <1>5, <1>7 DEF Matching

PageStory == StoppingFinal /\ \A s \in Sockets : Story(s) /\ Unheard(s) /\ Matched(s)

LEMMA InitStory == ViewInit => PageStory
  <1> SUFFICES ASSUME ViewInit PROVE PageStory
    OBVIOUS
  <1>1. StoppingFinal
    BY DEF ViewInit, StoppingFinal
  <1>2. ASSUME NEW s \in Sockets
        PROVE  Story(s) /\ Unheard(s) /\ Matched(s)
    <2>1. /\ session[s] = New /\ up[s] = <<>> /\ down[s] = <<>> /\ shown[s] = <<>>
          /\ mic[s] = [take |-> 1, n |-> 0] /\ Len(<<>>) = 0
      BY DEF ViewInit, Init, NothingShown
    <2>2. New.reply = "none" /\ New.state = "none" /\ New.due = <<>> /\ New.buffer = <<>>
      BY DEF New
    <2>3. Story(s)
      BY <2>1, <2>2 DEF Story, Quiet, LastWords, Worded, Ordered, Orderly, Told, Has
    <2>4. Unheard(s)
      BY <2>1 DEF Unheard
    <2>5. Matched(s)
      <3> DEFINE t == [j \in 0 .. 0 |-> 1]
      <3>1. t \in [0 .. 0 -> Nat] /\ t[0] = 1
        OBVIOUS
      <3> HIDE DEF t
      <3>2. Paces(<<>>, t) /\ Tells(<<>>, t)
        BY <2>1, <3>1 DEF Paces, Tells
      <3>3. Held(s) = <<>>
        <4>1. <<>> \o <<>> = <<>>
          BY EmptySeq, ConcatEmptySeq
        <4>2. QED
          BY <2>1, <2>2, <4>1 DEF Held
      <3>4. Matching(s, t, t)
        BY <2>1, <3>1, <3>2, <3>3, NothingTaken DEF Matching
      <3>5. QED
        BY <3>4 DEF Matched
    <2>6. QED
      BY <2>3, <2>4, <2>5
  <1>3. QED
    BY <1>1, <1>2 DEF PageStory

LEMMA PageStoryStep ==
  ASSUME Typed, Typed', PageInv, PageStory, [ViewNext]_viewVars
  PROVE  PageStory'
  <1>1. StoppingFinal /\ \A s \in Sockets : Story(s) /\ Unheard(s) /\ Matched(s)
    BY DEF PageStory
  <1>2. ASSUME NEW s \in Sockets
        PROVE  Story(s)' /\ Unheard(s)' /\ Matched(s)'
    <2>1. PageActs(s)
      BY OneOfThese
    <2>2. ReadyOnward(s)
      BY <1>1, StepOnward
    <2>3. Story(s)'
      BY <1>1, <2>1, <2>2, StoryStep
    <2>4. Unheard(s)'
      BY <1>1, <2>1, <2>2, UnheardStep
    <2>5. Matched(s)'
      BY <1>1, <2>1, MatchedStep
    <2>6. QED
      BY <2>3, <2>4, <2>5
  <1>3. QED
    BY <1>1, <1>2, StoppingFinalStep DEF PageStory

LEMMA AlwaysPageStory == ViewSpec => []PageStory
  <1>1. ViewInit => PageStory
    BY InitStory
  <1>2. Typed /\ Typed' /\ PageInv /\ PageStory /\ [ViewNext]_viewVars => PageStory'
    BY PageStoryStep
  <1>3. ViewSpec => []Typed
    BY AlwaysTyped
  <1>4. ViewSpec => []PageInv
    BY PageInvariant
  <1>5. QED
    BY <1>1, <1>2, <1>3, <1>4, PTL DEF ViewSpec

\* What clearSession() took from the page comes back at most until the server has answered
\* the "clear": whatever else is sent, cut off or taken in between (onmessage, "cleared").
THEOREM ClearsStick == ViewSpec => []ClearSticks
  <1>1. Typed /\ PageStory => ClearSticks
    BY Sticks DEF PageStory, ClearSticks
  <1>2. QED
    BY <1>1, AlwaysTyped, AlwaysPageStory, PTL

-----------------------------------------------------------------------------
(* The record of a session: what is shown, answered, held and still on the *)
(* way, and the sample that comes next.                                    *)

\* No sample is missing, and if the take b is all there is, none at its start.
Sound(q, b) == Chain(q) /\ (q[1][1] = b => q[1][2] = 1)

LEMMA Rises ==
  ASSUME NEW f, NEW a \in Nat, NEW b \in Nat, a <= b, \A j \in a .. b : f[j] \in Nat,
         \A j \in a + 1 .. b : f[j - 1] <= f[j]
  PROVE  f[a] <= f[b]
  <1>1. SUFFICES ASSUME ~(f[a] <= f[b]) PROVE FALSE
    OBVIOUS
  <1> DEFINE T == {j \in Nat : a <= j /\ j <= b /\ ~(f[a] <= f[j])}
  <1>2. T \in SUBSET Nat /\ b \in T
    BY <1>1
  <1>3. PICK m \in T : \A k \in T : m <= k
    BY <1>2, Least
  <1>4. m \in Nat /\ a <= m /\ m <= b /\ ~(f[a] <= f[m])
    BY <1>3
  <1>5. a \in a .. b /\ f[a] \in Nat
    OBVIOUS
  <1>6. m # a
    BY <1>4, <1>5
  <1>7. /\ m \in a + 1 .. b /\ m - 1 \in Nat /\ a <= m - 1 /\ m - 1 <= b /\ ~(m <= m - 1)
        /\ m - 1 \in a .. b /\ m \in a .. b
    BY <1>4, <1>6
  <1>8. m - 1 \notin T
    BY <1>3, <1>7
  <1>9. f[a] <= f[m - 1]
    BY <1>7, <1>8
  <1>10. f[m - 1] <= f[m] /\ f[m - 1] \in Nat /\ f[m] \in Nat
    BY <1>7
  <1>11. QED
    BY <1>4, <1>5, <1>9, <1>10

LEMMA SampleParts ==
  ASSUME NEW x \in Sample
  PROVE  x[1] \in Nat /\ x[2] \in Nat
  BY DEF Sample

LEMMA ChainRises ==
  ASSUME NEW q \in Seq(Sample), Chain(q), NEW i \in 1 .. Len(q)
  PROVE  q[1][1] <= q[i][1] /\ q[1][1] \in Nat /\ q[i][1] \in Nat
  <1>1. PICK n \in Nat : n = Len(q) /\ i <= n
    OBVIOUS
  <1>2. \A j \in 1 .. n : q[j] \in Sample /\ q[j][1] \in Nat
    BY <1>1, SampleParts
  <1> DEFINE f == [j \in 1 .. n |-> q[j][1]]
  <1>3. \A j \in 1 .. n : f[j] = q[j][1]
    OBVIOUS
  <1> HIDE DEF f
  <1>4. ASSUME NEW j \in 1 + 1 .. i
        PROVE  f[j - 1] <= f[j]
    <2>1. j - 1 \in 1 .. Len(q) - 1 /\ (j - 1) + 1 = j /\ j \in 1 .. n /\ j - 1 \in 1 .. n
      BY <1>1
    <2>2. Follows(q[j - 1], q[(j - 1) + 1])
      BY <2>1 DEF Chain
    <2>3. q[j - 1][1] \in Nat /\ q[j][1] \in Nat
      BY <1>2, <2>1
    <2>4. q[j - 1][1] <= q[j][1]
      BY <2>1, <2>2, <2>3 DEF Follows
    <2>5. QED
      BY <1>3, <2>1, <2>4
  <1>5. 1 \in Nat /\ i \in Nat /\ 1 <= i /\ \A j \in 1 .. i : f[j] \in Nat
    BY <1>1, <1>2, <1>3
  <1>6. f[1] <= f[i]
    BY <1>4, <1>5, Rises
  <1>7. 1 \in 1 .. n /\ i \in 1 .. n
    BY <1>1
  <1>8. QED
    BY <1>2, <1>3, <1>6, <1>7

LEMMA AppendOne ==
  \A c \in Seq(Sample), z \in Sample :
    Append(c, z) \in Seq(Sample) /\ Append(c, z) # <<>> /\ Append(c, z)[1] \in Sample
    /\ Append(c, z)[1] = IF c = <<>> THEN z ELSE c[1]
  <1> TAKE c \in Seq(Sample), z \in Sample
  <1>1. PICK n \in Nat : n = Len(c)
    OBVIOUS
  <1>2. PICK r \in Seq(Sample) : r = Append(c, z)
    BY AppendProperties
  <1>3. Len(r) = n + 1 /\ r[n + 1] = z /\ \A j \in 1 .. n : r[j] = c[j]
    BY <1>1, <1>2
  <1>4. r # <<>> /\ r[1] \in Sample
    BY <1>1, <1>3
  <1>5. CASE c = <<>>
    <2>1. n = 0 /\ n + 1 = 1
      BY <1>1, <1>5
    <2>2. QED
      BY <1>2, <1>3, <1>4, <1>5, <2>1
  <1>6. CASE c # <<>>
    <2>1. 1 \in 1 .. n
      BY <1>1, <1>6
    <2>2. QED
      BY <1>2, <1>3, <1>4, <1>6, <2>1
  <1>7. QED
    BY <1>5, <1>6

LEMMA FirstOfTwo ==
  \A a \in Seq(Sample), r \in Seq(Sample) :
    a \o r \in Seq(Sample) /\ (a # <<>> => (a \o r)[1] = a[1]) /\ (a = <<>> => a \o r = r)
  <1> TAKE a \in Seq(Sample), r \in Seq(Sample)
  <1>1. PICK n \in Nat : n = Len(a)
    OBVIOUS
  <1>2. PICK q : q = a \o r
    OBVIOUS
  <1>3. q \in Seq(Sample) /\ \A j \in 1 .. n : q[j] = a[j]
    BY <1>1, <1>2
  <1>4. a # <<>> => 1 \in 1 .. n
    BY <1>1
  <1>5. a = <<>> => a \o r = r
    BY ConcatEmptySeq
  <1>6. QED
    BY <1>2, <1>3, <1>4, <1>5

\* "clear" begins a new take.
LEMMA SoundNextTake ==
  ASSUME NEW a \in Seq(Sample), NEW c \in Seq(Sample), NEW z \in Sample, NEW y \in Sample,
         Chain(Append(a \o c, z)), y[1] = z[1] + 1, y[2] = 1
  PROVE  Sound(Append(c, y), z[1] + 1)
  <1>1. PICK r \in Seq(Sample) : r = Append(c, z)
    BY AppendOne, Zenon
  <1>2. Append(a \o c, z) = a \o r
    BY <1>1, SampleShift, Zenon
  <1>3. Chain(r)
    BY <1>2, ChainJoin
  <1>4. Chain(c) /\ (c # <<>> => Follows(c[Len(c)], z))
    BY <1>1, <1>3, ChainNext
  <1>5. z[1] \in Nat
    BY SampleParts
  <1>6. CASE c = <<>>
    <2>1. Append(c, y)[1] = y /\ Chain(Append(c, y))
      BY <1>4, <1>6, AppendOne, ChainNext
    <2>2. QED
      BY <2>1 DEF Sound
  <1>7. CASE c # <<>>
    <2>1. Len(c) \in 1 .. Len(c) /\ c[Len(c)] \in Sample
      BY <1>7
    <2>2. c[Len(c)][1] \in Nat /\ c[1][1] \in Nat /\ c[1][1] <= c[Len(c)][1]
      BY <1>4, <2>1, ChainRises
    <2>3. c[Len(c)][1] <= z[1]
      BY <1>4, <1>5, <1>7, <2>2 DEF Follows
    <2>4. y[1] > c[Len(c)][1]
      BY <1>5, <2>2, <2>3
    <2>5. Chain(Append(c, y))
      BY <1>4, <2>4, ChainNext DEF Follows
    <2>6. Append(c, y)[1] = c[1]
      BY <1>7, AppendOne
    <2>7. c[1][1] # z[1] + 1
      BY <1>5, <2>2, <2>3
    <2>8. QED
      BY <2>5, <2>6, <2>7 DEF Sound
  <1>8. QED
    BY <1>6, <1>7

\* What was shown of earlier takes goes from the page.
LEMMA SoundCleared ==
  ASSUME NEW a \in Seq(Sample), NEW r \in Seq(Sample), r # <<>>, NEW b, Sound(a \o r, b),
         \A k \in 1 .. Len(a) : a[k][1] < r[1][1]
  PROVE  Sound(r, b)
  <1>1. Chain(r) /\ (a # <<>> => Follows(a[Len(a)], r[1]))
    BY ChainJoin DEF Sound
  <1>2. CASE a = <<>>
    BY <1>2, FirstOfTwo
  <1>3. CASE a # <<>>
    <2>1. Len(a) \in 1 .. Len(a) /\ a[Len(a)] \in Sample /\ r[1] \in Sample
      BY <1>3
    <2>2. a[Len(a)][1] < r[1][1] /\ a[Len(a)][1] \in Nat /\ r[1][1] \in Nat
      BY <2>1, SampleParts
    <2>3. r[1][2] = 1
      BY <1>1, <1>3, <2>2 DEF Follows
    <2>4. QED
      BY <1>1, <2>3 DEF Sound
  <1>4. QED
    BY <1>2, <1>3

\* What is held is of take b, what came before is not later and what follows is.
Parted(a, h, r, b) == /\ b \in Nat /\ r # <<>> /\ r[1][1] > b
                      /\ \A k \in 1 .. Len(a) : a[k][1] <= b
                      /\ \A k \in 1 .. Len(h) : h[k][1] = b

\* "clear" reaches the server: what it held, all of take b, is dropped.
LEMMA SoundDropped ==
  ASSUME NEW a \in Seq(Sample), NEW h \in Seq(Sample), NEW r \in Seq(Sample),
         NEW b, Parted(a, h, r, b), NEW c, Sound((a \o h) \o r, c)
  PROVE  Sound(a \o r, c)
  <1>0. /\ b \in Nat /\ r # <<>> /\ r[1][1] > b
        /\ \A k \in 1 .. Len(a) : a[k][1] <= b
        /\ \A k \in 1 .. Len(h) : h[k][1] = b
    BY DEF Parted
  <1>1. Chain(a \o r)
    BY <1>0, ChainClear DEF Sound
  <1>2. PICK g \in Seq(Sample) : g = a \o h
    BY ConcatProperties
  <1>3. CASE a # <<>>
    <2>1. (a \o r)[1] = a[1] /\ g[1] = a[1]
      BY <1>2, <1>3, FirstOfTwo
    <2>2. g # <<>>
      <3>1. Len(a) \in Nat /\ Len(a) # 0 /\ Len(h) \in Nat /\ Len(g) = Len(a) + Len(h)
        BY <1>2, <1>3
      <3>2. Len(g) # 0
        BY <3>1
      <3>3. QED
        BY <3>2
    <2>3. (g \o r)[1] = a[1]
      BY <2>1, <2>2, FirstOfTwo
    <2>4. QED
      BY <1>1, <1>2, <2>1, <2>3 DEF Sound
  <1>4. CASE a = <<>>
    <2>1. a \o r = r /\ g = h
      BY <1>2, <1>4, FirstOfTwo
    <2>2. Sound(h \o r, c)
      BY <1>2, <2>1
    <2>3. \A k \in 1 .. Len(h) : h[k][1] < r[1][1]
      <3>1. r[1] \in Sample
        BY <1>0
      <3>2. QED
        BY <1>0, <3>1, SampleParts
    <2>4. QED
      BY <1>0, <2>1, <2>2, <2>3, SoundCleared
  <1>5. QED
    BY <1>3, <1>4

LEMMA SoundSpeech ==
  ASSUME TypeOK, NEW s \in Sockets, NEW k \in Nat, NEW a \in Seq(Sample), NEW b,
         Sound(Append(a, Coming(s)), b)
  PROVE  Sound(Append(a \o Speech(s, k), <<mic[s].take, (mic[s].n + k) + 1>>), b)
  <1>1. Chain(Append(a \o Speech(s, k), <<mic[s].take, (mic[s].n + k) + 1>>))
    BY ChainSpeech DEF Sound
  <1>2. mic[s].take \in Nat /\ mic[s].n \in Nat
    BY SocketTypes
  <1>3. PICK z \in Sample : z = <<mic[s].take, (mic[s].n + k) + 1>>
    <2>1. (mic[s].n + k) + 1 \in Nat
      BY <1>2
    <2>2. QED
      BY <1>2, <2>1 DEF Sample
  <1>4. PICK p \in Seq(Sample) : p = Speech(s, k)
    BY SpeechFacts
  <1>5. PICK c \in Sample : c = Coming(s)
    BY TrailTypes
  <1>6. PICK g \in Seq(Sample) : g = a \o p
    BY ConcatProperties
  <1>7. Append(g, z)[1] = Append(a, c)[1]
    <2>1. CASE a # <<>>
      <3>1. g[1] = a[1] /\ Append(a, c)[1] = a[1]
        BY <1>6, <2>1, FirstOfTwo, AppendOne
      <3>2. g # <<>>
        <4>1. Len(a) \in Nat /\ Len(a) # 0 /\ Len(p) \in Nat /\ Len(g) = Len(a) + Len(p)
          BY <1>6, <2>1
        <4>2. Len(g) # 0
          BY <4>1
        <4>3. QED
          BY <4>2
      <3>3. Append(g, z)[1] = g[1]
        BY <3>2, AppendOne
      <3>4. QED
        BY <3>1, <3>3
    <2>2. CASE a = <<>> /\ k = 0
      <3>1. Len(p) = 0
        BY <1>4, <2>2, SpeechFacts
      <3>2. p = <<>> /\ g = <<>>
        BY <1>6, <2>2, <3>1, FirstOfTwo
      <3>3. z = c
        BY <1>2, <1>3, <1>5, <2>2 DEF Coming
      <3>4. QED
        BY <2>2, <3>2, <3>3
    <2>3. CASE a = <<>> /\ k # 0
      <3>1. Len(p) = k /\ 1 \in 1 .. k /\ p[1] = <<mic[s].take, mic[s].n + 1>>
        BY <1>4, <2>3, SpeechFacts
      <3>2. g = p /\ g # <<>>
        BY <1>6, <2>3, <3>1, FirstOfTwo
      <3>3. Append(g, z)[1] = p[1] /\ Append(a, c)[1] = c
        BY <2>3, <3>2, AppendOne
      <3>4. QED
        BY <1>5, <3>1, <3>3 DEF Coming
    <2>4. QED
      BY <2>1, <2>2, <2>3
  <1>8. QED
    BY <1>1, <1>3, <1>4, <1>5, <1>6, <1>7 DEF Sound

LEMMA AnswerAudioTail ==
  ASSUME NEW q \in Seq(Answers), q # <<>>
  PROVE  /\ Head(q) \in Answers /\ Head(q).samples \in Seq(Sample) /\ Tail(q) \in Seq(Answers)
         /\ AnswerAudio(q) = Head(q).samples \o AnswerAudio(Tail(q))
  <1> DEFINE r == Tail(q)
  <1>1. /\ r \in Seq(Answers) /\ Len(r) = Len(q) - 1 /\ Head(q) = q[1]
        /\ \A i \in 1 .. Len(q) - 1 : r[i] = q[i + 1]
        /\ Len(q) \in Nat /\ Len(q) # 0
    BY HeadTailProperties, LenProperties, EmptySeq
  <1> HIDE DEF r
  <1>2. /\ AnswerParts(q) \in Seq(Seq(Sample)) /\ Len(AnswerParts(q)) = Len(q)
        /\ \A i \in 1 .. Len(q) : AnswerParts(q)[i] = q[i].samples
    BY AnswerPartsFacts
  <1>3. /\ AnswerParts(r) \in Seq(Seq(Sample)) /\ Len(AnswerParts(r)) = Len(q) - 1
        /\ \A i \in 1 .. Len(q) - 1 : AnswerParts(r)[i] = r[i].samples
    BY <1>1, AnswerPartsFacts
  <1>4. \A i \in 1 .. Len(q) - 1 : AnswerParts(r)[i] = AnswerParts(q)[i + 1]
    <2>1. \A i \in 1 .. Len(q) - 1 : i + 1 \in 1 .. Len(q)
      BY <1>1
    <2>2. QED
      BY <1>1, <1>2, <1>3, <2>1
  <1>5. AnswerParts(q) # <<>>
    BY <1>1, <1>2, EmptySeq
  <1>6. AnswerParts(r) = Tail(AnswerParts(q))
    BY <1>2, <1>3, <1>4, <1>5, ShorterByOne
  <1>7. Head(AnswerParts(q)) = Head(q).samples
    <2>1. Head(AnswerParts(q)) = AnswerParts(q)[1] /\ 1 \in 1 .. Len(q)
      BY <1>1, <1>2, <1>5, HeadTailProperties
    <2>2. QED
      BY <1>1, <1>2, <2>1
  <1>8. FlattenSeq(AnswerParts(q)) = Head(AnswerParts(q)) \o FlattenSeq(Tail(AnswerParts(q)))
    BY <1>2, <1>5, FlattenTail
  <1>9. AnswerAudio(r) = FlattenSeq(AnswerParts(r)) /\ AnswerAudio(q) = FlattenSeq(AnswerParts(q))
    BY DEF AnswerAudio, AnswerParts
  <1>10. Head(q) \in Answers /\ Head(q).samples \in Seq(Sample)
    <2>1. Head(q) \in Answers
      BY <1>1, ElementOfSeq
    <2>2. QED
      BY <2>1 DEF Answers
  <1>11. QED
    BY <1>1, <1>6, <1>7, <1>8, <1>9, <1>10 DEF r

\* Every sample is of one of the takes T.
Within(q, T) == \A k \in 1 .. Len(q) : q[k][1] \in T

LEMMA WithinJoin ==
  ASSUME NEW T, NEW a \in Seq(Sample), NEW c \in Seq(Sample), Within(a, T), Within(c, T)
  PROVE  a \o c \in Seq(Sample) /\ Within(a \o c, T)
  <1>1. PICK n \in Nat : n = Len(a)
    OBVIOUS
  <1>2. PICK m \in Nat : m = Len(c)
    OBVIOUS
  <1>3. PICK r \in Seq(Sample) : r = a \o c
    BY ConcatProperties
  <1>4. /\ Len(r) = n + m
        /\ \A k \in 1 .. n : r[k] = a[k]
        /\ \A k \in 1 .. m : r[n + k] = c[k]
        /\ \A k \in 1 .. n + m : k \in 1 .. n \/ (k - n \in 1 .. m /\ n + (k - n) = k)
    BY <1>1, <1>2, <1>3
  <1>5. ASSUME NEW k \in 1 .. n + m PROVE r[k][1] \in T
    <2>1. CASE k \in 1 .. n
      BY <1>1, <1>4, <2>1 DEF Within
    <2>2. CASE k - n \in 1 .. m /\ n + (k - n) = k
      <3>1. r[n + (k - n)] = c[k - n]
        BY <1>4, <2>2
      <3>2. QED
        BY <1>2, <2>2, <3>1 DEF Within
    <2>3. QED
      BY <1>4, <2>1, <2>2
  <1>6. QED
    BY <1>3, <1>4, <1>5 DEF Within

LEMMA PaceGrows ==
  ASSUME NEW q \in Seq(Messages), NEW t, Paces(q, t), NEW i \in 0 .. Len(q), NEW j \in 0 .. Len(q), i <= j
  PROVE  t[i] \in Nat /\ t[j] \in Nat /\ t[i] <= t[j]
  <1>1. PICK n \in Nat : n = Len(q)
    OBVIOUS
  <1>2. i \in Nat /\ j \in Nat /\ j <= n
    BY <1>1
  <1>3. \A k \in 0 .. n : t[k] \in Nat
    BY <1>1 DEF Paces
  <1>4. \A k \in i .. j : t[k] \in Nat
    BY <1>1, <1>2, <1>3
  <1>5. ASSUME NEW k \in i + 1 .. j
        PROVE  t[k - 1] <= t[k]
    <2>1. k \in 1 .. n /\ k - 1 \in 0 .. n
      BY <1>1, <1>2
    <2>2. t[k] = t[k - 1] + (IF q[k].type = "clear" THEN 1 ELSE 0) /\ t[k - 1] \in Nat
      BY <1>1, <1>3, <2>1 DEF Paces
    <2>3. QED
      BY <2>2
  <1>6. t[i] <= t[j]
    BY <1>2, <1>4, <1>5, Rises
  <1>7. QED
    BY <1>1, <1>3, <1>6

LEMMA TellsGrows ==
  ASSUME NEW d \in Seq(Answers), NEW e, Tells(d, e), NEW i \in 0 .. Len(d), NEW j \in 0 .. Len(d), i <= j
  PROVE  e[i] \in Nat /\ e[j] \in Nat /\ e[i] <= e[j]
  <1>1. PICK n \in Nat : n = Len(d)
    OBVIOUS
  <1>2. i \in Nat /\ j \in Nat /\ j <= n
    BY <1>1
  <1>3. \A k \in 0 .. n : e[k] \in Nat
    BY <1>1 DEF Tells
  <1>4. \A k \in i .. j : e[k] \in Nat
    BY <1>1, <1>2, <1>3
  <1>5. ASSUME NEW k \in i + 1 .. j
        PROVE  e[k - 1] <= e[k]
    <2>1. k \in 1 .. n /\ k - 1 \in 0 .. n
      BY <1>1, <1>2
    <2>2. e[k] = e[k - 1] + (IF d[k].type = "cleared" THEN 1 ELSE 0) /\ e[k - 1] \in Nat
      BY <1>1, <1>3, <2>1 DEF Tells
    <2>3. QED
      BY <2>2
  <1>6. e[i] <= e[j]
    BY <1>2, <1>4, <1>5, Rises
  <1>7. QED
    BY <1>1, <1>3, <1>6

LEMMA AnswersWithin ==
  ASSUME NEW d \in Seq(Answers), NEW e, Tells(d, e), NEW T, \A j \in 1 .. Len(d) : e[j] \in T
  PROVE  AnswerAudio(d) \in Seq(Sample) /\ Within(AnswerAudio(d), T)
  <1>1. ASSUME NEW i \in 1 .. Len(AnswerAudio(d))
        PROVE  AnswerAudio(d)[i][1] \in T
    <2>1. PICK j \in 1 .. Len(d) : \E k \in 1 .. Len(d[j].samples) : AnswerAudio(d)[i] = d[j].samples[k]
      BY AnswerAudioFacts
    <2>2. TakesOf(d[j].samples, e[j])
      BY DEF Tells
    <2>3. AnswerAudio(d)[i][1] = e[j]
      BY <2>1, <2>2 DEF TakesOf
    <2>4. QED
      BY <2>3
  <1>2. QED
    BY <1>1, AnswerAudioFacts DEF Within

LEMMA MessagesWithin ==
  ASSUME NEW q \in Seq(Messages), NEW t, Paces(q, t), NEW T, \A j \in 1 .. Len(q) : t[j] \in T
  PROVE  AudioIn(q) \in Seq(Sample) /\ Within(AudioIn(q), T)
  <1>1. ASSUME NEW i \in 1 .. Len(AudioIn(q))
        PROVE  AudioIn(q)[i][1] \in T
    <2>1. PICK j \in 1 .. Len(q) : /\ q[j].type = "audio"
                                   /\ \E k \in 1 .. Len(q[j].samples) : AudioIn(q)[i] = q[j].samples[k]
      BY AudioInFacts
    <2>2. AudioIn(q)[i][1] = t[j]
      BY <2>1 DEF Paces
    <2>3. QED
      BY <2>2
  <1>2. QED
    BY <1>1, AudioInFacts DEF Within

\* All that is on the way, and the next sample, is of the take of the next answer or later.
LEMMA TrailWithin ==
  ASSUME Typed, NEW s \in Sockets, NEW t, NEW e, Matching(s, t, e), NEW i \in 0 .. Len(down[s]),
         i = 0 \/ i = 1
  PROVE  /\ e[i] \in Nat
         /\ Within(Trail(s), {k \in Nat : e[i] <= k})
         /\ Coming(s)[1] \in Nat /\ e[i] <= Coming(s)[1]
  <1>1. up[s] \in Seq(Messages) /\ down[s] \in Seq(Answers) /\ TypeOK
    BY SocketTypes DEF Typed
  <1>2. /\ Paces(up[s], t) /\ t[Len(up[s])] = mic[s].take
        /\ Tells(down[s], e) /\ e[Len(down[s])] = t[0]
        /\ TakesOf(Held(s), t[0])
    BY DEF Matching
  <1>3. PICK n \in Nat : n = Len(down[s])
    BY <1>1
  <1>4. PICK m \in Nat : m = Len(up[s])
    BY <1>1
  <1> DEFINE T == {k \in Nat : e[i] <= k}
  <1>5. ASSUME NEW j \in 1 .. n PROVE e[j] \in T
    <2>1. i <= j /\ j \in 0 .. n
      BY <1>3
    <2>2. e[j] \in Nat /\ e[i] <= e[j]
      BY <1>1, <1>2, <1>3, <2>1, TellsGrows
    <2>3. QED
      BY <2>2
  <1>6. e[i] \in Nat /\ t[0] \in Nat /\ e[i] <= t[0]
    <2>1. i <= n /\ n \in 0 .. n
      BY <1>3
    <2>2. e[i] \in Nat /\ e[n] \in Nat /\ e[i] <= e[n]
      BY <1>1, <1>2, <1>3, <2>1, TellsGrows
    <2>3. QED
      BY <1>2, <1>3, <2>2
  <1>7. ASSUME NEW j \in 0 .. m PROVE t[j] \in Nat /\ e[i] <= t[j]
    <2>1. 0 \in 0 .. m /\ 0 <= j
      BY <1>4
    <2>2. t[j] \in Nat /\ t[0] <= t[j]
      BY <1>1, <1>2, <1>4, <2>1, PaceGrows
    <2>3. QED
      BY <1>6, <2>2
  <1>8. \A j \in 1 .. m : t[j] \in T
    <2>1. \A j \in 1 .. m : j \in 0 .. m
      OBVIOUS
    <2>2. QED
      BY <1>7, <2>1
  <1>9. t[0] \in T
    BY <1>6
  <1> HIDE DEF T
  <1>10. AnswerAudio(down[s]) \in Seq(Sample) /\ Within(AnswerAudio(down[s]), T)
    BY <1>1, <1>2, <1>3, <1>5, AnswersWithin
  <1>11. AudioIn(up[s]) \in Seq(Sample) /\ Within(AudioIn(up[s]), T)
    BY <1>1, <1>2, <1>4, <1>8, MessagesWithin
  <1>12. Held(s) \in Seq(Sample) /\ Within(Held(s), T)
    BY <1>1, <1>2, <1>9, TrailTypes DEF TakesOf, Within
  <1>13. PICK x \in Seq(Sample) : x = AnswerAudio(down[s]) \o Held(s) /\ Within(x, T)
    BY <1>10, <1>12, WithinJoin
  <1>14. Within(Trail(s), T)
    <2>1. PICK y \in Seq(Sample) : y = AudioIn(up[s]) /\ Within(y, T)
      BY <1>11
    <2>2. Within(x \o y, T)
      BY <1>13, <2>1, WithinJoin
    <2>3. Trail(s) = x \o y
      BY <1>1, <1>13, <2>1, TrailTypes
    <2>4. QED
      BY <2>2, <2>3
  <1>15. Coming(s)[1] = t[m] /\ m \in 0 .. m
    BY <1>2, <1>4 DEF Coming
  <1>16. QED
    BY <1>6, <1>7, <1>14, <1>15 DEF T

-----------------------------------------------------------------------------
(* What is shown, answered, held and on the way, with the sample that      *)
(* comes next, misses nothing while the session may still be confirmed.    *)

Record(s) == Append(shown[s] \o Trail(s), Coming(s))
Complete(s) == Alive(s) /\ ready[s] \notin Over => Sound(Record(s), mic[s].take)

LEMMA TrailSame ==
  ASSUME NEW s \in Sockets, session'[s] = session[s], up'[s] = up[s], down'[s] = down[s], mic'[s] = mic[s]
  PROVE  Trail(s)' = Trail(s) /\ Coming(s)' = Coming(s)
  <1>1. Held(s)' = Held(s)
    BY DEF Held
  <1>2. QED
    BY <1>1 DEF Trail, Coming

\* A message without audio changes nothing.
LEMMA TrailMuttered ==
  ASSUME Typed, NEW s \in Sockets, session'[s] = session[s], down'[s] = down[s],
         NEW m \in Messages, m.type # "audio", up'[s] = Append(up[s], m)
  PROVE  Trail(s)' = Trail(s)
  <1>1. up[s] \in Seq(Messages) /\ TypeOK
    BY SocketTypes DEF Typed
  <1>2. PICK u \in Seq(Sample) : u = AudioIn(up[s])
    BY <1>1, AudioInFacts
  <1>3. u \o <<>> = u
    BY ConcatEmptySeq
  <1>4. AudioIn(up'[s]) = AudioIn(up[s])
    BY <1>1, <1>2, <1>3, AudioInAppend DEF Audio
  <1>5. Held(s)' = Held(s)
    BY DEF Held
  <1>6. QED
    BY <1>4, <1>5 DEF Trail

LEMMA RecordReset ==
  ASSUME Typed, NEW s \in Sockets, Resetting(s), Sound(Record(s), mic[s].take)
  PROVE  Sound(Record(s)', mic'[s].take)
  <1>1. TypeOK /\ shown[s] \in Seq(Sample) /\ mic[s].take \in Nat
    BY SocketTypes DEF Typed, ViewTypeOK
  <1>2. PICK m \in Messages : m = [type |-> "clear"]
    BY DEF Messages, Plain
  <1>3. Trail(s)' = Trail(s)
    <2>1. m.type # "audio"
      BY <1>2
    <2>2. QED
      BY <1>2, <2>1, TrailMuttered DEF Resetting, AskingClear, Listens
  <1>4. PICK c \in Seq(Sample) : c = Trail(s)
    BY <1>1, TrailTypes
  <1>5. PICK z \in Sample : z = Coming(s)
    BY <1>1, TrailTypes
  <1>6. mic'[s] = [take |-> mic[s].take + 1, n |-> 0] /\ shown'[s] = <<>>
    BY DEF Resetting, AskingClear
  <1>7. PICK y \in Sample : y = <<mic[s].take + 1, 0 + 1>>
    <2>1. mic[s].take + 1 \in Nat /\ 0 + 1 \in Nat
      BY <1>1
    <2>2. QED
      BY <2>1 DEF Sample
  <1>8. Coming(s)' = y
    BY <1>6, <1>7 DEF Coming
  <1>9. z[1] = mic[s].take /\ y[1] = z[1] + 1 /\ y[2] = 1
    BY <1>5, <1>7 DEF Coming
  <1>10. Chain(Append(shown[s] \o c, z))
    BY <1>4, <1>5 DEF Record, Sound
  <1>11. Sound(Append(c, y), z[1] + 1)
    BY <1>1, <1>9, <1>10, SoundNextTake
  <1>12. <<>> \o c = c
    BY ConcatEmptySeq
  <1>13. Record(s)' = Append(c, y)
    BY <1>3, <1>4, <1>6, <1>8, <1>12 DEF Record
  <1>14. QED
    BY <1>6, <1>9, <1>11, <1>13

LEMMA RecordSpoken ==
  ASSUME Typed, NEW s \in Sockets, Capturing(s), Sound(Record(s), mic[s].take)
  PROVE  Sound(Record(s)', mic'[s].take)
  <1>1. TypeOK /\ shown[s] \in Seq(Sample) /\ up[s] \in Seq(Messages)
    BY SocketTypes DEF Typed, ViewTypeOK
  <1>2. PICK k \in Nat : /\ up'[s] = Append(up[s], [type |-> "audio", samples |-> Speech(s, k)])
                         /\ mic'[s] = [take |-> mic[s].take, n |-> mic[s].n + k]
    BY DEF Capturing, Speaking
  <1>3. PICK p \in Seq(Sample) : p = Speech(s, k)
    BY <1>1, SpeechFacts
  <1>4. PICK d \in Seq(Sample) : d = AnswerAudio(down[s]) \o Held(s)
    BY <1>1, TrailTypes, ConcatProperties
  <1>5. PICK u \in Seq(Sample) : u = AudioIn(up[s])
    BY <1>1, TrailTypes
  <1>6. AudioIn(up'[s]) = u \o p
    <2>0. PICK m \in Messages : m = [type |-> "audio", samples |-> p]
      BY DEF Messages
    <2>1. Audio(m) = p
      BY <2>0 DEF Audio
    <2>2. up'[s] = Append(up[s], m)
      BY <1>2, <1>3, <2>0
    <2>3. QED
      BY <1>1, <1>5, <2>1, <2>2, AudioInAppend
  <1>7. PICK w \in Seq(Sample) : w = Trail(s) /\ w = d \o u
    BY <1>1, <1>4, <1>5, TrailTypes
  <1>8. Trail(s)' = d \o (u \o p)
    <2>1. down'[s] = down[s] /\ session'[s] = session[s]
      BY DEF Capturing, Speaking, Listens
    <2>2. Held(s)' = Held(s)
      BY <2>1 DEF Held
    <2>3. QED
      BY <1>4, <1>6, <2>1, <2>2 DEF Trail
  <1>9. Trail(s)' = w \o p
    <2>1. (d \o u) \o p = d \o (u \o p)
      BY SampleRegroup, Zenon
    <2>2. QED
      BY <1>7, <1>8, <2>1
  <1>10. PICK a \in Seq(Sample) : a = shown[s]
    BY <1>1
  <1>11. (a \o w) \o p = a \o (w \o p)
    BY SampleRegroup, Zenon
  <1>12. PICK g \in Seq(Sample) : g = a \o w
    BY ConcatProperties
  <1>13. Coming(s)' = <<mic[s].take, (mic[s].n + k) + 1>> /\ mic'[s].take = mic[s].take
    BY <1>2 DEF Coming
  <1>14. Record(s) = Append(g, Coming(s))
    BY <1>7, <1>10, <1>12 DEF Record
  <1>15. Record(s)' = Append(g \o Speech(s, k), <<mic[s].take, (mic[s].n + k) + 1>>)
    <2>1. shown'[s] = a
      BY <1>10 DEF Capturing
    <2>2. Record(s)' = Append(a \o (w \o p), <<mic[s].take, (mic[s].n + k) + 1>>)
      BY <1>9, <1>13, <2>1 DEF Record
    <2>3. QED
      BY <1>3, <1>11, <1>12, <2>2
  <1>16. QED
    BY <1>1, <1>13, <1>14, <1>15, SoundSpeech

\* A transcript moves from the wire to the page.
LEMMA RecordRead ==
  ASSUME Typed, NEW s \in Sockets, down[s] # <<>>, down'[s] = Tail(down[s]),
         session'[s] = session[s], up'[s] = up[s], mic'[s] = mic[s],
         shown'[s] = shown[s] \o Head(down[s]).samples
  PROVE  Record(s)' = Record(s)
  <1>1. TypeOK /\ shown[s] \in Seq(Sample) /\ down[s] \in Seq(Answers)
    BY SocketTypes DEF Typed, ViewTypeOK
  <1>2. PICK p \in Seq(Sample) : p = Head(down[s]).samples
    BY <1>1, AnswerAudioTail
  <1>3. PICK a \in Seq(Sample) : a = AnswerAudio(down'[s])
    BY <1>1, AnswerAudioTail, AnswerAudioFacts
  <1>4. PICK h \in Seq(Sample) : h = Held(s)
    BY <1>1, TrailTypes
  <1>5. PICK u \in Seq(Sample) : u = AudioIn(up[s])
    BY <1>1, TrailTypes
  <1>6. PICK q \in Seq(Sample) : q = shown[s]
    BY <1>1
  <1>7. AnswerAudio(down[s]) = p \o a
    BY <1>1, <1>2, <1>3, AnswerAudioTail
  <1>8. PICK x \in Seq(Sample) : x = a \o h
    BY ConcatProperties
  <1>9. PICK y \in Seq(Sample) : y = x \o u
    BY ConcatProperties
  <1>10. \A b \in Seq(Sample), c \in Seq(Sample) : (p \o b) \o c = p \o (b \o c)
    BY SampleRegroup, Zenon
  <1>11. (p \o a) \o h = p \o x /\ (p \o x) \o u = p \o y
    <2>1. \A c \in Seq(Sample) : (p \o a) \o c = p \o (a \o c)
      BY <1>10, Zenon
    <2>2. \A c \in Seq(Sample) : (p \o x) \o c = p \o (x \o c)
      BY <1>10, Zenon
    <2>3. (p \o a) \o h = p \o (a \o h) /\ (p \o x) \o u = p \o (x \o u)
      BY <2>1, <2>2, Zenon
    <2>4. QED
      BY <1>8, <1>9, <2>3
  <1>12. q \o (p \o y) = (q \o p) \o y
    <2>1. \A b \in Seq(Sample), c \in Seq(Sample) : (q \o b) \o c = q \o (b \o c)
      BY SampleRegroup, Zenon
    <2>2. \A c \in Seq(Sample) : (q \o p) \o c = q \o (p \o c)
      BY <2>1, Zenon
    <2>3. QED
      BY <2>2
  <1>13. Trail(s) = p \o y
    BY <1>1, <1>4, <1>5, <1>7, <1>11, TrailTypes
  <1>14. Trail(s)' = y
    <2>1. Held(s)' = h
      BY <1>4 DEF Held
    <2>2. QED
      BY <1>3, <1>5, <1>8, <1>9, <2>1 DEF Trail
  <1>15. Coming(s)' = Coming(s)
    BY DEF Coming
  <1>16. QED
    BY <1>2, <1>6, <1>12, <1>13, <1>14, <1>15 DEF Record

\* An answer without audio leaves the trail alone.
LEMMA TrailRead ==
  ASSUME Typed, NEW s \in Sockets, down[s] # <<>>, down'[s] = Tail(down[s]),
         session'[s] = session[s], up'[s] = up[s], mic'[s] = mic[s],
         Head(down[s]).samples = <<>>
  PROVE  Trail(s)' = Trail(s) /\ Coming(s)' = Coming(s)
  <1>1. down[s] \in Seq(Answers)
    BY SocketTypes DEF Typed
  <1>2. PICK a \in Seq(Sample) : a = AnswerAudio(down'[s])
    BY <1>1, AnswerAudioTail, AnswerAudioFacts
  <1>3. <<>> \o a = a
    BY ConcatEmptySeq
  <1>4. AnswerAudio(down'[s]) = AnswerAudio(down[s])
    BY <1>1, <1>2, <1>3, AnswerAudioTail
  <1>5. Held(s)' = Held(s)
    BY DEF Held
  <1>6. QED
    BY <1>4, <1>5 DEF Trail, Coming

LEMMA RecordTypes ==
  ASSUME Typed, NEW s \in Sockets
  PROVE  /\ shown[s] \in Seq(Sample) /\ Trail(s) \in Seq(Sample) /\ Coming(s) \in Sample
         /\ Append(Trail(s), Coming(s)) \in Seq(Sample) /\ Append(Trail(s), Coming(s)) # <<>>
         /\ Record(s) = shown[s] \o Append(Trail(s), Coming(s))
  <1>1. PICK a \in Seq(Sample) : a = shown[s]
    BY DEF Typed, ViewTypeOK
  <1>2. PICK w \in Seq(Sample) : w = Trail(s)
    BY TrailTypes DEF Typed
  <1>3. PICK z \in Sample : z = Coming(s)
    BY TrailTypes DEF Typed
  <1>4. PICK r \in Seq(Sample) : r = Append(w, z) /\ r # <<>>
    BY AppendOne
  <1>5. Append(a \o w, z) = a \o r
    BY <1>4, SampleShift, Zenon
  <1>6. QED
    BY <1>1, <1>2, <1>3, <1>4, <1>5 DEF Record

\* "cleared" takes what was shown from the page, and nothing of a later take.
LEMMA RecordCleared ==
  ASSUME Typed, NEW s \in Sockets, down[s] # <<>>, down'[s] = Tail(down[s]),
         session'[s] = session[s], up'[s] = up[s], mic'[s] = mic[s], shown'[s] = <<>>,
         Head(down[s]).type = "cleared", Worded(s), Matched(s), Alive(s), Sound(Record(s), mic[s].take)
  PROVE  Sound(Record(s)', mic'[s].take)
  <1>1. TypeOK /\ down[s] \in Seq(Answers)
    BY SocketTypes DEF Typed
  <1>2. PICK t, e : Matching(s, t, e)
    BY DEF Matched
  <1>3. PICK n \in Nat : n = Len(down[s]) /\ 1 \in 1 .. n /\ 1 - 1 = 0 /\ 0 \in 0 .. n /\ 1 \in 0 .. n
    BY <1>1
  <1>4. Head(down[s]) = down[s][1]
    BY <1>1
  <1>5. e[1] = e[0] + 1 /\ e[0] \in Nat
    <2>1. Tells(down[s], e)
      BY <1>2 DEF Matching
    <2>2. e[1 - 1] \in Nat /\ e[1] = e[1 - 1] + 1
      BY <1>3, <1>4, <2>1, TellsSame
    <2>3. QED
      BY <1>3, <2>2
  <1>6. Head(down[s]).samples = <<>>
    BY <1>3, <1>4 DEF Worded
  <1>7. Trail(s)' = Trail(s) /\ Coming(s)' = Coming(s)
    BY <1>6, TrailRead
  <1>8. PICK a \in Seq(Sample) : a = shown[s]
    BY RecordTypes
  <1>9. PICK w \in Seq(Sample) : w = Trail(s)
    BY RecordTypes
  <1>10. PICK z \in Sample : z = Coming(s)
    BY RecordTypes
  <1>11. PICK r \in Seq(Sample) : /\ r = Append(w, z) /\ r # <<>>
                                  /\ r[1] = IF w = <<>> THEN z ELSE w[1]
    BY AppendOne
  <1>12. r[1][1] \in Nat /\ e[1] <= r[1][1]
    <2>1. Within(w, {k \in Nat : e[1] <= k}) /\ z[1] \in Nat /\ e[1] <= z[1]
      BY <1>2, <1>3, <1>9, <1>10, TrailWithin
    <2>2. w # <<>> => 1 \in 1 .. Len(w)
      OBVIOUS
    <2>3. w # <<>> => w[1][1] \in Nat /\ e[1] <= w[1][1]
      BY <2>1, <2>2 DEF Within
    <2>4. QED
      BY <1>11, <2>1, <2>3
  <1>13. \A k \in 1 .. Len(a) : a[k][1] < r[1][1]
    BY <1>2, <1>5, <1>8, <1>12 DEF Matching, TakesOf
  <1>14. Sound(a \o r, mic[s].take)
    BY <1>8, <1>9, <1>10, <1>11, RecordTypes
  <1>15. Sound(r, mic[s].take)
    BY <1>11, <1>13, <1>14, SoundCleared
  <1>16. <<>> \o w = w
    BY ConcatEmptySeq
  <1>17. Record(s)' = r
    BY <1>7, <1>9, <1>10, <1>11, <1>16 DEF Record
  <1>18. QED
    BY <1>15, <1>17

\* The server answers "clear".
LEMMA RecordDropped ==
  ASSUME Typed, Typed', NEW s \in Sockets, Clearing(s), s \notin gone, shown'[s] = shown[s],
         Matched(s), Alive(s), Sound(Record(s), mic[s].take)
  PROVE  Sound(Record(s)', mic'[s].take)
  <1>1. TypeOK /\ TypeOK' /\ down[s] \in Seq(Answers) /\ up[s] \in Seq(Messages) /\ mic'[s] = mic[s]
    BY SocketTypes DEF Typed, Clearing, Rests
  <1>2. PICK t, e : Matching(s, t, e)
    BY DEF Matched
  <1>3. /\ Paces(up[s], t) /\ t[Len(up[s])] = mic[s].take
        /\ Tells(down[s], e) /\ e[Len(down[s])] = t[0]
        /\ TakesOf(Held(s), t[0]) /\ TakesOf(shown[s], e[0])
    BY <1>2 DEF Matching
  <1>a. PICK n \in Nat : n = Len(down[s])
    BY <1>1
  <1>4. PICK q \in Seq(Sample) : q = shown[s]
    BY RecordTypes
  <1>5. PICK a \in Seq(Sample) : a = AnswerAudio(down[s])
    BY <1>1, TrailTypes
  <1>6. PICK h \in Seq(Sample) : h = Held(s)
    BY <1>1, TrailTypes
  <1>7. PICK u \in Seq(Sample) : u = AudioIn(up[s])
    BY <1>1, TrailTypes
  <1>8. PICK z \in Sample : z = Coming(s)
    BY <1>1, TrailTypes
  <1>9. PICK r \in Seq(Sample) : r = Append(u, z)
    BY AppendOne
  <1>b. \A f \in Seq(Sample) : Append(f \o u, z) = f \o r
    BY <1>9, SampleShift, Zenon
  <1>10. t[0] \in Nat /\ r # <<>> /\ r[1][1] > t[0]
    <2>1. up[s] # <<>> /\ Head(up[s]).type = "clear"
      BY DEF Clearing, Drops
    <2>2. QED
      BY <1>1, <1>3, <1>7, <1>8, <1>9, <2>1, LaterTakes
  <1>11. PICK b \in Seq(Sample) : b = q \o a /\ \A k \in 1 .. Len(b) : b[k][1] <= t[0]
    <2> DEFINE T == {k \in Nat : k <= t[0]}
    <2>2. ASSUME NEW j \in 0 .. n PROVE e[j] \in T
      <3>1. j <= n /\ n \in 0 .. n
        BY <1>a
      <3>2. e[j] \in Nat /\ e[j] <= e[n]
        BY <1>1, <1>3, <1>a, <3>1, TellsGrows
      <3>3. QED
        BY <1>3, <1>a, <3>2
    <2> HIDE DEF T
    <2>3. 0 \in 0 .. n /\ \A j \in 1 .. n : j \in 0 .. n
      BY <1>a
    <2>4. Within(a, T)
      BY <1>1, <1>3, <1>5, <1>a, <2>2, <2>3, AnswersWithin
    <2>5. Within(q, T)
      BY <1>3, <1>4, <2>2, <2>3 DEF Within, TakesOf
    <2>6. q \o a \in Seq(Sample) /\ Within(q \o a, T)
      BY <2>4, <2>5, WithinJoin
    <2>7. QED
      BY <2>6 DEF Within, T
  <1>12. \A k \in 1 .. Len(h) : h[k][1] = t[0]
    BY <1>3, <1>6 DEF TakesOf
  <1>13. Record(s) = (b \o h) \o r
    <2>1. PICK g \in Seq(Sample) : g = a \o h
      BY ConcatProperties
    <2>2. Record(s) = Append(q \o (g \o u), z)
      BY <1>1, <1>4, <1>5, <1>6, <1>7, <1>8, <2>1, TrailTypes DEF Record
    <2>3. q \o (g \o u) = (q \o g) \o u
      <3>1. \A c \in Seq(Sample), d \in Seq(Sample) : (q \o c) \o d = q \o (c \o d)
        BY SampleRegroup, Zenon
      <3>2. \A d \in Seq(Sample) : (q \o g) \o d = q \o (g \o d)
        BY <3>1, Zenon
      <3>3. QED
        BY <3>2
    <2>4. q \o g = b \o h
      <3>1. \A c \in Seq(Sample), d \in Seq(Sample) : (q \o c) \o d = q \o (c \o d)
        BY SampleRegroup, Zenon
      <3>2. \A d \in Seq(Sample) : (q \o a) \o d = q \o (a \o d)
        BY <3>1, Zenon
      <3>3. QED
        BY <1>11, <2>1, <3>2
    <2>5. PICK f \in Seq(Sample) : f = b \o h
      BY ConcatProperties
    <2>6. Append(f \o u, z) = f \o r
      BY <1>b, Zenon
    <2>7. QED
      BY <2>2, <2>3, <2>4, <2>5, <2>6
  <1>14. Sound(b \o r, mic[s].take)
    <2>1. Parted(b, h, r, t[0])
      BY <1>10, <1>11, <1>12 DEF Parted
    <2>2. Sound((b \o h) \o r, mic[s].take)
      BY <1>13
    <2>3. QED
      BY <2>1, <2>2, SoundDropped
  <1>15. Record(s)' = b \o r
    <2>1. Trail(s)' = a \o u
      BY <1>1, <1>5, <1>7, TrailCleared
    <2>2. Coming(s)' = z
      BY <1>1, <1>8 DEF Coming
    <2>3. Record(s)' = Append(q \o (a \o u), z)
      BY <1>4, <2>1, <2>2 DEF Record
    <2>4. q \o (a \o u) = b \o u
      <3>1. \A c \in Seq(Sample), d \in Seq(Sample) : (q \o c) \o d = q \o (c \o d)
        BY SampleRegroup, Zenon
      <3>2. \A d \in Seq(Sample) : (q \o a) \o d = q \o (a \o d)
        BY <3>1, Zenon
      <3>3. QED
        BY <1>11, <3>2
    <2>5. Append(b \o u, z) = b \o r
      BY <1>b, Zenon
    <2>6. QED
      BY <2>3, <2>4, <2>5
  <1>16. QED
    BY <1>1, <1>14, <1>15

LEMMA Split ==
  ASSUME NEW d \in Seq(Answers), NEW i \in 0 .. Len(d)
  PROVE  /\ SubSeq(d, 1, i) \in Seq(Answers) /\ SubSeq(d, i + 1, Len(d)) \in Seq(Answers)
         /\ d = SubSeq(d, 1, i) \o SubSeq(d, i + 1, Len(d))
         /\ \A j \in 1 .. Len(SubSeq(d, i + 1, Len(d))) :
              SubSeq(d, i + 1, Len(d))[j] = d[i + j] /\ i + j \in i + 1 .. Len(d)
  <1>1. PICK n \in Nat : n = Len(d) /\ i \in Nat /\ i <= n /\ n - i \in Nat
    OBVIOUS
  <1>2. PICK a \in Seq(Answers) : a = SubSeq(d, 1, i)
    BY CutFacts
  <1>3. Len(a) = i /\ \A j \in 1 .. i : a[j] = d[j]
    BY <1>2, CutFacts
  <1>4. PICK c \in Seq(Answers) : /\ c = SubSeq(d, i + 1, n) /\ Len(c) = n - i
                                  /\ \A j \in 1 .. n - i : c[j] = d[i + j]
    <2>1. \A j \in i + 1 .. n : d[j] \in Answers
      BY <1>1
    <2>2. /\ SubSeq(d, i + 1, n) \in Seq(Answers)
          /\ Len(SubSeq(d, i + 1, n)) = n - i
          /\ \A j \in 1 .. n - i : SubSeq(d, i + 1, n)[j] = d[i + j]
      <3>1. (n - (i + 1)) + 1 = n - i /\ \A j \in 1 .. n - i : (i + 1) + j - 1 = i + j
        BY <1>1
      <3>2. QED
        BY <1>1, <2>1, <3>1
    <2>3. QED
      BY <2>2
  <1>5. PICK r \in Seq(Answers) : r = a \o c
    BY ConcatProperties
  <1>6. Len(r) = n /\ \A j \in 1 .. n : r[j] = d[j]
    <2>1. /\ Len(r) = i + (n - i)
          /\ \A j \in 1 .. i : r[j] = a[j]
          /\ \A j \in 1 .. n - i : r[i + j] = c[j]
      <3>1. PICK k \in Nat : k = n - i
        BY <1>1
      <3>2. Len(a) = i /\ Len(c) = k
        BY <1>3, <1>4, <3>1
      <3>a. /\ Len(r) = Len(a) + Len(c)
            /\ \A j \in 1 .. Len(a) + Len(c) : r[j] = IF j <= Len(a) THEN a[j] ELSE c[j - Len(a)]
        BY <1>5, ConcatProperties
      <3>3. Len(r) = i + k /\ \A j \in 1 .. i : r[j] = a[j]
        BY <1>1, <3>a, <3>2
      <3>4. \A j \in 1 .. k : r[i + j] = c[j]
        BY <1>1, <3>a, <3>1, <3>2
      <3>5. QED
        BY <3>1, <3>3, <3>4
    <2>2. \A j \in 1 .. n : j \in 1 .. i \/ (j - i \in 1 .. n - i /\ i + (j - i) = j)
      BY <1>1
    <2>3. i + (n - i) = n
      BY <1>1
    <2>4. ASSUME NEW j \in 1 .. n PROVE r[j] = d[j]
      <3>1. CASE j \in 1 .. i
        BY <1>3, <2>1, <3>1
      <3>2. CASE j - i \in 1 .. n - i /\ i + (j - i) = j
        <4>1. r[i + (j - i)] = c[j - i] /\ c[j - i] = d[i + (j - i)]
          BY <1>4, <2>1, <3>2
        <4>2. QED
          BY <3>2, <4>1
      <3>3. QED
        BY <2>2, <3>1, <3>2
    <2>5. QED
      BY <2>1, <2>3, <2>4
  <1>7. r = d
    BY <1>1, <1>6, SeqEqual
  <1>8. \A j \in 1 .. n - i : i + j \in i + 1 .. n
    BY <1>1
  <1>9. QED
    BY <1>1, <1>2, <1>4, <1>5, <1>7, <1>8

LEMMA SilentAudio ==
  ASSUME NEW q \in Seq(Messages), ~Speaks(q)
  PROVE  AudioIn(q) = <<>>
  <1>1. PICK u \in Seq(Sample) : u = AudioIn(q)
    BY AudioInFacts
  <1>2. ASSUME NEW i \in 1 .. Len(u) PROVE FALSE
    BY <1>1, <1>2, AudioInFacts DEF Speaks
  <1>3. PICK n \in Nat : n = Len(u)
    BY <1>1
  <1>4. n = 0
    <2>1. n # 0 => 1 \in 1 .. n
      BY <1>3
    <2>2. QED
      BY <1>2, <1>3, <2>1
  <1>5. u = <<>>
    BY <1>3, <1>4, EmptySeq
  <1>6. QED
    BY <1>1, <1>5

\* The connection breaks behind the confirmation.
LEMMA RecordCut ==
  ASSUME Typed, NEW s \in Sockets, Story(s), Cutting(s), Alive(s)'
  PROVE  Record(s)' = Record(s)
  <1>1. TypeOK /\ down[s] \in Seq(Answers) /\ up[s] \in Seq(Messages)
    BY SocketTypes DEF Typed
  <1>2. s \in gone' /\ session'[s] = session[s] /\ mic'[s] = mic[s] /\ shown'[s] = shown[s]
    BY DEF Cutting
  <1>3. Has(down'[s], "closed")
    BY <1>2 DEF Alive
  <1>4. PICK i \in 0 .. Len(down[s]) : down'[s] = Append(SubSeq(down[s], 1, i), Answer("lost"))
    BY DEF Cutting
  <1>5. PICK n \in Nat : n = Len(down[s])
    BY <1>1
  <1>6. PICK r \in Seq(Answers) : r = SubSeq(down[s], 1, i)
    BY <1>1, CutFacts
  <1>7. /\ Len(r) = i /\ i \in Nat /\ i <= n
        /\ \A j \in 1 .. i : r[j] = down[s][j] /\ j \in 1 .. n
    BY <1>1, <1>5, <1>6, CutFacts
  <1>8. PICK a \in Answers : a = Answer("lost") /\ a.type = "lost" /\ a.samples = <<>>
    BY LostAnswer
  <1>9. PICK c \in 1 .. i : down[s][c].type = "closed"
    <2>1. PICK d : d = down'[s]
      OBVIOUS
    <2>2. d = Append(r, a)
      BY <1>4, <1>6, <1>8, <2>1
    <2>3. /\ Len(d) = i + 1 /\ d[i + 1] = a
          /\ \A j \in 1 .. i : d[j] = down[s][j]
          /\ \A j \in 1 .. i + 1 : j \in 1 .. i \/ j = i + 1
      BY <1>7, <2>2
    <2>4. QED
      BY <1>3, <1>8, <2>1, <2>3 DEF Has
  <1>10. c \in 1 .. n /\ Has(down[s], "closed")
    BY <1>5, <1>7, <1>9 DEF Has
  <1>11. PICK q \in Seq(Answers) : /\ q = SubSeq(down[s], i + 1, n) /\ down[s] = r \o q
                                   /\ \A j \in 1 .. Len(q) : q[j] = down[s][i + j] /\ i + j \in i + 1 .. n
    BY <1>1, <1>5, <1>6, Split
  <1>12. Mute(q)
    <2>1. ASSUME NEW j \in 1 .. Len(q)
          PROVE  q[j].samples = <<>> /\ q[j].type \notin {"cleared", "closed", "transcript"}
      <3>1. i + j \in c + 1 .. n /\ i + j \in 1 .. n
        BY <1>7, <1>9, <1>11
      <3>2. down[s][i + j].type \in {"bye", "lost"}
        BY <1>5, <1>9, <1>10, <3>1 DEF Story, LastWords
      <3>3. down[s][i + j].samples = <<>>
        BY <1>5, <3>1, <3>2 DEF Story, Worded
      <3>4. QED
        BY <1>11, <3>2, <3>3
    <2>2. QED
      BY <2>1 DEF Mute
  <1>13. AnswerAudio(down[s]) = AnswerAudio(r)
    BY <1>11, <1>12, MuteAudio
  <1>14. AnswerAudio(down'[s]) = AnswerAudio(r)
    <2>1. AnswerAudio(Append(r, a)) = AnswerAudio(r) \o a.samples
      BY AnswerAudioAppend
    <2>2. PICK x \in Seq(Sample) : x = AnswerAudio(r)
      BY AnswerAudioFacts
    <2>3. x \o <<>> = x
      BY ConcatEmptySeq
    <2>4. QED
      BY <1>4, <1>6, <1>8, <2>1, <2>2, <2>3
  <1>15. ~Speaks(up[s]) /\ Orderly(up[s])
    BY <1>10 DEF Story, Ordered
  <1>16. PICK l \in 0 .. Len(up[s]) : up'[s] = Append(SubSeq(up[s], 1, l), [type |-> "disconnect"])
    BY DEF Cutting
  <1>17. PICK p \in Seq(Messages) : p = SubSeq(up[s], 1, l)
    BY <1>1, <1>15, OrderlyCut
  <1>18. ~Speaks(p)
    BY <1>1, <1>15, <1>17, OrderlyCut
  <1>19. AudioIn(up'[s]) = AudioIn(up[s])
    <2>1. PICK m \in Messages : m = [type |-> "disconnect"]
      BY DisconnectIsMessage
    <2>2. Audio(m) = <<>>
      BY <2>1 DEF Audio
    <2>3. AudioIn(Append(p, m)) = AudioIn(p) \o Audio(m)
      BY AudioInAppend
    <2>4. AudioIn(p) = <<>> /\ AudioIn(up[s]) = <<>>
      BY <1>1, <1>15, <1>18, SilentAudio
    <2>5. <<>> \o <<>> = <<>>
      BY EmptySeq, ConcatEmptySeq
    <2>6. QED
      BY <1>16, <1>17, <2>1, <2>2, <2>3, <2>4, <2>5
  <1>20. Trail(s)' = Trail(s) /\ Coming(s)' = Coming(s)
    <2>1. Held(s)' = Held(s)
      BY <1>2 DEF Held
    <2>2. QED
      BY <1>2, <1>13, <1>14, <1>19, <2>1 DEF Trail, Coming
  <1>21. QED
    BY <1>2, <1>20 DEF Record

\* The server works on a session that goes on.
LEMMA RecordServed ==
  ASSUME Typed, Typed', NEW s \in Sockets, Serving(s), Story(s), Matched(s), Alive(s), Alive(s)',
         Sound(Record(s), mic[s].take)
  PROVE  Sound(Record(s)', mic'[s].take)
  <1>1. /\ session[s].state # "ended" /\ mic'[s] = mic[s] /\ (s \in gone' <=> s \in gone)
        /\ shown'[s] = shown[s]
    BY DEF Serving, ServerActs, Ending, Minding, Hearing, Clearing, Transcribing, Finishing, Rests
  <1>2. ~Has(down[s], "closed") /\ s \notin gone
    <2>1. ~Has(down[s], "closed")
      BY <1>1 DEF Story, LastWords, Has
    <2>2. QED
      BY <2>1 DEF Alive
  <1>3. TypeOK /\ TypeOK'
    BY DEF Typed
  <1>4. CASE Minding(s) \/ Hearing(s) \/ Transcribing(s) \/ Finishing(s)
    <2>1. Trail(s)' = Trail(s)
      BY <1>2, <1>3, <1>4, TrailKept
    <2>2. QED
      BY <1>1, <2>1 DEF Record, Coming
  <1>5. CASE Clearing(s)
    BY <1>1, <1>2, <1>5, RecordDropped
  <1>6. ~Ending(s)
    <2>1. ASSUME Ending(s) PROVE FALSE
      <3>1. ~Has(down'[s], "closed") /\ session'[s].state = "ended"
        BY <1>1, <2>1, SaysOn DEF Ending, Story
      <3>2. QED
        BY <3>1 DEF Alive
    <2>2. QED
      BY <2>1
  <1>7. QED
    BY <1>4, <1>5, <1>6 DEF Serving, ServerActs

LEMMA CompleteStep ==
  ASSUME Typed, Typed', NEW s \in Sockets, PageActs(s), ReadyOnward(s), Story(s), Unheard(s),
         Matched(s), Complete(s)
  PROVE  Complete(s)'
  <1> SUFFICES ASSUME Alive(s)', ready'[s] \notin Over
               PROVE  Sound(Record(s)', mic'[s].take)
    BY DEF Complete
  <1>1. Alive(s) /\ ready[s] \notin Over
    BY StaysAlive DEF ReadyOnward
  <1>2. Sound(Record(s), mic[s].take)
    BY <1>1 DEF Complete
  <1>3. CASE Quietly(s) \/ Wiping(s)
    <2>1. Trail(s)' = Trail(s) /\ Coming(s)' = Coming(s) /\ mic'[s] = mic[s]
      BY <1>3, TrailSame DEF Quietly, Wiping, Still, Rests
    <2>2. shown'[s] = shown[s]
      <3>1. CASE Wiping(s)
        <4>1. ready[s] \in Early
          BY <1>1, <3>1 DEF Wiping, Typed, ViewTypeOK, Connection, Over, Early
        <4>2. QED
          BY <3>1, <4>1 DEF Wiping, Unheard
      <3>2. QED
        BY <1>3, <3>1 DEF Quietly
    <2>3. QED
      BY <1>2, <2>1, <2>2 DEF Record
  <1>4. CASE Serving(s)
    BY <1>1, <1>2, <1>4, RecordServed
  <1>5. CASE Wasting(s)
    BY <1>5, TalksEarly DEF Wasting, Alive
  <1>6. CASE Capturing(s)
    BY <1>2, <1>6, RecordSpoken
  <1>7. CASE Resetting(s)
    BY <1>2, <1>7, RecordReset
  <1>8. CASE Stopping(s)
    <2>1. PICK m \in Messages : m = [type |-> "close"]
      BY DEF Messages, Plain
    <2>2. /\ m.type # "audio" /\ up'[s] = Append(up[s], m) /\ session'[s] = session[s]
          /\ down'[s] = down[s] /\ shown'[s] = shown[s] /\ mic'[s] = mic[s]
      BY <1>8, <2>1 DEF Stopping, Listens, Rests
    <2>3. Trail(s)' = Trail(s)
      BY <2>2, TrailMuttered
    <2>4. QED
      BY <1>2, <2>2, <2>3 DEF Record, Coming
  <1>9. CASE Reads(s)
    <2>1. /\ down[s] # <<>> /\ down'[s] = Tail(down[s])
          /\ session'[s] = session[s] /\ up'[s] = up[s] /\ mic'[s] = mic[s]
      BY <1>9 DEF Reads, Rests
    <2>2. CASE shown'[s] = shown[s] \o Head(down[s]).samples
      BY <1>2, <2>1, <2>2, RecordRead
    <2>3. CASE Head(down[s]).type = "cleared" /\ shown'[s] = <<>>
      BY <1>1, <1>2, <2>1, <2>3, RecordCleared DEF Story
    <2>4. CASE Head(down[s]).type # "transcript" /\ shown'[s] = shown[s]
      <3>1. Head(down[s]).samples = <<>>
        <4>1. down[s] \in Seq(Answers)
          BY SocketTypes DEF Typed
        <4>2. Head(down[s]) = down[s][1] /\ 1 \in 1 .. Len(down[s])
          BY <2>1, <4>1
        <4>3. QED
          BY <2>4, <4>2 DEF Story, Worded
      <3>2. Trail(s)' = Trail(s) /\ Coming(s)' = Coming(s)
        BY <2>1, <3>1, TrailRead
      <3>3. QED
        BY <1>2, <2>1, <2>4, <3>2 DEF Record
    <2>5. QED
      BY <1>9, <2>2, <2>3, <2>4 DEF Reads
  <1>10. CASE LetsGo(s)
    <2>1. ~Has(down'[s], "closed")
      <3>1. down'[s] = <<>> /\ Len(<<>>) = 0
        BY <1>10 DEF LetsGo
      <3>2. QED
        BY <3>1 DEF Has
    <2>2. QED
      BY <1>10, <2>1 DEF LetsGo, Alive
  <1>11. CASE Cutting(s)
    <2>1. Record(s)' = Record(s)
      BY <1>11, RecordCut
    <2>2. QED
      BY <1>2, <1>11, <2>1 DEF Cutting
  <1>12. QED
    BY <1>3, <1>4, <1>5, <1>6, <1>7, <1>8, <1>9, <1>10, <1>11 DEF PageActs

AllComplete == \A s \in Sockets : Complete(s)

LEMMA InitComplete == ViewInit => AllComplete
  <1> SUFFICES ASSUME ViewInit, NEW s \in Sockets PROVE Sound(Record(s), mic[s].take)
    BY DEF AllComplete, Complete
  <1>1. /\ session[s] = New /\ up[s] = <<>> /\ down[s] = <<>> /\ shown[s] = <<>>
        /\ mic[s].take = 1 /\ mic[s].n = 0
    BY DEF ViewInit, Init, NothingShown
  <1>2. Typed
    BY InitType, NothingShownTyped DEF ViewInit, Typed, ViewTypeOK, Screens, Sides, Connection
  <1>3. <<>> \o <<>> = <<>> /\ Len(<<>>) = 0
    BY EmptySeq, ConcatEmptySeq
  <1>4. Held(s) = <<>>
    BY <1>1, <1>3 DEF Held, New
  <1>5. AudioIn(up[s]) = <<>>
    <2>1. up[s] \in Seq(Messages) /\ ~Speaks(up[s])
      BY <1>1, <1>2, <1>3, SocketTypes DEF Typed, Speaks
    <2>2. QED
      BY <2>1, SilentAudio
  <1>6. AnswerAudio(down[s]) = <<>>
    <2>1. PICK a \in Seq(Sample) : a = AnswerAudio(down[s])
      BY <1>2, TrailTypes DEF Typed
    <2>2. down[s] \in Seq(Answers)
      BY <1>2, SocketTypes DEF Typed
    <2>3. ASSUME NEW i \in 1 .. Len(a) PROVE FALSE
      <3>1. PICK j \in 1 .. Len(down[s]) : TRUE
        BY <2>1, <2>2, <2>3, AnswerAudioFacts
      <3>2. QED
        BY <1>1, <1>3, <3>1
    <2>4. PICK n \in Nat : n = Len(a)
      BY <2>1
    <2>5. n # 0 => 1 \in 1 .. n
      BY <2>4
    <2>6. n = 0
      BY <2>3, <2>4, <2>5
    <2>7. a = <<>>
      BY <2>4, <2>6, EmptySeq
    <2>8. QED
      BY <2>1, <2>7
  <1>7. Trail(s) = <<>>
    BY <1>3, <1>4, <1>5, <1>6 DEF Trail
  <1>8. PICK z \in Sample : z = Coming(s) /\ z[2] = 1
    <2>1. Coming(s) \in Sample
      BY <1>2, TrailTypes DEF Typed
    <2>2. Coming(s)[2] = 1
      BY <1>1 DEF Coming
    <2>3. QED
      BY <2>1, <2>2
  <1>9. Record(s) = Append(<<>>, z)
    BY <1>1, <1>3, <1>7, <1>8 DEF Record
  <1>10. PICK e \in Seq(Sample) : e = <<>>
    BY EmptySeq
  <1>11. Append(e, z)[1] = z
    BY <1>10, AppendOne
  <1>12. Chain(e)
    BY <1>3, <1>10 DEF Chain
  <1>13. Chain(Append(e, z))
    BY <1>10, <1>12, ChainNext
  <1>14. QED
    BY <1>8, <1>9, <1>10, <1>11, <1>13 DEF Sound

LEMMA AllCompleteStep ==
  ASSUME Typed, Typed', PageInv, PageStory, AllComplete, [ViewNext]_viewVars
  PROVE  AllComplete'
  <1>1. StoppingFinal /\ \A s \in Sockets : Story(s) /\ Unheard(s) /\ Matched(s)
    BY DEF PageStory
  <1>2. ASSUME NEW s \in Sockets
        PROVE  Complete(s)'
    <2>1. PageActs(s)
      BY OneOfThese
    <2>2. ReadyOnward(s)
      BY <1>1, StepOnward
    <2>3. QED
      BY <1>1, <2>1, <2>2, CompleteStep DEF AllComplete
  <1>3. QED
    BY <1>2 DEF AllComplete

-----------------------------------------------------------------------------
(* The confirmation finds everything on the page.                          *)

\* A record of one take is all of it.
LEMMA AllOfTake ==
  ASSUME NEW b \in Nat, NEW k \in Nat, NEW q \in Seq(Sample), TakesOf(q, b),
         Sound(Append(q, <<b, k + 1>>), b)
  PROVE  q = [i \in 1 .. k |-> <<b, i>>]
  <1>1. PICK n \in Nat : n = Len(q)
    OBVIOUS
  <1>2. PICK z \in Sample : z = <<b, k + 1>>
    <2>1. k + 1 \in Nat
      OBVIOUS
    <2>2. QED
      BY <2>1 DEF Sample
  <1>3. PICK r \in Seq(Sample) : r = Append(q, z)
    BY AppendProperties
  <1>4. /\ Len(r) = n + 1 /\ r[n + 1] = z
        /\ \A i \in 1 .. n : r[i] = q[i]
        /\ \A i \in 1 .. n + 1 : i \in 1 .. n \/ i = n + 1
    BY <1>1, <1>3
  <1>5. \A i \in 1 .. n + 1 : r[i][1] = b /\ r[i][2] \in Nat
    <2>1. ASSUME NEW i \in 1 .. n + 1 PROVE r[i][1] = b /\ r[i][2] \in Nat
      <3>1. r[i] \in Sample
        BY <1>4
      <3>2. CASE i \in 1 .. n
        BY <1>1, <1>4, <3>1, <3>2, SampleParts DEF TakesOf
      <3>3. CASE i = n + 1
        BY <1>2, <1>4, <3>1, <3>3, SampleParts
      <3>4. QED
        BY <1>4, <3>2, <3>3
    <2>2. QED
      BY <2>1
  <1>6. Sound(r, b)
    BY <1>2, <1>3
  <1>7. 1 \in 1 .. n + 1 /\ r[1][2] = 1
    <2>1. 1 \in 1 .. n + 1
      OBVIOUS
    <2>2. QED
      BY <1>5, <1>6, <2>1 DEF Sound
  <1>8. ASSUME NEW i \in 1 .. n
        PROVE  r[i + 1][2] = r[i][2] + 1
    <2>1. i \in 1 .. Len(r) - 1 /\ i \in 1 .. n + 1 /\ i + 1 \in 1 .. n + 1
      BY <1>4
    <2>2. Follows(r[i], r[i + 1])
      BY <1>6, <2>1 DEF Sound, Chain
    <2>3. r[i][1] = b /\ r[i + 1][1] = b
      BY <1>5, <2>1
    <2>4. QED
      BY <2>2, <2>3 DEF Follows
  <1>9. \A i \in 1 .. n + 1 : r[i][2] = i
    <2> DEFINE T == {i \in Nat : i \in 1 .. n + 1 /\ r[i][2] # i}
    <2>1. SUFFICES ASSUME NEW i \in T PROVE FALSE
      OBVIOUS
    <2>2. T \in SUBSET Nat
      OBVIOUS
    <2>3. PICK m \in T : \A j \in T : m <= j
      BY <2>2, Least
    <2>4. m \in Nat /\ m \in 1 .. n + 1 /\ r[m][2] # m
      BY <2>3
    <2>5. m # 1
      BY <1>7, <2>4
    <2>6. m - 1 \in Nat /\ m - 1 \in 1 .. n /\ m - 1 \in 1 .. n + 1 /\ ~(m <= m - 1) /\ (m - 1) + 1 = m
      BY <2>4, <2>5
    <2>7. m - 1 \notin T
      BY <2>3, <2>6
    <2>8. r[m - 1][2] = m - 1
      BY <2>6, <2>7
    <2>9. r[m][2] = (m - 1) + 1
      <3>1. r[(m - 1) + 1][2] = r[m - 1][2] + 1
        BY <1>8, <2>6
      <3>2. QED
        BY <2>6, <2>8, <3>1
    <2>10. QED
      BY <2>4, <2>6, <2>9
  <1>10. n = k
    <2>1. n + 1 \in 1 .. n + 1 /\ z[2] = k + 1
      BY <1>2
    <2>2. z[2] = n + 1
      BY <1>4, <1>9, <2>1
    <2>3. QED
      BY <2>1, <2>2
  <1>11. ASSUME NEW i \in 1 .. n
         PROVE  q[i] = <<b, i>>
    <2>1. i \in 1 .. n + 1 /\ q[i] \in Sample
      BY <1>1
    <2>2. q[i][1] = b /\ q[i][2] = i
      BY <1>4, <1>5, <1>9, <2>1
    <2>3. q[i] = <<q[i][1], q[i][2]>>
      BY <2>1 DEF Sample
    <2>4. QED
      BY <2>2, <2>3
  <1> DEFINE w == [i \in 1 .. k |-> <<b, i>>]
  <1>12. w \in Seq(Sample) /\ Len(w) = k /\ \A i \in 1 .. k : w[i] = <<b, i>>
    <2>1. \A i \in 1 .. k : <<b, i>> \in Sample
      BY DEF Sample
    <2>2. w \in [1 .. k -> Sample]
      BY <2>1
    <2>3. w \in Seq(Sample)
      BY <2>2, SeqDef
    <2>4. QED
      BY <2>2, <2>3, LenProperties
  <1> HIDE DEF w
  <1>13. q = w
    BY <1>1, <1>10, <1>11, <1>12, SeqEqual
  <1>14. QED
    BY <1>13 DEF w

\* Only "closed" takes the page from finalizing to idle.
LEMMA IdleByClosed ==
  ASSUME [ViewNext]_viewVars, screen = "stopping", screen' = "idle"
  PROVE  \E s \in Sockets : OnMessage(s) /\ OnClosed(s)
  <1>1. ~(screen' = screen)
    OBVIOUS
  <1>2. ~User
    BY <1>1 DEF User, Start, Stop, ClearPage, Leave, Open
  <1>3. ~TimesOut
    BY <1>1 DEF TimesOut
  <1>4. ASSUME NEW s \in Sockets, OnClose(s)
        PROVE  FALSE
    BY <1>1, <1>4 DEF OnClose
  <1>5. ASSUME NEW s \in Sockets, Browser(s), ~(OnMessage(s) /\ OnClosed(s))
        PROVE  FALSE
    <2>1. CASE Established(s) \/ Closing(s)
      BY <1>1, <2>1 DEF Established, Closing
    <2>2. CASE Granted(s) \/ Denied(s)
      BY <1>1, <2>2 DEF Granted, Denied
    <2>3. CASE OnMessage(s)
      BY <1>1, <1>5, <2>3 DEF OnMessage, OnReady, OnTranscript, OnCleared, OnError
    <2>4. CASE Closed(s) \/ Failed(s)
      BY <1>4, <2>4 DEF Closed, Failed
    <2>5. CASE \E k \in 1 .. MaxSpoken : Capture(s, k)
      BY <1>1, <2>5 DEF Capture, page
    <2>6. QED
      BY <1>5, <2>1, <2>2, <2>3, <2>4, <2>5 DEF Browser
  <1>6. ASSUME NEW s \in Sockets, Server(s) \/ NetworkFails(s)
        PROVE  FALSE
    BY <1>1, <1>6 DEF Server, NetworkFails, page
  <1>7. QED
    BY <1>1, <1>2, <1>3, <1>5, <1>6 DEF ViewNext, viewVars

LEMMA ConfirmedStep ==
  ASSUME Typed, PageStory, AllComplete, [ViewNext]_viewVars, screen = "stopping", screen' = "idle"
  PROVE  Confirmed
  <1>1. PICK s \in Sockets : OnMessage(s) /\ OnClosed(s)
    BY IdleByClosed
  <1>2. /\ current = s /\ ready[s] = "open" /\ shown' = shown
        /\ down[s] # <<>> /\ Head(down[s]).type = "closed"
    BY <1>1 DEF OnMessage, OnClosed, IsCurrent, Arrived
  <1>3. /\ Story(s) /\ Matched(s) /\ Complete(s)
    BY DEF PageStory, AllComplete
  <1>4. TypeOK /\ down[s] \in Seq(Answers) /\ up[s] \in Seq(Messages)
    BY SocketTypes DEF Typed
  <1>5. PICK n \in Nat : n = Len(down[s])
    BY <1>4
  <1>6. 1 \in 1 .. n /\ down[s][1].type = "closed" /\ Has(down[s], "closed")
    <2>1. 1 \in 1 .. n /\ Head(down[s]) = down[s][1]
      BY <1>2, <1>4, <1>5
    <2>2. QED
      BY <1>2, <1>5, <2>1 DEF Has
  <1>7. \A j \in 1 .. n : down[s][j].type \in {"closed", "bye", "lost"} /\ down[s][j].samples = <<>>
    <2>1. ASSUME NEW j \in 1 .. n
          PROVE  down[s][j].type \in {"closed", "bye", "lost"} /\ down[s][j].samples = <<>>
      <3>1. j = 1 \/ j \in 1 + 1 .. n
        OBVIOUS
      <3>2. down[s][j].type \in {"closed", "bye", "lost"}
        BY <1>3, <1>5, <1>6, <3>1 DEF Story, LastWords
      <3>3. QED
        BY <1>3, <1>5, <3>2 DEF Story, Worded
    <2>2. QED
      BY <2>1
  <1>8. AnswerAudio(down[s]) = <<>>
    <2>1. PICK a \in Seq(Sample) : a = AnswerAudio(down[s])
      BY <1>4, TrailTypes
    <2>2. ASSUME NEW i \in 1 .. Len(a) PROVE FALSE
      <3>1. PICK j \in 1 .. n : \E k \in 1 .. Len(down[s][j].samples) : TRUE
        BY <1>4, <1>5, <2>1, <2>2, AnswerAudioFacts
      <3>2. Len(<<>>) = 0
        BY EmptySeq
      <3>3. QED
        BY <1>7, <3>1, <3>2
    <2>3. PICK m \in Nat : m = Len(a)
      BY <2>1
    <2>4. m # 0 => 1 \in 1 .. m
      BY <2>3
    <2>5. m = 0
      BY <2>2, <2>3, <2>4
    <2>6. a = <<>>
      BY <2>3, <2>5, EmptySeq
    <2>7. QED
      BY <2>1, <2>6
  <1>9. <<>> \o <<>> = <<>>
    BY EmptySeq, ConcatEmptySeq
  <1>10. Held(s) = <<>>
    <2>1. session[s].state = "ended"
      BY <1>3, <1>5, <1>6 DEF Story, LastWords
    <2>2. QED
      BY <1>3, <1>9, <2>1 DEF Story, Quiet, Held
  <1>11. ~Speaks(up[s]) /\ AudioIn(up[s]) = <<>>
    <2>1. ~Speaks(up[s])
      BY <1>3, <1>6 DEF Story, Ordered
    <2>2. QED
      BY <1>4, <2>1, SilentAudio
  <1>12. Trail(s) = <<>>
    BY <1>8, <1>9, <1>10, <1>11 DEF Trail
  <1>13. PICK q \in Seq(Sample) : q = shown[s]
    BY RecordTypes
  <1>14. TakesOf(q, mic[s].take)
    <2>1. ~Has(up[s], "clear") /\ ~Has(down[s], "cleared")
      BY <1>5, <1>7, <1>11 DEF Has, Speaks
    <2>2. PICK t, e : Matching(s, t, e)
      BY <1>3, <1>6 DEF Matched, Alive
    <2>3. t[0] = mic[s].take
      BY <1>4, <2>1, <2>2, PaceFlat DEF Matching
    <2>4. 0 \in 0 .. n /\ Tells(down[s], e) /\ \A j \in 0 + 1 .. n : down[s][j].type # "cleared"
      BY <1>5, <2>1, <2>2 DEF Matching, Has
    <2>5. e[0] = e[n]
      BY <1>5, <2>4, TellsFlat
    <2>6. QED
      BY <1>5, <1>13, <2>2, <2>3, <2>5 DEF Matching
  <1>15. Sound(Append(q, Coming(s)), mic[s].take)
    <2>1. Sound(Record(s), mic[s].take)
      BY <1>2, <1>3, <1>6 DEF Complete, Alive, Over
    <2>2. q \o <<>> = q
      BY ConcatEmptySeq
    <2>3. QED
      BY <1>12, <1>13, <2>1, <2>2 DEF Record
  <1>16. q = [i \in 1 .. mic[s].n |-> <<mic[s].take, i>>]
    <2>1. PICK b \in Nat, k \in Nat : b = mic[s].take /\ k = mic[s].n
      BY <1>4, SocketTypes
    <2>2. Sound(Append(q, <<b, k + 1>>), b) /\ TakesOf(q, b)
      BY <1>14, <1>15, <2>1 DEF Coming
    <2>3. q = [i \in 1 .. k |-> <<b, i>>]
      BY <2>2, AllOfTake
    <2>4. QED
      BY <2>1, <2>3
  <1>17. QED
    BY <1>2, <1>13, <1>16 DEF Confirmed, WholeTake

\* stopSession() reaches "idle" only with every sample since the last clear transcribed and
\* on the page, in order: however many chunks, flushes and clears the session has seen.
THEOREM StopConfirmed == ViewSpec => StoppedIsConfirmed
  <1>1. ViewInit => AllComplete
    BY InitComplete
  <1>2. Typed /\ Typed' /\ PageInv /\ PageStory /\ AllComplete /\ [ViewNext]_viewVars => AllComplete'
    BY AllCompleteStep
  <1>3. Typed /\ PageStory /\ AllComplete /\ [ViewNext]_viewVars
          => [screen = "stopping" /\ screen' = "idle" => Confirmed]_viewVars
    BY ConfirmedStep
  <1>4. ViewSpec => []Typed
    BY AlwaysTyped
  <1>5. ViewSpec => []PageInv
    BY PageInvariant
  <1>6. ViewSpec => []PageStory
    BY AlwaysPageStory
  <1>7. QED
    BY <1>1, <1>2, <1>3, <1>4, <1>5, <1>6, PTL DEF ViewSpec, StoppedIsConfirmed

=============================================================================
