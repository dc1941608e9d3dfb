-------------------------- MODULE RealtimeSession --------------------------
(***************************************************************************)
(* The server's side of the realtime websocket (domains/realtime): one     *)
(* coroutine per socket that takes the client's messages in order, cuts    *)
(* the audio into chunks and answers each chunk with a transcript.  The    *)
(* client is any client: it may send whatever it likes.  RealtimeView puts *)
(* the Studio in its place.                                                *)
(*                                                                         *)
(* A sample is named by its place: <<take, n>> is the n-th sample sent     *)
(* after the (take - 1)-th "clear".  What was said, loudness and text are  *)
(* left out; a silent chunk is answered without the engine, any other may  *)
(* fail in it.                                                             *)
(***************************************************************************)
EXTENDS Naturals, SequencesExt

CONSTANTS
  Sockets,
  Durations,   \* the durations a configuration may name
  SampleCount, \* [Durations -> Nat]: _seconds_to_samples() at the model's sample rate
  Encodings,
  Settings,    \* the server's realtime settings: every session starts with them
  Candidates,  \* the configurations clients ask for
  MaxSpoken,   \* bound: samples per take
  MaxTakes,    \* bound: takes per socket
  MaxWaiting,  \* bound: messages on the way to the server
  MaxAnswers   \* bound: answers on the way to a client that asks for more

ASSUME DurationsAssumption == Durations \subseteq Nat
ASSUME SampleCountAssumption ==
  /\ SampleCount \in [Durations -> Nat \ {0}]
  /\ \A a, b \in Durations : a <= b => SampleCount[a] <= SampleCount[b]

Configs == [chunk : Durations, min : Durations, buffer : Durations, encoding : Encodings]

\* _validate(): a duration outside its own range is a malformed message here.
Valid(c) == c.chunk <= c.buffer /\ c.min <= c.buffer

ASSUME SettingsAssumption == Settings \in Configs /\ Valid(Settings)
ASSUME CandidatesAssumption == Candidates \subseteq Configs
ASSUME BoundsAssumption == {MaxSpoken, MaxTakes, MaxWaiting, MaxAnswers} \subseteq Nat

VARIABLES
  session,  \* [Sockets -> Session]: the coroutine and its RealtimeAsrSession
  up,       \* [Sockets -> Seq(Messages)]: on the way to the server
  down,     \* [Sockets -> Seq(Answers)]: on the way to the client
  gone,     \* sockets whose client has closed the connection, or lost it
  mic       \* [Sockets -> [take, n]]: what the client has sent so far

vars == <<session, up, down, gone, mic>>

Sample == Nat \X Nat

Replies == {"none", "flushed", "closed"}
Session ==
  [state : {"none", "asked", "open", "ended"}, config : Configs, buffer : Seq(Sample),
   due : Seq(Sample),   \* cut into chunks that are not answered yet ...
   piece : Nat,         \* ... of this many samples each
   reply : Replies,     \* what is sent when nothing is due any more
   sequence : Nat]

Plain == {"flush", "clear", "ping", "close", "malformed", "disconnect"}
Messages == [type : {"audio"}, samples : Seq(Sample)] \cup [type : {"config"}, config : Configs]
              \cup [type : Plain]

Spoken  == {"accepted", "ready", "configured", "transcript", "flushed", "cleared", "pong",
            "closed", "error"}
Answers == [type : Spoken \cup {"bye", "refused", "lost"}, sequence : Nat, samples : Seq(Sample)]

Answer(t) == [type |-> t, sequence |-> 0, samples |-> <<>>]

\* Python's q[:n] and q[n:].
FirstOf(q, n) == SubSeq(q, 1, IF n < Len(q) THEN n ELSE Len(q))
After(q, n)   == SubSeq(q, n + 1, Len(q))

New == [state |-> "none", config |-> Settings, buffer |-> <<>>, due |-> <<>>, piece |-> 1,
        reply |-> "none", sequence |-> 0]

Init == /\ session = [s \in Sockets |-> New]
        /\ up = [s \in Sockets |-> <<>>]
        /\ down = [s \in Sockets |-> <<>>]
        /\ gone = {}
        /\ mic = [s \in Sockets |-> [take |-> 1, n |-> 0]]

-----------------------------------------------------------------------------
(* What the messages do to the session.  A definition named after another  *)
(* with an ending that says what is wrong is its mutated form.             *)

ConfigFitsAnyAudio(x, c) == Valid(c) /\ c.buffer <= Settings.buffer

\* apply_config() validates the candidate as a whole before it sets anything.
ConfigFits(x, c) == /\ Valid(c)
                    /\ c.buffer <= Settings.buffer
                    /\ x.buffer = <<>> \/ c.encoding = x.config.encoding
                    /\ Len(x.buffer) <= SampleCount[c.buffer]

FrameFits(x, samples) == Len(samples) <= SampleCount[x.config.buffer]

AppendedWithoutRest(x, samples) ==
  LET all  == x.buffer \o samples
      size == SampleCount[x.config.chunk]
  IN  [x EXCEPT !.due = FirstOf(all, Len(all) - (Len(all) % size)), !.piece = size, !.buffer = <<>>]

\* append_binary(): whole chunks leave the buffer, the remainder stays.
Appended(x, samples) ==
  LET all  == x.buffer \o samples
      size == SampleCount[x.config.chunk]
      kept == Len(all) % size
  IN  IF samples = <<>> THEN x
      ELSE [x EXCEPT !.buffer = After(all, Len(all) - kept),
                     !.due = FirstOf(all, Len(all) - kept), !.piece = size]

FlushedUnlessShort(x, reply) ==
  IF Len(x.buffer) < SampleCount[x.config.min] THEN [x EXCEPT !.reply = reply]
  ELSE [x EXCEPT !.buffer = <<>>, !.due = x.buffer, !.piece = Len(x.buffer), !.reply = reply]

\* _flush(), always with force: the whole buffer is one chunk, however short.
Flushed(x, reply) == [x EXCEPT !.buffer = <<>>, !.due = x.buffer, !.piece = Len(x.buffer),
                               !.reply = reply]

ClearedNothing(x) == x
Cleared(x) == [x EXCEPT !.buffer = <<>>]

\* The first chunk of those due is answered.
Answered(x) == [x EXCEPT !.due = After(@, x.piece), !.sequence = @ + 1]

RepliedKeepsOpen(x) == [x EXCEPT !.reply = "none"]

\* "flushed" or "closed" is said; after "closed" the handler returns.
Replied(x) == [x EXCEPT !.reply = "none", !.state = IF x.reply = "closed" THEN "ended" ELSE @]

-----------------------------------------------------------------------------
\* The coroutine of socket s.

\* Nothing reaches a client that has gone.
Say(s, answers) == down' = IF s \in gone THEN down ELSE [down EXCEPT ![s] = @ \o answers]

Becomes(s, x) == session' = [session EXCEPT ![s] = x]
\* The handler returns, and its session with it.
Ends(s) == Becomes(s, [New EXCEPT !.state = "ended"])

\* The answer to an accepted request, with the session's settings.
Ready(s) == /\ session[s].state = "asked"
            /\ Becomes(s, [session[s] EXCEPT !.state = "open"])
            /\ Say(s, <<Answer("accepted"), Answer("ready")>>)
            /\ UNCHANGED <<up, gone, mic>>

\* No valid credentials: closed before it is accepted.
Refuse(s) == /\ session[s].state = "asked"
             /\ Ends(s)
             /\ Say(s, <<Answer("refused")>>)
             /\ UNCHANGED <<up, gone, mic>>

\* Disabled, an unknown language, or no model for it.
CannotServe(s) == /\ session[s].state = "asked"
                  /\ Ends(s)
                  /\ Say(s, <<Answer("accepted"), Answer("error"), Answer("bye")>>)
                  /\ UNCHANGED <<up, gone, mic>>

\* The handler is still at the chunks and the reply of the message it took last.
Busy(x) == x.due # <<>> \/ x.reply # "none"

\* The handler takes the next message, of type t.
Takes(s, t) == /\ session[s].state = "open"
               /\ ~Busy(session[s])
               /\ up[s] # <<>>
               /\ Head(up[s]).type = t
               /\ up' = [up EXCEPT ![s] = Tail(@)]
               /\ UNCHANGED <<gone, mic>>

Hear(s) == /\ Takes(s, "audio")
           /\ FrameFits(session[s], Head(up[s]).samples)
           /\ Becomes(s, Appended(session[s], Head(up[s]).samples))
           /\ UNCHANGED down

Configure(s) == /\ Takes(s, "config")
                /\ ConfigFits(session[s], Head(up[s]).config)
                /\ Becomes(s, [session[s] EXCEPT !.config = Head(up[s]).config])
                /\ Say(s, <<Answer("configured")>>)

\* The answer names what was done, not the request.
ReplyEchoed(t) == t
ReplyTo(t) == IF t = "flush" THEN "flushed" ELSE "closed"

\* Both flush with force and reply when the chunk is answered.
Flush(s) == /\ \E t \in {"flush", "close"} : Takes(s, t) /\ Becomes(s, Flushed(session[s], ReplyTo(t)))
            /\ UNCHANGED down

Clear(s) == /\ Takes(s, "clear")
            /\ Becomes(s, Cleared(session[s]))
            /\ Say(s, <<Answer("cleared")>>)

Ping(s) == /\ Takes(s, "ping")
           /\ Say(s, <<Answer("pong")>>)
           /\ UNCHANGED session

\* RealtimeProtocolError: the message is refused and the connection with it.
Reject(s) == /\ \/ Takes(s, "malformed")
                \/ Takes(s, "audio") /\ ~FrameFits(session[s], Head(up[s]).samples)
                \/ Takes(s, "config") /\ ~ConfigFits(session[s], Head(up[s]).config)
             /\ Ends(s)
             /\ Say(s, <<Answer("error"), Answer("bye")>>)

Disconnect(s) == /\ Takes(s, "disconnect")
                 /\ Ends(s)
                 /\ UNCHANGED down

\* _send_transcript(): the engine's answer, or "skipped" for a silent chunk.
Transcribe(s) ==
  /\ session[s].state = "open" /\ session[s].due # <<>>
  /\ Becomes(s, Answered(session[s]))
  /\ Say(s, <<[type |-> "transcript", sequence |-> Answered(session[s]).sequence,
               samples |-> FirstOf(session[s].due, session[s].piece)]>>)
  /\ UNCHANGED <<up, gone, mic>>

\* The engine raises.  A VVoiceError is told the client; any other exception leaves
\* the handler and the web server closes the socket.
EngineFails(s) ==
  /\ session[s].state = "open" /\ session[s].due # <<>>
  /\ Ends(s)
  /\ \/ Say(s, <<Answer("error"), Answer("bye")>>)
     \/ Say(s, <<Answer("bye")>>)
  /\ UNCHANGED <<up, gone, mic>>

Reply(s) ==
  /\ session[s].state = "open" /\ session[s].due = <<>> /\ session[s].reply # "none"
  /\ Becomes(s, Replied(session[s]))
  /\ Say(s, <<Answer(session[s].reply)>>
              \o (IF session[s].reply = "closed" THEN <<Answer("bye")>> ELSE <<>>))
  /\ UNCHANGED <<up, gone, mic>>

\* A send to a client that has gone raises WebSocketDisconnect.
SendFails(s) ==
  /\ s \in gone
  /\ \/ session[s].state = "asked"
     \/ session[s].state = "open" /\ Busy(session[s])
  /\ Ends(s)
  /\ UNCHANGED <<up, down, gone, mic>>

\* The web server shuts down and closes its sockets.
ServerCloses(s) ==
  /\ session[s].state = "open"
  /\ Ends(s)
  /\ Say(s, <<Answer("bye")>>)
  /\ UNCHANGED <<up, gone, mic>>

Receive(s) == Hear(s) \/ Configure(s) \/ Flush(s) \/ Clear(s) \/ Ping(s) \/ Reject(s) \/ Disconnect(s)

Serve(s) == \/ Ready(s) \/ Refuse(s) \/ CannotServe(s)
            \/ Receive(s)
            \/ Transcribe(s) \/ EngineFails(s) \/ Reply(s) \/ SendFails(s)

-----------------------------------------------------------------------------
\* The other end of the connection.

Ask(s) == /\ session[s].state = "none"
          /\ Becomes(s, [session[s] EXCEPT !.state = "asked"])
          /\ UNCHANGED <<up, down, gone, mic>>

Room(s) == Len(up[s]) < MaxWaiting /\ Len(down[s]) < MaxAnswers

\* A client may send once the socket is accepted.
Connected(s) == s \notin gone /\ down[s] # <<>> /\ session[s].state # "none"

\* What is sent after the connection broke is lost.
Sent(s, m) == up' = IF s \in gone THEN up ELSE [up EXCEPT ![s] = Append(@, m)]

\* The next k samples of the take, as one binary frame.
Speech(s, k) == [i \in 1 .. k |-> <<mic[s].take, mic[s].n + i>>]

Speak(s, k) == /\ Room(s) /\ mic[s].n + k <= MaxSpoken
               /\ Sent(s, [type |-> "audio", samples |-> Speech(s, k)])
               /\ mic' = [mic EXCEPT ![s].n = @ + k]
               /\ UNCHANGED <<session, down, gone>>

Request(s, t) == /\ Room(s)
                 /\ Sent(s, [type |-> t])
                 /\ UNCHANGED <<session, down, gone, mic>>

AskToConfigure(s, c) == /\ Room(s)
                        /\ Sent(s, [type |-> "config", config |-> c])
                        /\ UNCHANGED <<session, down, gone, mic>>

\* "clear": what is sent after it is a new take.
AskToClear(s) == /\ Room(s) /\ mic[s].take < MaxTakes
                 /\ Sent(s, [type |-> "clear"])
                 /\ mic' = [mic EXCEPT ![s] = [take |-> @.take + 1, n |-> 0]]
                 /\ UNCHANGED <<session, down, gone>>

\* The client closes: the messages it has sent arrive, then the disconnect.
HangUp(s) == /\ gone' = gone \cup {s}
             /\ Sent(s, [type |-> "disconnect"])

\* The connection breaks: the last messages of either side may be lost with it.
Break(s) == /\ s \notin gone
            /\ gone' = gone \cup {s}
            /\ \E i \in 0 .. Len(up[s]) :
                 up' = [up EXCEPT ![s] = Append(SubSeq(@, 1, i), [type |-> "disconnect"])]

Client(s) ==
  /\ Connected(s)
  /\ \/ \E k \in 0 .. MaxSpoken : Speak(s, k)
     \/ \E t \in {"flush", "ping", "close", "malformed"} : Request(s, t)
     \/ \E c \in Candidates : AskToConfigure(s, c)
     \/ AskToClear(s)
     \/ (HangUp(s) \/ Break(s)) /\ UNCHANGED <<session, down, mic>>

Next == \E s \in Sockets : Ask(s) \/ Client(s) \/ Serve(s) \/ ServerCloses(s)

Spec == Init /\ [][Next]_vars

\* The coroutine is scheduled, and a call of the engine returns or raises.
FairSpec == Spec /\ \A s \in Sockets : WF_vars(Serve(s))

-----------------------------------------------------------------------------
\* Properties.

\* Type invariant.
TypeOK == /\ session \in [Sockets -> Session]
          /\ up \in [Sockets -> Seq(Messages)]
          /\ down \in [Sockets -> Seq(Answers)]
          /\ gone \subseteq Sockets
          /\ mic \in [Sockets -> [take : Nat, n : Nat]]

Largest == SampleCount[Settings.buffer]

\* However a client configures its session, between messages and while it is being
\* answered: the retained audio is within the configured buffer, that buffer is within
\* the server's own limit, and the session holds at most one frame more (apply_config,
\* append_binary).
BufferBound == \A s \in Sockets :
  LET x == session[s] IN
  /\ Valid(x.config) /\ x.config.buffer <= Settings.buffer
  /\ Len(x.buffer) <= SampleCount[x.config.buffer]
  /\ Len(x.buffer) + Len(x.due) <= 2 * Largest

\* The samples of socket s on their way: answered, due, retained, and still to arrive.
AudioIn(q) == FlattenSeq([i \in 1 .. Len(q) |-> IF q[i].type = "audio" THEN q[i].samples ELSE <<>>])
AnswerAudio(q) == FlattenSeq([i \in 1 .. Len(q) |-> q[i].samples])
Held(s)  == session[s].due \o session[s].buffer
Trail(s) == AnswerAudio(down[s]) \o Held(s) \o AudioIn(up[s])

\* b may come right after a: the next sample, or the first one of a later take.
Follows(a, b) == \/ b[1] = a[1] /\ b[2] = a[2] + 1
                 \/ b[1] > a[1] /\ b[2] = 1

\* No sample is lost, repeated or moved between the client and its transcripts, over
\* chunk boundaries, flushes and reconfiguration: only what was said before a "clear"
\* may be missing.
NoSampleLost == \A s \in Sockets \ gone : session[s].state = "open" =>
  \A i \in 1 .. Len(Trail(s)) - 1 : Follows(Trail(s)[i], Trail(s)[i + 1])

\* After the answer to the k-th "clear" no transcript has audio from before it.
ClearsAnswered(q, i) == Cardinality({h \in 1 .. i : q[h].type = "cleared"})
ClearForgets == \A s \in Sockets :
  \A i, j \in 1 .. Len(down[s]) :
    i < j /\ down[s][i].type = "cleared" =>
      \A k \in 1 .. Len(down[s][j].samples) :
        down[s][j].samples[k][1] > ClearsAnswered(down[s], i)

\* "closed" confirms: all audio received before it is answered, and nothing is said after.
ClosedIsLast == \A s \in Sockets : \A i \in 1 .. Len(down[s]) :
  down[s][i].type = "closed" =>
    /\ Held(s) = <<>>
    /\ \A j \in i + 1 .. Len(down[s]) : down[s][j].type = "bye"

\* A client that asks to close is answered: the session ends, whatever is queued before.
CloseEnds == \A s \in Sockets :
  (\E i \in 1 .. Len(up[s]) : up[s][i].type = "close") ~> (session[s].state = "ended")

=============================================================================
