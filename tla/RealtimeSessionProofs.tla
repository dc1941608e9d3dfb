----------------------- MODULE RealtimeSessionProofs -----------------------
(***************************************************************************)
(* Theorems about RealtimeSession, for any number of sockets, any server   *)
(* settings, any requests of clients and any monotone conversion of        *)
(* seconds to samples.                                                     *)
(***************************************************************************)
EXTENDS RealtimeSession, SequenceTheorems, FiniteSetTheorems,
        WellFoundedInduction, TLAPS

-----------------------------------------------------------------------------
\* Slices.

LEMMA FirstOfFacts ==
  ASSUME NEW S, NEW q \in Seq(S), NEW n \in Nat
  PROVE  FirstOf(q, n) \in Seq(S) /\ Len(FirstOf(q, n)) = IF n < Len(q) THEN n ELSE Len(q)
  <1>1. Len(q) \in Nat
    BY LenProperties
  <1> DEFINE m == IF n < Len(q) THEN n ELSE Len(q)
  <1>2. m \in Nat /\ m <= Len(q)
    BY <1>1
  <1>3. \A i \in 1 .. m : q[i] \in S
    BY <1>1, <1>2, ElementOfSeq
  <1> HIDE DEF m
  <1>4. SubSeq(q, 1, m) \in Seq(S) /\ Len(SubSeq(q, 1, m)) = IF 1 <= m THEN m - 1 + 1 ELSE 0
    BY <1>2, <1>3, SubSeqProperties
  <1>5. Len(SubSeq(q, 1, m)) = m
    BY <1>2, <1>4
  <1>6. QED
    BY <1>4, <1>5 DEF FirstOf, m

LEMMA AfterFacts ==
  ASSUME NEW S, NEW q \in Seq(S), NEW n \in Nat
  PROVE  After(q, n) \in Seq(S) /\ Len(After(q, n)) = IF n < Len(q) THEN Len(q) - n ELSE 0
  <1>1. Len(q) \in Nat
    BY LenProperties
  <1>2. \A i \in n + 1 .. Len(q) : q[i] \in S
    BY <1>1, ElementOfSeq
  <1>3. /\ SubSeq(q, n + 1, Len(q)) \in Seq(S)
        /\ Len(SubSeq(q, n + 1, Len(q))) = IF n + 1 <= Len(q) THEN Len(q) - (n + 1) + 1 ELSE 0
    BY <1>1, <1>2, SubSeqProperties
  <1>4. QED
    BY <1>1, <1>3 DEF After

LEMMA Remainder ==
  ASSUME NEW a \in Nat, NEW b \in Nat \ {0}
  PROVE  a % b \in Nat /\ a % b < b /\ a % b <= a
  OBVIOUS

-----------------------------------------------------------------------------
\* What a message does to a session.

LEMMA LargestFacts ==
  ASSUME NEW c \in Configs, Valid(c), c.buffer <= Settings.buffer
  PROVE  /\ SampleCount[c.chunk] \in Nat \ {0}
         /\ SampleCount[c.chunk] <= SampleCount[c.buffer]
         /\ SampleCount[c.buffer] \in Nat
         /\ Largest \in Nat
         /\ SampleCount[c.buffer] <= Largest
  BY SampleCountAssumption, SettingsAssumption DEF Configs, Valid, Largest

LEMMA NewSession == New \in Session
  BY SettingsAssumption, EmptySeq DEF New, Session, Replies

LEMMA AppendedFacts ==
  ASSUME NEW x \in Session, NEW q \in Seq(Sample), q # <<>>, x.due = <<>>
  PROVE  /\ Appended(x, q) \in Session
         /\ Appended(x, q).config = x.config
         /\ Len(Appended(x, q).buffer) < SampleCount[x.config.chunk]
         /\ Len(Appended(x, q).buffer) + Len(Appended(x, q).due) = Len(x.buffer) + Len(q)
  <1> DEFINE all  == x.buffer \o q
             size == SampleCount[x.config.chunk]
             kept == Len(all) % size
             cut  == Len(all) - kept
  <1>1. all \in Seq(Sample) /\ Len(all) \in Nat /\ Len(all) = Len(x.buffer) + Len(q)
    BY ConcatProperties, LenProperties DEF Session
  <1>2. size \in Nat \ {0}
    BY SampleCountAssumption DEF Session, Configs
  <1> HIDE DEF all, size
  <1>3. kept \in Nat /\ kept < size /\ kept <= Len(all)
    BY <1>1, <1>2, Remainder
  <1> HIDE DEF kept
  <1>4. cut \in Nat /\ cut <= Len(all) /\ Len(all) - cut = kept
    BY <1>1, <1>3
  <1> HIDE DEF cut
  <1>5. After(all, cut) \in Seq(Sample) /\ Len(After(all, cut)) = kept
    <2>1. /\ After(all, cut) \in Seq(Sample)
          /\ Len(After(all, cut)) = IF cut < Len(all) THEN Len(all) - cut ELSE 0
      BY <1>1, <1>4, AfterFacts
    <2>2. (IF cut < Len(all) THEN Len(all) - cut ELSE 0) = kept
      BY <1>1, <1>3, <1>4
    <2>3. QED
      BY <2>1, <2>2
  <1>6. FirstOf(all, cut) \in Seq(Sample) /\ Len(FirstOf(all, cut)) = cut
    BY <1>1, <1>4, FirstOfFacts
  <1>7. Appended(x, q) = [x EXCEPT !.buffer = After(all, cut), !.due = FirstOf(all, cut), !.piece = size]
    BY DEF Appended, all, size, kept, cut
  <1>8. Appended(x, q) \in Session
    BY <1>2, <1>5, <1>6, <1>7 DEF Session
  <1>9. /\ Appended(x, q).config = x.config
        /\ Appended(x, q).buffer = After(all, cut)
        /\ Appended(x, q).due = FirstOf(all, cut)
    BY <1>7 DEF Session
  <1>10. kept + cut = Len(x.buffer) + Len(q)
    BY <1>1, <1>3, <1>4
  <1>11. QED
    BY <1>3, <1>5, <1>6, <1>8, <1>9, <1>10 DEF size

LEMMA AnsweredFacts ==
  ASSUME NEW x \in Session
  PROVE  /\ Answered(x) \in Session
         /\ Answered(x).config = x.config /\ Answered(x).buffer = x.buffer
         /\ Len(Answered(x).due) <= Len(x.due)
  <1>1. /\ After(x.due, x.piece) \in Seq(Sample)
        /\ Len(After(x.due, x.piece)) = IF x.piece < Len(x.due) THEN Len(x.due) - x.piece ELSE 0
    BY AfterFacts DEF Session
  <1>2. x.piece \in Nat /\ Len(x.due) \in Nat
    BY LenProperties DEF Session
  <1>3. Len(After(x.due, x.piece)) <= Len(x.due)
    BY <1>1, <1>2
  <1>4. x.sequence \in Nat
    BY DEF Session
  <1>5. x.sequence + 1 \in Nat
    BY <1>4
  <1> DEFINE rest == After(x.due, x.piece)
             next == x.sequence + 1
  <1>6. Answered(x) = [x EXCEPT !.due = rest, !.sequence = next]
    BY DEF Answered
  <1>7. rest \in Seq(Sample) /\ next \in Nat /\ Len(rest) <= Len(x.due)
    BY <1>1, <1>3, <1>5
  <1> HIDE DEF rest, next
  <1>8. [x EXCEPT !.due = rest, !.sequence = next] \in Session
    BY <1>7 DEF Session
  <1>9. /\ Answered(x).config = x.config /\ Answered(x).buffer = x.buffer
        /\ Answered(x).due = rest
    BY <1>6 DEF Session
  <1>10. QED
    BY <1>6, <1>7, <1>8, <1>9

LEMMA FlushedFacts ==
  ASSUME NEW x \in Session, NEW r \in Replies
  PROVE  /\ Flushed(x, r) \in Session
         /\ Flushed(x, r).config = x.config
         /\ Flushed(x, r).buffer = <<>> /\ Flushed(x, r).due = x.buffer
  BY EmptySeq, LenProperties DEF Flushed, Session, Replies

LEMMA ClearedFacts ==
  ASSUME NEW x \in Session
  PROVE  /\ Cleared(x) \in Session
         /\ Cleared(x).config = x.config /\ Cleared(x).buffer = <<>> /\ Cleared(x).due = x.due
  BY EmptySeq DEF Cleared, Session

LEMMA RepliedFacts ==
  ASSUME NEW x \in Session
  PROVE  /\ Replied(x) \in Session
         /\ Replied(x).config = x.config
         /\ Replied(x).buffer = x.buffer /\ Replied(x).due = x.due
  BY DEF Replied, Session, Replies

-----------------------------------------------------------------------------
\* One step of one session.

Moves(x, y) ==
  \/ y = x
  \/ \E t \in {"asked", "open"} : y = [x EXCEPT !.state = t]
  \/ y = [New EXCEPT !.state = "ended"]
  \/ x.due = <<>> /\ \E q \in Seq(Sample) : FrameFits(x, q) /\ y = Appended(x, q)
  \/ x.due = <<>> /\ \E c \in Configs : ConfigFits(x, c) /\ y = [x EXCEPT !.config = c]
  \/ x.due = <<>> /\ \E r \in Replies : y = Flushed(x, r)
  \/ y = Cleared(x)
  \/ y = Answered(x)
  \/ y = Replied(x)

\* The part of BufferBound that speaks of one session.
Bounded(x) ==
  /\ Valid(x.config) /\ x.config.buffer <= Settings.buffer
  /\ Len(x.buffer) <= SampleCount[x.config.buffer]
  /\ Len(x.buffer) + Len(x.due) <= 2 * Largest

LEMMA MovesType ==
  ASSUME NEW x \in Session, NEW y, Moves(x, y)
  PROVE  y \in Session
  <1>1. CASE \E t \in {"asked", "open"} : y = [x EXCEPT !.state = t]
    BY <1>1 DEF Session
  <1>2. CASE y = [New EXCEPT !.state = "ended"]
    BY <1>2, NewSession DEF Session
  <1>3. CASE x.due = <<>> /\ \E q \in Seq(Sample) : FrameFits(x, q) /\ y = Appended(x, q)
    <2>1. PICK q \in Seq(Sample) : y = Appended(x, q)
      BY <1>3
    <2>2. CASE q = <<>>
      BY <2>1, <2>2 DEF Appended
    <2>3. CASE q # <<>>
      BY <1>3, <2>1, <2>3, AppendedFacts
    <2>4. QED
      BY <2>2, <2>3
  <1>4. CASE \E c \in Configs : y = [x EXCEPT !.config = c]
    BY <1>4 DEF Session
  <1>5. CASE \E r \in Replies : y = Flushed(x, r)
    BY <1>5, FlushedFacts
  <1>6. CASE y = Cleared(x)
    BY <1>6, ClearedFacts
  <1>7. CASE y = Answered(x)
    BY <1>7, AnsweredFacts
  <1>8. CASE y = Replied(x)
    BY <1>8, RepliedFacts
  <1>9. QED
    BY <1>1, <1>2, <1>3, <1>4, <1>5, <1>6, <1>7, <1>8 DEF Moves

LEMMA MovesBounded ==
  ASSUME NEW x \in Session, NEW y, Moves(x, y), Bounded(x)
  PROVE  Bounded(y)
  <1> DEFINE size == SampleCount[x.config.chunk]
             room == SampleCount[x.config.buffer]
  <1>1. size \in Nat \ {0} /\ size <= room /\ room \in Nat /\ Largest \in Nat /\ room <= Largest
    BY LargestFacts DEF Bounded, Session
  <1>2. Len(x.buffer) \in Nat /\ Len(x.due) \in Nat
    BY LenProperties DEF Session
  <1>3. CASE \E t \in {"asked", "open"} : y = [x EXCEPT !.state = t]
    BY <1>3 DEF Session, Bounded
  <1>4. CASE y = [New EXCEPT !.state = "ended"]
    <2>1. y.config = Settings /\ y.buffer = <<>> /\ y.due = <<>>
      BY <1>4 DEF New
    <2>2. Valid(Settings) /\ Settings.buffer <= Settings.buffer
      <3>1. Settings.buffer \in Nat /\ Valid(Settings)
        BY SettingsAssumption, DurationsAssumption DEF Configs
      <3>2. Settings.buffer <= Settings.buffer
        BY <3>1
      <3>3. QED
        BY <3>1, <3>2
    <2>3. Len(y.buffer) = 0 /\ Len(y.due) = 0
      BY <2>1
    <2>4. Largest = SampleCount[y.config.buffer]
      BY <2>1 DEF Largest
    <2>5. QED
      BY <1>1, <2>1, <2>2, <2>3, <2>4 DEF Bounded
  <1>5. CASE x.due = <<>> /\ \E q \in Seq(Sample) : FrameFits(x, q) /\ y = Appended(x, q)
    <2>1. PICK q \in Seq(Sample) : FrameFits(x, q) /\ y = Appended(x, q)
      BY <1>5
    <2>2. CASE q = <<>>
      BY <2>1, <2>2 DEF Appended
    <2>3. CASE q # <<>>
      <3>1. /\ y.config = x.config
            /\ Len(y.buffer) < size
            /\ Len(y.buffer) + Len(y.due) = Len(x.buffer) + Len(q)
            /\ y \in Session
        BY <1>5, <2>1, <2>3, AppendedFacts
      <3>2. Len(q) \in Nat /\ Len(y.buffer) \in Nat
        BY <3>1, LenProperties DEF Session
      <3>3. Len(q) <= room /\ Len(x.buffer) <= room
        BY <2>1 DEF FrameFits, Bounded
      <3>4. Len(x.buffer) + Len(q) <= 2 * Largest
        BY <1>1, <1>2, <3>2, <3>3
      <3>5. Len(y.buffer) <= room
        BY <1>1, <3>1, <3>2
      <3>6. QED
        BY <3>1, <3>4, <3>5 DEF Bounded
    <2>4. QED
      BY <2>2, <2>3
  <1>6. CASE x.due = <<>> /\ \E c \in Configs : ConfigFits(x, c) /\ y = [x EXCEPT !.config = c]
    <2>1. PICK c \in Configs : ConfigFits(x, c) /\ y = [x EXCEPT !.config = c]
      BY <1>6
    <2>2. y.config = c /\ y.buffer = x.buffer /\ y.due = <<>>
      BY <1>6, <2>1 DEF Session
    <2>3. Valid(c) /\ c.buffer <= Settings.buffer /\ Len(x.buffer) <= SampleCount[c.buffer]
      BY <2>1 DEF ConfigFits
    <2>4. SampleCount[c.buffer] \in Nat /\ SampleCount[c.buffer] <= Largest
      BY <2>3, LargestFacts
    <2>5. Len(x.buffer) + 0 <= 2 * Largest
      BY <1>1, <1>2, <2>3, <2>4
    <2>6. Len(y.due) = 0
      BY <2>2
    <2>7. QED
      BY <2>2, <2>3, <2>5, <2>6 DEF Bounded
  <1>7. CASE x.due = <<>> /\ \E r \in Replies : y = Flushed(x, r)
    <2>1. y.config = x.config /\ y.buffer = <<>> /\ y.due = x.buffer
      BY <1>7, FlushedFacts
    <2>2. Len(y.buffer) = 0
      BY <2>1
    <2>3. 0 + Len(x.buffer) <= 2 * Largest /\ 0 <= room
      BY <1>1, <1>2 DEF Bounded
    <2>4. QED
      BY <2>1, <2>2, <2>3 DEF Bounded
  <1>8. CASE y = Cleared(x)
    <2>1. y.config = x.config /\ y.buffer = <<>> /\ y.due = x.due
      BY <1>8, ClearedFacts
    <2>2. Len(y.buffer) = 0
      BY <2>1
    <2>3. 0 + Len(x.due) <= 2 * Largest /\ 0 <= room
      <3>1. Len(x.buffer) + Len(x.due) <= 2 * Largest
        BY DEF Bounded
      <3> DEFINE held == Len(x.buffer)
                 due  == Len(x.due)
                 most == 2 * Largest
      <3>2. held \in Nat /\ due \in Nat
        BY <1>2
      <3>3. most \in Nat /\ 0 <= room
        BY <1>1
      <3>4. held + due <= most
        BY <3>1
      <3> HIDE DEF room, held, due, most
      <3>5. 0 + due <= most
        BY <3>2, <3>3, <3>4
      <3>6. QED
        BY <3>3, <3>5 DEF due, most
    <2>4. QED
      BY <2>1, <2>2, <2>3 DEF Bounded
  <1>9. CASE y = Answered(x)
    <2>1. y.config = x.config /\ y.buffer = x.buffer /\ Len(y.due) <= Len(x.due) /\ y \in Session
      BY <1>9, AnsweredFacts
    <2>2. Len(y.due) \in Nat
      BY <2>1, LenProperties DEF Session
    <2>3. Len(x.buffer) + Len(y.due) <= 2 * Largest
      <3>1. Len(x.buffer) + Len(x.due) <= 2 * Largest
        BY DEF Bounded
      <3> DEFINE held == Len(x.buffer)
                 due  == Len(x.due)
                 left == Len(y.due)
                 most == 2 * Largest
      <3>2. held \in Nat /\ due \in Nat /\ left \in Nat
        BY <1>2, <2>2
      <3>3. most \in Nat
        BY <1>1
      <3>4. held + due <= most
        BY <3>1
      <3>5. left <= due
        BY <2>1
      <3> HIDE DEF held, due, left, most
      <3>6. held + left <= most
        BY <3>2, <3>3, <3>4, <3>5
      <3>7. QED
        BY <3>6 DEF held, left, most
    <2>4. QED
      BY <2>1, <2>3 DEF Bounded
  <1>10. CASE y = Replied(x)
    BY <1>10, RepliedFacts DEF Bounded
  <1>11. QED
    BY <1>3, <1>4, <1>5, <1>6, <1>7, <1>8, <1>9, <1>10 DEF Moves

-----------------------------------------------------------------------------
\* What is on the way.

LEMMA AnswerType ==
  ASSUME NEW t \in Spoken \cup {"bye", "refused", "lost"}
  PROVE  Answer(t) \in Answers
  BY EmptySeq DEF Answer, Answers

LEMMA SayType ==
  ASSUME TypeOK, NEW s \in Sockets, NEW q \in Seq(Answers), Say(s, q)
  PROVE  down' \in [Sockets -> Seq(Answers)]
  <1>1. down \in [Sockets -> Seq(Answers)]
    BY DEF TypeOK
  <1>2. down[s] \o q \in Seq(Answers)
    BY <1>1, ConcatProperties
  <1>3. QED
    BY <1>1, <1>2 DEF Say

LEMMA SentType ==
  ASSUME TypeOK, NEW s \in Sockets, NEW m \in Messages, Sent(s, m)
  PROVE  up' \in [Sockets -> Seq(Messages)]
  <1>1. up \in [Sockets -> Seq(Messages)]
    BY DEF TypeOK
  <1>2. Append(up[s], m) \in Seq(Messages)
    BY <1>1, AppendProperties
  <1>3. QED
    BY <1>1, <1>2 DEF Sent

LEMMA TakesType ==
  ASSUME TypeOK, NEW s \in Sockets, NEW t, Takes(s, t)
  PROVE  /\ Head(up[s]) \in Messages
         /\ up' \in [Sockets -> Seq(Messages)]
         /\ gone' = gone /\ mic' = mic
         /\ session[s].due = <<>>
  <1>1. up[s] \in Seq(Messages) /\ up[s] # <<>>
    BY DEF Takes, TypeOK
  <1>2. Head(up[s]) \in Messages /\ Tail(up[s]) \in Seq(Messages)
    BY <1>1, HeadTailProperties
  <1>3. up' = [up EXCEPT ![s] = Tail(@)]
    BY DEF Takes
  <1>4. up' \in [Sockets -> Seq(Messages)]
    BY <1>2, <1>3 DEF TypeOK
  <1>5. gone' = gone /\ mic' = mic /\ session[s].due = <<>>
    BY DEF Takes, Busy
  <1>6. QED
    BY <1>2, <1>4, <1>5

LEMMA AudioMessage ==
  ASSUME NEW m \in Messages, m.type = "audio"
  PROVE  m.samples \in Seq(Sample)
  BY DEF Messages, Plain

LEMMA ConfigMessage ==
  ASSUME NEW m \in Messages, m.type = "config"
  PROVE  m.config \in Configs
  BY DEF Messages, Plain

-----------------------------------------------------------------------------
\* Every action moves at most one session, and keeps the rest of the state typed.

SessionStep == \/ session' = session
               \/ \E s \in Sockets : \E y : Becomes(s, y) /\ Moves(session[s], y)

Elsewhere == /\ up \in [Sockets -> Seq(Messages)]
             /\ down \in [Sockets -> Seq(Answers)]
             /\ gone \subseteq Sockets
             /\ mic \in [Sockets -> [take : Nat, n : Nat]]

LEMMA EndsMoves ==
  ASSUME NEW s \in Sockets, Ends(s)
  PROVE  SessionStep
  BY DEF Ends, SessionStep, Moves

LEMMA SayOne ==
  ASSUME TypeOK, NEW s \in Sockets, NEW t \in Spoken \cup {"bye", "refused", "lost"},
         Say(s, <<Answer(t)>>)
  PROVE  down' \in [Sockets -> Seq(Answers)]
  <1>1. <<Answer(t)>> \in Seq(Answers)
    BY AnswerType
  <1>2. QED
    BY <1>1, SayType

LEMMA SayThenBye ==
  ASSUME TypeOK, NEW s \in Sockets, NEW t \in Spoken,
         Say(s, <<Answer(t), Answer("bye")>>)
  PROVE  down' \in [Sockets -> Seq(Answers)]
  <1>1. Answer(t) \in Answers /\ Answer("bye") \in Answers
    BY AnswerType
  <1>2. <<Answer(t), Answer("bye")>> \in Seq(Answers)
    BY <1>1
  <1>3. QED
    BY <1>2, SayType

LEMMA ReceiveTyped ==
  ASSUME TypeOK, NEW s \in Sockets, Receive(s)
  PROVE  SessionStep /\ Elsewhere'
  <1> DEFINE x == session[s]
             m == Head(up[s])
  <1>1. CASE Hear(s)
    <2>1. Takes(s, "audio") /\ FrameFits(x, m.samples) /\ Becomes(s, Appended(x, m.samples))
      BY <1>1 DEF Hear
    <2>2. m \in Messages /\ m.type = "audio" /\ x.due = <<>>
      BY <2>1, TakesType DEF Takes
    <2>3. m.samples \in Seq(Sample)
      BY <2>2, AudioMessage
    <2>4. Moves(x, Appended(x, m.samples))
      BY <2>1, <2>2, <2>3 DEF Moves
    <2>5. SessionStep
      BY <2>1, <2>4 DEF SessionStep
    <2>6. down' = down
      BY <1>1 DEF Hear
    <2>7. QED
      BY <2>1, <2>5, <2>6, TakesType DEF Elsewhere, TypeOK
  <1>2. CASE Configure(s)
    <2>1. Takes(s, "config") /\ ConfigFits(x, m.config) /\ Becomes(s, [x EXCEPT !.config = m.config])
      BY <1>2 DEF Configure
    <2>2. m \in Messages /\ m.type = "config" /\ x.due = <<>>
      BY <2>1, TakesType DEF Takes
    <2>3. m.config \in Configs
      BY <2>2, ConfigMessage
    <2>4. Moves(x, [x EXCEPT !.config = m.config])
      BY <2>1, <2>2, <2>3 DEF Moves
    <2>5. SessionStep
      BY <2>1, <2>4 DEF SessionStep
    <2>6. down' \in [Sockets -> Seq(Answers)]
      BY <1>2, SayOne DEF Configure, Spoken
    <2>7. QED
      BY <2>1, <2>5, <2>6, TakesType DEF Elsewhere, TypeOK
  <1>3. CASE Flush(s)
    <2>1. PICK t \in {"flush", "close"} : Takes(s, t) /\ Becomes(s, Flushed(x, ReplyTo(t)))
      BY <1>3 DEF Flush
    <2>2. x.due = <<>> /\ ReplyTo(t) \in Replies
      BY <2>1, TakesType DEF ReplyTo, Replies
    <2>3. Moves(x, Flushed(x, ReplyTo(t)))
      BY <2>2 DEF Moves
    <2>4. SessionStep
      BY <2>1, <2>3 DEF SessionStep
    <2>5. down' = down
      BY <1>3 DEF Flush
    <2>6. QED
      BY <2>1, <2>4, <2>5, TakesType DEF Elsewhere, TypeOK
  <1>4. CASE Clear(s)
    <2>1. SessionStep
      BY <1>4 DEF Clear, SessionStep, Moves
    <2>2. down' \in [Sockets -> Seq(Answers)]
      BY <1>4, SayOne DEF Clear, Spoken
    <2>3. Takes(s, "clear")
      BY <1>4 DEF Clear
    <2>4. QED
      BY <2>1, <2>2, <2>3, TakesType DEF Elsewhere, TypeOK
  <1>5. CASE Ping(s)
    <2>1. SessionStep
      BY <1>5 DEF Ping, SessionStep
    <2>2. down' \in [Sockets -> Seq(Answers)]
      BY <1>5, SayOne DEF Ping, Spoken
    <2>3. Takes(s, "ping")
      BY <1>5 DEF Ping
    <2>4. QED
      BY <2>1, <2>2, <2>3, TakesType DEF Elsewhere, TypeOK
  <1>6. CASE Reject(s)
    <2>1. SessionStep
      BY <1>6, EndsMoves DEF Reject
    <2>2. down' \in [Sockets -> Seq(Answers)]
      BY <1>6, SayThenBye DEF Reject, Spoken
    <2>3. \E t : Takes(s, t)
      BY <1>6 DEF Reject
    <2>4. QED
      BY <2>1, <2>2, <2>3, TakesType DEF Elsewhere, TypeOK
  <1>7. CASE Disconnect(s)
    <2>1. SessionStep
      BY <1>7, EndsMoves DEF Disconnect
    <2>2. Takes(s, "disconnect") /\ down' = down
      BY <1>7 DEF Disconnect
    <2>3. QED
      BY <2>1, <2>2, TakesType DEF Elsewhere, TypeOK
  <1>8. QED
    BY <1>1, <1>2, <1>3, <1>4, <1>5, <1>6, <1>7 DEF Receive

LEMMA ServeTyped ==
  ASSUME TypeOK, NEW s \in Sockets, Serve(s) \/ ServerCloses(s) \/ Ask(s)
  PROVE  SessionStep /\ Elsewhere'
  <1> DEFINE x == session[s]
  <1>1. CASE Ready(s)
    <2>1. SessionStep
      BY <1>1 DEF Ready, SessionStep, Moves
    <2>2. Answer("accepted") \in Answers /\ Answer("ready") \in Answers
      BY AnswerType DEF Spoken
    <2>3. <<Answer("accepted"), Answer("ready")>> \in Seq(Answers)
      BY <2>2
    <2>4. down' \in [Sockets -> Seq(Answers)]
      BY <1>1, <2>3, SayType DEF Ready
    <2>5. QED
      BY <1>1, <2>1, <2>4 DEF Ready, Elsewhere, TypeOK
  <1>2. CASE Refuse(s)
    <2>1. SessionStep
      BY <1>2, EndsMoves DEF Refuse
    <2>2. down' \in [Sockets -> Seq(Answers)]
      BY <1>2, SayOne DEF Refuse
    <2>3. QED
      BY <1>2, <2>1, <2>2 DEF Refuse, Elsewhere, TypeOK
  <1>3. CASE CannotServe(s)
    <2>1. SessionStep
      BY <1>3, EndsMoves DEF CannotServe
    <2>2. Answer("accepted") \in Answers /\ Answer("error") \in Answers /\ Answer("bye") \in Answers
      BY AnswerType DEF Spoken
    <2>3. <<Answer("accepted"), Answer("error"), Answer("bye")>> \in Seq(Answers)
      BY <2>2
    <2>4. down' \in [Sockets -> Seq(Answers)]
      BY <1>3, <2>3, SayType DEF CannotServe
    <2>5. QED
      BY <1>3, <2>1, <2>4 DEF CannotServe, Elsewhere, TypeOK
  <1>4. CASE Receive(s)
    BY <1>4, ReceiveTyped
  <1>5. CASE Transcribe(s)
    <2>1. SessionStep
      BY <1>5 DEF Transcribe, SessionStep, Moves
    <2>2. x \in Session
      BY DEF TypeOK
    <2>3. Answered(x) \in Session /\ x.due \in Seq(Sample) /\ x.piece \in Nat
      BY <2>2, AnsweredFacts DEF Session
    <2>4. Answered(x).sequence \in Nat /\ FirstOf(x.due, x.piece) \in Seq(Sample)
      BY <2>3, FirstOfFacts DEF Session
    <2> DEFINE a == [type |-> "transcript", sequence |-> Answered(x).sequence,
                     samples |-> FirstOf(x.due, x.piece)]
    <2>5. a \in Answers
      BY <2>4 DEF Answers, Spoken
    <2>6. Say(s, <<a>>) /\ UNCHANGED <<up, gone, mic>>
      BY <1>5 DEF Transcribe
    <2> HIDE DEF a
    <2>7. <<a>> \in Seq(Answers)
      BY <2>5
    <2>8. down' \in [Sockets -> Seq(Answers)]
      BY <2>6, <2>7, SayType
    <2>9. QED
      BY <2>1, <2>6, <2>8 DEF Elsewhere, TypeOK
  <1>6. CASE EngineFails(s)
    <2>1. SessionStep
      BY <1>6, EndsMoves DEF EngineFails
    <2>2. down' \in [Sockets -> Seq(Answers)]
      BY <1>6, SayThenBye, SayOne DEF EngineFails, Spoken
    <2>3. QED
      BY <1>6, <2>1, <2>2 DEF EngineFails, Elsewhere, TypeOK
  <1>7. CASE Reply(s)
    <2>1. SessionStep
      BY <1>7 DEF Reply, SessionStep, Moves
    <2>2. x.reply \in {"flushed", "closed"}
      BY <1>7 DEF Reply, TypeOK, Session, Replies
    <2>3. Answer(x.reply) \in Answers /\ Answer("bye") \in Answers
      BY <2>2, AnswerType DEF Spoken
    <2> DEFINE more == IF x.reply = "closed" THEN <<Answer("bye")>> ELSE <<>>
    <2>4. <<Answer(x.reply)>> \in Seq(Answers) /\ more \in Seq(Answers)
      BY <2>3, EmptySeq
    <2>5. Say(s, <<Answer(x.reply)>> \o more) /\ UNCHANGED <<up, gone, mic>>
      BY <1>7 DEF Reply
    <2> HIDE DEF more
    <2>6. <<Answer(x.reply)>> \o more \in Seq(Answers)
      BY <2>4, ConcatProperties
    <2>7. down' \in [Sockets -> Seq(Answers)]
      BY <2>5, <2>6, SayType
    <2>8. QED
      BY <2>1, <2>5, <2>7 DEF Elsewhere, TypeOK
  <1>8. CASE SendFails(s)
    <2>1. SessionStep
      BY <1>8, EndsMoves DEF SendFails
    <2>2. QED
      BY <1>8, <2>1 DEF SendFails, Elsewhere, TypeOK
  <1>9. CASE ServerCloses(s)
    <2>1. SessionStep
      BY <1>9, EndsMoves DEF ServerCloses
    <2>2. down' \in [Sockets -> Seq(Answers)]
      BY <1>9, SayOne DEF ServerCloses
    <2>3. QED
      BY <1>9, <2>1, <2>2 DEF ServerCloses, Elsewhere, TypeOK
  <1>10. CASE Ask(s)
    BY <1>10 DEF Ask, SessionStep, Moves, Elsewhere, TypeOK
  <1>11. QED
    BY <1>1, <1>2, <1>3, <1>4, <1>5, <1>6, <1>7, <1>8, <1>9, <1>10 DEF Serve

LEMMA ClientTyped ==
  ASSUME TypeOK, NEW s \in Sockets, Client(s)
  PROVE  SessionStep /\ Elsewhere'
  <1> DEFINE k0 == mic[s].n
             t0 == mic[s].take
  <1>1. t0 \in Nat /\ k0 \in Nat
    BY DEF TypeOK
  <1> HIDE DEF k0, t0
  <1>2. CASE \E k \in 0 .. MaxSpoken : Speak(s, k)
    <2>1. PICK k \in 0 .. MaxSpoken : Speak(s, k)
      BY <1>2
    <2>2. k \in Nat
      BY BoundsAssumption
    <2> DEFINE said == [i \in 1 .. k |-> <<t0, k0 + i>>]
    <2>3. said = Speech(s, k)
      BY DEF Speech, t0, k0
    <2>4. \A i \in 1 .. k : <<t0, k0 + i>> \in Sample
      <3>1. \A i \in 1 .. k : k0 + i \in Nat
        BY <1>1, <2>2
      <3>2. QED
        BY <1>1, <3>1 DEF Sample
    <2>5. said \in [1 .. k -> Sample]
      BY <2>4
    <2> HIDE DEF said
    <2>6. said \in Seq(Sample)
      BY <2>2, <2>5, SeqDef
    <2>7. [type |-> "audio", samples |-> said] \in Messages
      BY <2>6 DEF Messages
    <2>8. up' \in [Sockets -> Seq(Messages)]
      BY <2>1, <2>3, <2>7, SentType DEF Speak
    <2>9. k0 + k \in Nat
      BY <1>1, <2>2
    <2>10. mic' = [mic EXCEPT ![s].n = k0 + k]
      BY <2>1 DEF Speak, k0
    <2>11. mic' \in [Sockets -> [take : Nat, n : Nat]]
      BY <2>9, <2>10 DEF TypeOK
    <2>12. SessionStep
      BY <2>1 DEF Speak, SessionStep
    <2>13. QED
      BY <2>1, <2>8, <2>11, <2>12 DEF Speak, Elsewhere, TypeOK
  <1>3. CASE \E t \in {"flush", "ping", "close", "malformed"} : Request(s, t)
    <2>1. PICK t \in {"flush", "ping", "close", "malformed"} : Request(s, t)
      BY <1>3
    <2>2. [type |-> t] \in Messages
      BY DEF Messages, Plain
    <2>3. up' \in [Sockets -> Seq(Messages)]
      BY <2>1, <2>2, SentType DEF Request
    <2>4. QED
      BY <2>1, <2>3 DEF Request, SessionStep, Elsewhere, TypeOK
  <1>4. CASE \E c \in Candidates : AskToConfigure(s, c)
    <2>1. PICK c \in Candidates : AskToConfigure(s, c)
      BY <1>4
    <2>2. [type |-> "config", config |-> c] \in Messages
      BY CandidatesAssumption DEF Messages
    <2>3. up' \in [Sockets -> Seq(Messages)]
      BY <2>1, <2>2, SentType DEF AskToConfigure
    <2>4. QED
      BY <2>1, <2>3 DEF AskToConfigure, SessionStep, Elsewhere, TypeOK
  <1>5. CASE AskToClear(s)
    <2>1. [type |-> "clear"] \in Messages
      BY DEF Messages, Plain
    <2>2. up' \in [Sockets -> Seq(Messages)]
      BY <1>5, <2>1, SentType DEF AskToClear
    <2>3. t0 + 1 \in Nat
      BY <1>1
    <2>4. mic' = [mic EXCEPT ![s] = [take |-> t0 + 1, n |-> 0]]
      BY <1>5 DEF AskToClear, t0
    <2>5. mic' \in [Sockets -> [take : Nat, n : Nat]]
      BY <2>3, <2>4 DEF TypeOK
    <2>6. QED
      BY <1>5, <2>2, <2>5 DEF AskToClear, SessionStep, Elsewhere, TypeOK
  <1>6. CASE HangUp(s) /\ UNCHANGED <<session, down, mic>>
    <2>1. [type |-> "disconnect"] \in Messages
      BY DEF Messages, Plain
    <2>2. up' \in [Sockets -> Seq(Messages)]
      BY <1>6, <2>1, SentType DEF HangUp
    <2>3. QED
      BY <1>6, <2>2 DEF HangUp, SessionStep, Elsewhere, TypeOK
  <1>7. CASE Break(s) /\ UNCHANGED <<session, down, mic>>
    <2>1. PICK i \in 0 .. Len(up[s]) :
            up' = [up EXCEPT ![s] = Append(SubSeq(up[s], 1, i), [type |-> "disconnect"])]
      BY <1>7 DEF Break
    <2>2. up[s] \in Seq(Messages) /\ Len(up[s]) \in Nat
      BY LenProperties DEF TypeOK
    <2>3. i \in Nat /\ i <= Len(up[s])
      BY <2>2
    <2>4. \A j \in 1 .. i : up[s][j] \in Messages
      BY <2>2, <2>3, ElementOfSeq
    <2>5. SubSeq(up[s], 1, i) \in Seq(Messages)
      BY <2>3, <2>4, SubSeqProperties
    <2>6. [type |-> "disconnect"] \in Messages
      BY DEF Messages, Plain
    <2>7. Append(SubSeq(up[s], 1, i), [type |-> "disconnect"]) \in Seq(Messages)
      BY <2>5, <2>6, AppendProperties
    <2>8. up' \in [Sockets -> Seq(Messages)]
      BY <2>1, <2>7 DEF TypeOK
    <2>9. QED
      BY <1>7, <2>8 DEF Break, SessionStep, Elsewhere, TypeOK
  <1>8. QED
    BY <1>2, <1>3, <1>4, <1>5, <1>6, <1>7 DEF Client

-----------------------------------------------------------------------------
\* The theorems.

LEMMA InitType == Init => TypeOK
  <1>1. <<>> \in Seq(Messages) /\ <<>> \in Seq(Answers)
    BY EmptySeq
  <1>2. QED
    BY <1>1, NewSession DEF Init, TypeOK

LEMMA NextTyped ==
  ASSUME TypeOK, Next
  PROVE  SessionStep /\ Elsewhere'
  BY ClientTyped, ServeTyped DEF Next

LEMMA StepType ==
  ASSUME TypeOK, [Next]_vars
  PROVE  TypeOK'
  <1>1. CASE Next
    <2>1. SessionStep /\ Elsewhere'
      BY <1>1, NextTyped
    <2>2. session' \in [Sockets -> Session]
      <3>1. CASE session' = session
        BY <3>1 DEF TypeOK
      <3>2. ASSUME NEW s \in Sockets, NEW y, Becomes(s, y), Moves(session[s], y)
            PROVE  session' \in [Sockets -> Session]
        <4>1. y \in Session
          BY <3>2, MovesType DEF TypeOK
        <4>2. QED
          BY <3>2, <4>1 DEF Becomes, TypeOK
      <3>3. QED
        BY <2>1, <3>1, <3>2 DEF SessionStep
    <2>3. QED
      BY <2>1, <2>2 DEF TypeOK, Elsewhere
  <1>2. CASE UNCHANGED vars
    BY <1>2 DEF vars, TypeOK
  <1>3. QED
    BY <1>1, <1>2

\* The state keeps its types: every step of the coroutine, whatever the client sends,
\* leaves a session its fields and the two directions their messages.
THEOREM TypeCorrect == Spec => []TypeOK
  <1>1. TypeOK /\ [Next]_vars => TypeOK'
    BY StepType
  <1>2. QED
    BY <1>1, InitType, PTL DEF Spec

LEMMA StepBounded ==
  ASSUME TypeOK, BufferBound, [Next]_vars
  PROVE  BufferBound'
  <1>1. \A s \in Sockets : Bounded(session[s])
    BY DEF BufferBound, Bounded
  <1>2. CASE Next
    <2>1. SUFFICES \A s \in Sockets : Bounded(session'[s])
      BY DEF BufferBound, Bounded
    <2>2. SessionStep
      BY <1>2, NextTyped
    <2>3. CASE session' = session
      BY <1>1, <2>3
    <2>4. ASSUME NEW s \in Sockets, NEW y, Becomes(s, y), Moves(session[s], y)
          PROVE  \A r \in Sockets : Bounded(session'[r])
      <3>1. session[s] \in Session
        BY DEF TypeOK
      <3>2. Bounded(y)
        BY <1>1, <2>4, <3>1, MovesBounded
      <3>3. session' = [session EXCEPT ![s] = y]
        BY <2>4 DEF Becomes
      <3>4. session \in [Sockets -> Session]
        BY DEF TypeOK
      <3>5. QED
        BY <1>1, <3>2, <3>3, <3>4
    <2>5. QED
      BY <2>2, <2>3, <2>4 DEF SessionStep
  <1>3. CASE UNCHANGED vars
    BY <1>3 DEF vars, BufferBound
  <1>4. QED
    BY <1>2, <1>3

LEMMA InitBounded == Init => BufferBound
  <1>1. Settings.buffer \in Nat /\ Valid(Settings) /\ Settings \in Configs
    BY SettingsAssumption, DurationsAssumption DEF Configs
  <1>2. Settings.buffer <= Settings.buffer
    BY <1>1
  <1>3. Largest \in Nat
    BY <1>1, <1>2, LargestFacts
  <1>4. SUFFICES ASSUME Init, NEW s \in Sockets PROVE Bounded(session[s])
    BY DEF BufferBound, Bounded
  <1>5. session[s].config = Settings /\ session[s].buffer = <<>> /\ session[s].due = <<>>
    BY <1>4 DEF Init, New
  <1>6. Len(session[s].buffer) = 0 /\ Len(session[s].due) = 0
    BY <1>5
  <1>7. SampleCount[session[s].config.buffer] = Largest
    BY <1>5 DEF Largest
  <1>8. QED
    BY <1>1, <1>2, <1>3, <1>5, <1>6, <1>7 DEF Bounded

\* The audio a session retains fits its configuration and never more than twice the
\* server's own limit is held, for any configuration messages (apply_config,
\* append_binary), chunk sizes and conversion of seconds to samples.
THEOREM BufferBounded == Spec => []BufferBound
  <1>1. TypeOK /\ BufferBound /\ [Next]_vars => BufferBound'
    BY StepBounded
  <1>2. QED
    BY <1>1, InitBounded, TypeCorrect, PTL DEF Spec

-----------------------------------------------------------------------------
\* Sequences of sequences.  A fact about every n in Nat is shown by looking at the
\* smallest n it could fail for.

LEMMA Least ==
  ASSUME NEW T \in SUBSET Nat, T # {}
  PROVE  \E m \in T : \A k \in T : m <= k
  <1>1. \A x, y \in Nat : <<x, y>> \in OpToRel(<, Nat) <=> x < y
    BY DEF OpToRel
  <1>2. PICK R : IsWellFoundedOn(R, Nat) /\ \A x, y \in Nat : <<x, y>> \in R <=> x < y
    BY <1>1, NatLessThanWellFounded
  <1>3. PICK m \in T : \A k \in T : ~(<<k, m>> \in R)
    <2>1. T \subseteq Nat /\ T # {} /\ IsWellFoundedOn(R, Nat)
      BY <1>2
    <2>2. QED
      BY <2>1, WFMin, Zenon
  <1>4. \A k \in T : ~(k < m)
    BY <1>2, <1>3
  <1>5. QED
    BY <1>4

\* f adds up the first n sequences of q.
Adds(f, q, n) == f = [i \in 1 .. n |-> IF i = 1 THEN q[i] ELSE f[i - 1] \o q[i]]

LEMMA AddsExist ==
  ASSUME NEW q, NEW n \in Nat
  PROVE  \E f : Adds(f, q, n)
  <1> DEFINE T == {k \in Nat : ~\E f : Adds(f, q, k)}
  <1> SUFFICES ASSUME T # {}
               PROVE  FALSE
    BY DEF T
  <1>1. PICK m \in T : \A k \in T : m <= k
    BY Least
  <1>2. m # 0
    <2>1. Adds([i \in 1 .. 0 |-> q[i]], q, 0)
      BY DEF Adds
    <2>2. QED
      BY <2>1 DEF T
  <1>3. m - 1 \in Nat /\ m - 1 \notin T /\ m \in Nat
    BY <1>1, <1>2
  <1>4. PICK f : Adds(f, q, m - 1)
    BY <1>3
  <1> DEFINE g == [i \in 1 .. m |-> IF i < m THEN f[i] ELSE IF m = 1 THEN q[m] ELSE f[m - 1] \o q[m]]
  <1>5. ASSUME NEW i \in 1 .. m
        PROVE  g[i] = IF i = 1 THEN q[i] ELSE g[i - 1] \o q[i]
    <2>1. CASE i = m
      BY <1>3, <2>1
    <2>2. CASE i # m
      <3>1. i \in 1 .. m - 1 /\ i < m
        BY <1>3, <2>2
      <3>2. i # 1 => i - 1 \in 1 .. m - 1 /\ i - 1 < m
        BY <1>3, <3>1
      <3>3. f[i] = IF i = 1 THEN q[i] ELSE f[i - 1] \o q[i]
        BY <1>4, <3>1 DEF Adds
      <3>4. g[i] = f[i] /\ (i # 1 => g[i - 1] = f[i - 1])
        BY <1>3, <3>1, <3>2
      <3>5. QED
        BY <3>3, <3>4
    <2>3. QED
      BY <2>1, <2>2
  <1>6. Adds(g, q, m)
    <2>1. g = [i \in 1 .. m |-> g[i]]
      OBVIOUS
    <2> HIDE DEF g
    <2>2. QED
      BY <1>5, <2>1 DEF Adds
  <1>7. QED
    BY <1>6

\* The partial concatenations FlattenSeq() goes through.
Partial(f, q, S) == /\ FlattenSeq(q) = f[Len(q)]
                    /\ f[1] = q[1]
                    /\ \A i \in 2 .. Len(q) : f[i] = f[i - 1] \o q[i]
                    /\ \A i \in 1 .. Len(q) : f[i] \in Seq(S)

LEMMA FlattenSteps ==
  ASSUME NEW S, NEW q \in Seq(Seq(S)), q # <<>>
  PROVE  \E f : Partial(f, q, S)
  <1>0. Len(q) \in Nat /\ Len(q) # 0 /\ \A i \in 1 .. Len(q) : q[i] \in Seq(S)
    BY EmptySeq, LenProperties, ElementOfSeq
  <1> DEFINE f == CHOOSE g : g = [i \in 1 .. Len(q) |-> IF i = 1 THEN q[i] ELSE g[i - 1] \o q[i]]
  <1>1. FlattenSeq(q) = f[Len(q)]
    BY <1>0, Zenon DEF FlattenSeq
  <1>2. Adds(f, q, Len(q))
    <2>1. \E g : g = [i \in 1 .. Len(q) |-> IF i = 1 THEN q[i] ELSE g[i - 1] \o q[i]]
      BY <1>0, AddsExist DEF Adds
    <2>2. QED
      BY <2>1, Zenon DEF Adds
  <1> HIDE DEF f
  <1>3. /\ f[1] = q[1]
        /\ \A i \in 2 .. Len(q) : f[i] = f[i - 1] \o q[i]
    <2>1. \A i \in 1 .. Len(q) : f[i] = IF i = 1 THEN q[i] ELSE f[i - 1] \o q[i]
      BY <1>2 DEF Adds
    <2>2. 1 \in 1 .. Len(q) /\ \A i \in 2 .. Len(q) : i \in 1 .. Len(q) /\ i # 1
      BY <1>0
    <2>3. QED
      BY <2>1, <2>2
  <1>4. \A i \in 1 .. Len(q) : f[i] \in Seq(S)
    <2> DEFINE T == {k \in 1 .. Len(q) : f[k] \notin Seq(S)}
    <2> SUFFICES ASSUME T # {}
                 PROVE  FALSE
      BY DEF T
    <2>1. T \in SUBSET Nat
      BY <1>0
    <2>2. PICK m \in T : \A k \in T : m <= k
      BY <2>1, Least
    <2>3. m # 1 /\ m \in 1 .. Len(q)
      BY <1>0, <1>3
    <2>4. m - 1 \in 1 .. Len(q) /\ m - 1 \notin T /\ m \in 2 .. Len(q)
      BY <1>0, <2>2, <2>3
    <2>5. f[m - 1] \in Seq(S) /\ q[m] \in Seq(S) /\ f[m] = f[m - 1] \o q[m]
      BY <1>0, <1>3, <2>3, <2>4
    <2>6. f[m] \in Seq(S)
      BY <2>5, ConcatProperties
    <2>7. QED
      BY <2>2, <2>6
  <1>5. QED
    BY <1>1, <1>3, <1>4, Zenon DEF Partial

LEMMA FlattenEmpty == FlattenSeq(<<>>) = <<>>
  <1>1. Len(<<>>) = 0
    BY EmptySeq
  <1>2. QED
    BY <1>1, Zenon DEF FlattenSeq

LEMMA FlattenType ==
  ASSUME NEW S, NEW q \in Seq(Seq(S))
  PROVE  FlattenSeq(q) \in Seq(S)
  <1>1. CASE q = <<>>
    BY <1>1, FlattenEmpty, EmptySeq
  <1>2. CASE q # <<>>
    <2>1. Len(q) \in 1 .. Len(q)
      BY <1>2, EmptySeq
    <2>2. QED
      BY <1>2, <2>1, FlattenSteps DEF Partial
  <1>3. QED
    BY <1>1, <1>2

LEMMA FlattenAppend ==
  ASSUME NEW S, NEW q \in Seq(Seq(S)), NEW x \in Seq(S)
  PROVE  FlattenSeq(Append(q, x)) = FlattenSeq(q) \o x
  <1> DEFINE r == Append(q, x)
  <1>1. /\ r \in Seq(Seq(S)) /\ r # <<>> /\ Len(r) = Len(q) + 1 /\ Len(q) \in Nat
        /\ \A i \in 1 .. Len(q) : r[i] = q[i]
        /\ r[Len(q) + 1] = x
    <2>1. Len(q) \in Nat
      BY LenProperties
    <2>2. /\ r \in Seq(Seq(S)) /\ r # <<>> /\ Len(r) = Len(q) + 1
          /\ \A i \in 1 .. Len(q) : r[i] = q[i]
          /\ r[Len(q) + 1] = x
      BY AppendProperties
    <2>3. QED
      BY <2>1, <2>2
  <1> HIDE DEF r
  <1>2. PICK g : Partial(g, r, S)
    BY <1>1, FlattenSteps, Zenon
  <1>3. CASE q = <<>>
    <2>1. Len(q) = 0
      BY <1>3, EmptySeq
    <2>2. FlattenSeq(r) = x
      BY <1>1, <1>2, <2>1 DEF Partial
    <2>3. <<>> \o x = x /\ FlattenSeq(q) = <<>>
      BY <1>3, FlattenEmpty, ConcatEmptySeq, Zenon
    <2>4. QED
      BY <2>2, <2>3, Zenon DEF r
  <1>4. CASE q # <<>>
    <2>1. PICK f : Partial(f, q, S)
      BY <1>4, FlattenSteps, Zenon
    <2>2. Len(q) # 0
      BY <1>4, EmptySeq
    <2>3. \A i \in 1 .. Len(q) : f[i] = g[i]
      <3> DEFINE T == {k \in 1 .. Len(q) : f[k] # g[k]}
      <3> SUFFICES ASSUME T # {}
                   PROVE  FALSE
        BY DEF T
      <3>1. T \in SUBSET Nat
        BY <1>1
      <3>2. PICK m \in T : \A k \in T : m <= k
        BY <3>1, Least
      <3>3. m # 1 /\ m \in 1 .. Len(q)
        <4>1. f[1] = g[1]
          BY <1>1, <1>2, <2>1, <2>2 DEF Partial
        <4>2. QED
          BY <3>2, <4>1
      <3>4. m - 1 \in 1 .. Len(q) /\ m - 1 \notin T /\ m \in 2 .. Len(q) /\ m \in 2 .. Len(r)
        <4>1. m \in Nat /\ m <= Len(q) /\ m >= 1
          BY <1>1, <3>3
        <4>2. m - 1 \in Nat /\ m - 1 < m /\ m - 1 \in 1 .. Len(q) /\ m \in 2 .. Len(q) /\ m \in 2 .. Len(r)
          BY <1>1, <3>3, <4>1
        <4>3. ~(m <= m - 1)
          BY <4>1
        <4>4. m - 1 \notin T
          BY <3>2, <4>3, Zenon
        <4>5. QED
          BY <4>2, <4>4
      <3>5. f[m - 1] = g[m - 1] /\ r[m] = q[m]
        BY <1>1, <3>3, <3>4
      <3>6. f[m] = g[m]
        BY <1>2, <2>1, <3>4, <3>5 DEF Partial
      <3>7. QED
        BY <3>2, <3>6
    <2>4. Len(r) \in 2 .. Len(r) /\ Len(r) - 1 = Len(q) /\ Len(q) \in 1 .. Len(q)
      BY <1>1, <2>2
    <2>5. g[Len(r)] = g[Len(q)] \o x
      BY <1>1, <1>2, <2>4 DEF Partial
    <2>6. QED
      BY <1>2, <2>1, <2>3, <2>4, <2>5 DEF r, Partial
  <1>5. QED
    BY <1>3, <1>4

LEMMA Regroup ==
  ASSUME NEW S, NEW a \in Seq(S), NEW b \in Seq(S), NEW c \in Seq(S)
  PROVE  (a \o b) \o c = a \o (b \o c)
  BY ConcatAssociative

LEMMA SampleRegroup ==
  \A a \in Seq(Sample), b \in Seq(Sample), c \in Seq(Sample) : (a \o b) \o c = a \o (b \o c)
  BY Regroup

LEMMA AnswerRegroup ==
  \A a \in Seq(Answers), b \in Seq(Answers), c \in Seq(Answers) : (a \o b) \o c = a \o (b \o c)
  BY Regroup

LEMMA FlattenGrows ==
  ASSUME NEW S, NEW h \in Seq(Seq(S)), NEW x \in Seq(S), h # <<>>,
         NEW g, g = FlattenSeq(h), g = Head(h) \o FlattenSeq(Tail(h))
  PROVE  FlattenSeq(Append(h, x)) = Head(h) \o FlattenSeq(Append(Tail(h), x))
  <1>1. Head(h) \in Seq(S) /\ Tail(h) \in Seq(Seq(S))
    BY HeadTailProperties
  <1>2. PICK a \in Seq(S) : a = Head(h)
    BY <1>1
  <1>3. PICK b \in Seq(S) : b = FlattenSeq(Tail(h))
    BY <1>1, FlattenType
  <1>4. FlattenSeq(Append(Tail(h), x)) = b \o x
    BY <1>1, <1>3, FlattenAppend
  <1>5. FlattenSeq(Append(h, x)) = (a \o b) \o x
    <2>1. FlattenSeq(Append(h, x)) = FlattenSeq(h) \o x
      BY FlattenAppend
    <2>2. FlattenSeq(h) = a \o b
      BY <1>2, <1>3
    <2>3. QED
      BY <2>1, <2>2, Zenon
  <1>6. (a \o b) \o x = a \o (b \o x)
    BY Regroup, SMTT(60)
  <1>7. Head(h) \o FlattenSeq(Append(Tail(h), x)) = a \o (b \o x)
    <2>1. PICK c \in Seq(S) : c = FlattenSeq(Append(Tail(h), x))
      BY <1>1, AppendProperties, FlattenType
    <2>2. Head(h) \o FlattenSeq(Append(Tail(h), x)) = a \o c
      BY <1>2, <2>1
    <2>3. c = b \o x
      BY <1>4, <2>1
    <2>4. QED
      BY <2>2, <2>3, Zenon
  <1>8. QED
    BY <1>5, <1>6, <1>7

LEMMA FlattenTail ==
  ASSUME NEW S, NEW q \in Seq(Seq(S)), q # <<>>
  PROVE  FlattenSeq(q) = Head(q) \o FlattenSeq(Tail(q))
  <1> DEFINE Fails(p) == p # <<>> /\ FlattenSeq(p) # Head(p) \o FlattenSeq(Tail(p))
             T == {n \in Nat : \E p \in Seq(Seq(S)) : Len(p) = n /\ Fails(p)}
  <1> SUFFICES ASSUME Fails(q)
               PROVE  FALSE
    OBVIOUS
  <1>1. Len(q) \in T
    BY LenProperties
  <1>2. PICK n \in T : \A k \in T : n <= k
    BY <1>1, Least
  <1>3. PICK p \in Seq(Seq(S)) : Len(p) = n /\ Fails(p)
    BY <1>2
  <1>4. PICK h \in Seq(Seq(S)), x \in Seq(S) : p = Append(h, x)
    BY <1>3, SequenceEmptyOrAppend
  <1>5. /\ Head(p) = IF h = <<>> THEN x ELSE Head(h)
        /\ Tail(p) = IF h = <<>> THEN <<>> ELSE Append(Tail(h), x)
        /\ Len(p) = Len(h) + 1 /\ Len(h) \in Nat
    BY <1>4, HeadTailAppend, AppendProperties, LenProperties
  <1>6. CASE h = <<>>
    <2>1. FlattenSeq(p) = <<>> \o x
      BY <1>4, <1>6, FlattenAppend, FlattenEmpty
    <2>2. <<>> \o x = x /\ x \o <<>> = x
      BY ConcatEmptySeq, Zenon
    <2>3. Head(p) = x /\ Tail(p) = <<>>
      BY <1>5, <1>6, Zenon
    <2>4. FlattenSeq(p) = Head(p) \o FlattenSeq(Tail(p))
      BY <2>1, <2>2, <2>3, FlattenEmpty, Zenon
    <2>5. QED
      BY <1>3, <2>4
  <1>7. CASE h # <<>>
    <2>1. ~Fails(h)
      <3>1. n = Len(h) + 1 /\ ~(n <= Len(h)) /\ Len(h) \in Nat
        BY <1>2, <1>3, <1>5
      <3>2. Len(h) \notin T
        BY <1>2, <3>1
      <3>3. QED
        BY <3>1, <3>2
    <2>2. FlattenSeq(p) = Head(h) \o FlattenSeq(Append(Tail(h), x))
      BY <1>4, <1>7, <2>1, FlattenGrows
    <2>3. Head(p) = Head(h) /\ Tail(p) = Append(Tail(h), x)
      BY <1>5, <1>7, Zenon
    <2>4. QED
      BY <1>3, <2>2, <2>3
  <1>8. QED
    BY <1>6, <1>7

\* Every element of the whole is one of a part.
LEMMA FlattenFrom ==
  ASSUME NEW S, NEW q \in Seq(Seq(S)), NEW i \in 1 .. Len(FlattenSeq(q))
  PROVE  \E j \in 1 .. Len(q) : \E k \in 1 .. Len(q[j]) : FlattenSeq(q)[i] = q[j][k]
  <1> DEFINE From(p) == \A h \in 1 .. Len(FlattenSeq(p)) :
                          \E j \in 1 .. Len(p) : \E k \in 1 .. Len(p[j]) : FlattenSeq(p)[h] = p[j][k]
             T == {n \in Nat : \E p \in Seq(Seq(S)) : Len(p) = n /\ ~From(p)}
  <1> SUFFICES ASSUME ~From(q)
               PROVE  FALSE
    OBVIOUS
  <1>1. Len(q) \in T
    BY LenProperties
  <1>2. PICK n \in T : \A k \in T : n <= k
    BY <1>1, Least
  <1>3. PICK p \in Seq(Seq(S)) : Len(p) = n /\ ~From(p)
    BY <1>2
  <1>4. p # <<>>
    <2>1. Len(FlattenSeq(<<>>)) = 0
      BY FlattenEmpty, EmptySeq
    <2>2. QED
      BY <1>3, <2>1
  <1>5. PICK h \in Seq(Seq(S)), x \in Seq(S) : p = Append(h, x)
    BY <1>3, <1>4, SequenceEmptyOrAppend
  <1>6. /\ Len(p) = Len(h) + 1 /\ Len(h) \in Nat
        /\ \A j \in 1 .. Len(h) : p[j] = h[j]
        /\ p[Len(h) + 1] = x
    BY <1>5, AppendProperties, LenProperties
  <1>7. From(h)
    <2>1. n = Len(h) + 1 /\ ~(n <= Len(h)) /\ Len(h) \in Nat
      BY <1>2, <1>3, <1>6
    <2>2. Len(h) \notin T
      BY <1>2, <2>1
    <2>3. QED
      BY <2>1, <2>2
  <1>8. PICK g \in Seq(S) : g = FlattenSeq(h)
    BY FlattenType
  <1>9. FlattenSeq(p) = g \o x
    BY <1>5, <1>8, FlattenAppend
  <1>10. /\ Len(g \o x) = Len(g) + Len(x) /\ Len(g) \in Nat /\ Len(x) \in Nat
         /\ \A e \in 1 .. Len(g) + Len(x) : (g \o x)[e] = IF e <= Len(g) THEN g[e] ELSE x[e - Len(g)]
    BY ConcatProperties, LenProperties
  <1>11. ASSUME NEW e \in 1 .. Len(FlattenSeq(p))
         PROVE  \E j \in 1 .. Len(p) : \E k \in 1 .. Len(p[j]) : FlattenSeq(p)[e] = p[j][k]
    <2>1. e \in 1 .. Len(g) + Len(x)
      BY <1>9, <1>10
    <2>2. CASE e <= Len(g)
      <3>1. e \in 1 .. Len(FlattenSeq(h)) /\ FlattenSeq(p)[e] = FlattenSeq(h)[e]
        BY <1>8, <1>9, <1>10, <2>1, <2>2
      <3>2. PICK j \in 1 .. Len(h) : \E k \in 1 .. Len(h[j]) : FlattenSeq(h)[e] = h[j][k]
        BY <1>7, <3>1
      <3>3. j \in 1 .. Len(p) /\ p[j] = h[j]
        BY <1>6
      <3>4. QED
        BY <3>1, <3>2, <3>3
    <2>3. CASE ~(e <= Len(g))
      <3>1. e - Len(g) \in 1 .. Len(x) /\ FlattenSeq(p)[e] = x[e - Len(g)]
        BY <1>9, <1>10, <2>1, <2>3
      <3>2. Len(h) + 1 \in 1 .. Len(p)
        BY <1>6
      <3>3. QED
        BY <1>6, <3>1, <3>2
    <2>4. QED
      BY <2>2, <2>3
  <1>12. QED
    BY <1>3, <1>11

-----------------------------------------------------------------------------
(* What a step can do to one socket, as far as the audio is concerned.     *)

\* Answers that carry no audio and confirm neither a "clear" nor a "close".
Mute(q) == \A i \in 1 .. Len(q) :
  q[i].type \notin {"cleared", "closed", "transcript"} /\ q[i].samples = <<>>

Mutters(s) == \E q \in Seq(Answers) : Mute(q) /\ down'[s] = down[s] \o q

\* The next message, one of these, is taken.
Drops(s, types) == /\ up[s] # <<>>
                   /\ Head(up[s]).type \in types
                   /\ up'[s] = Tail(up[s])

Rests(s) == mic'[s] = mic[s] /\ (s \in gone' <=> s \in gone)

Still(s) == session'[s] = session[s] /\ up'[s] = up[s] /\ down'[s] = down[s] /\ Rests(s)

Listens(s) == s \notin gone /\ session'[s] = session[s] /\ down'[s] = down[s]

Asking(s) == /\ Listens(s) /\ mic'[s] = mic[s]
             /\ \E m \in Messages : m.type \notin {"audio", "clear"} /\ up'[s] = Append(up[s], m)

Speaking(s) == /\ Listens(s)
               /\ \E k \in Nat : /\ up'[s] = Append(up[s], [type |-> "audio", samples |-> Speech(s, k)])
                                 /\ mic'[s] = [take |-> mic[s].take, n |-> mic[s].n + k]

AskingClear(s) == /\ Listens(s)
                  /\ up'[s] = Append(up[s], [type |-> "clear"])
                  /\ mic'[s] = [take |-> mic[s].take + 1, n |-> 0]

Breaking(s) == /\ Listens(s) /\ mic'[s] = mic[s] /\ s \in gone'
               /\ \E i \in 0 .. Len(up[s]) :
                    up'[s] = Append(SubSeq(up[s], 1, i), [type |-> "disconnect"])

Ending(s) == /\ Rests(s) /\ Mutters(s)
             /\ session[s].state \in {"asked", "open"} /\ session'[s].state = "ended"
             /\ session'[s].reply = "none"
             /\ session'[s].due = <<>> /\ session'[s].buffer = <<>>
             /\ \/ up'[s] = up[s]
                \/ Drops(s, {"audio", "config", "malformed", "disconnect"})

Minding(s) == /\ Rests(s) /\ Mutters(s)
              /\ session[s].state # "ended" /\ session'[s].state # "ended"
              /\ Held(s)' = Held(s)
              /\ \/ session'[s].reply = "none"
                 \/ session'[s].buffer = <<>>
                 \/ session'[s].reply = session[s].reply /\ session'[s].buffer = session[s].buffer
              /\ session'[s].reply = "closed" => session[s].reply = "closed" \/ Drops(s, {"close"})
              /\ \/ up'[s] = up[s]
                 \/ Drops(s, {"config", "flush", "close", "ping"})

Hearing(s) == /\ Rests(s) /\ down'[s] = down[s]
              /\ session[s].state = "open" /\ session'[s].state = "open"
              /\ session'[s].reply = "none"
              /\ Drops(s, {"audio"})
              /\ Held(s)' = Held(s) \o Head(up[s]).samples

Clearing(s) == /\ Rests(s)
               /\ session[s].state = "open" /\ session'[s].state = "open"
               /\ session'[s].reply = "none"
               /\ Drops(s, {"clear"})
               /\ Held(s)' = <<>>
               /\ down'[s] = IF s \in gone THEN down[s] ELSE Append(down[s], Answer("cleared"))

Transcribing(s) ==
  /\ Rests(s) /\ up'[s] = up[s]
  /\ session[s].state = "open" /\ session'[s].state = "open"
  /\ session'[s].reply = session[s].reply /\ session'[s].buffer = session[s].buffer
  /\ \E a \in Answers : /\ a.type = "transcript"
                        /\ Held(s) = a.samples \o Held(s)'
                        /\ down'[s] = IF s \in gone THEN down[s] ELSE Append(down[s], a)

Finishing(s) == /\ Rests(s) /\ up'[s] = up[s]
              /\ session[s].state = "open" /\ session'[s].state = "ended"
              /\ session[s].reply = "closed" /\ session'[s].reply = "none"
              /\ session[s].due = <<>> /\ session'[s].due = <<>>
              /\ session'[s].buffer = session[s].buffer
              /\ down'[s] = IF s \in gone THEN down[s]
                            ELSE Append(Append(down[s], Answer("closed")), Answer("bye"))

ClientActs(s) == Asking(s) \/ Speaking(s) \/ AskingClear(s) \/ Breaking(s)
ServerActs(s) == Ending(s) \/ Minding(s) \/ Hearing(s) \/ Clearing(s) \/ Transcribing(s) \/ Finishing(s)

LEMMA SocketTypes ==
  ASSUME TypeOK, NEW s \in Sockets
  PROVE  /\ session[s] \in Session
         /\ up[s] \in Seq(Messages)
         /\ down[s] \in Seq(Answers)
         /\ mic[s].take \in Nat /\ mic[s].n \in Nat
         /\ session[s].due \in Seq(Sample) /\ session[s].buffer \in Seq(Sample)
         /\ Held(s) \in Seq(Sample)
  <1>1. session[s] \in Session
    BY DEF TypeOK
  <1>2. session[s].due \in Seq(Sample) /\ session[s].buffer \in Seq(Sample)
    BY <1>1 DEF Session
  <1>3. Held(s) \in Seq(Sample)
    BY <1>2, ConcatProperties DEF Held
  <1>4. QED
    BY <1>1, <1>2, <1>3 DEF TypeOK

LEMMA ClientLocal ==
  ASSUME TypeOK, NEW s \in Sockets, Client(s)
  PROVE  ClientActs(s)
  <1>0. s \notin gone /\ up \in [Sockets -> Seq(Messages)] /\ mic \in [Sockets -> [take : Nat, n : Nat]]
    BY DEF Client, Connected, TypeOK
  <1>1. CASE \E k \in 0 .. MaxSpoken : Speak(s, k)
    <2>1. PICK k \in 0 .. MaxSpoken : Speak(s, k)
      BY <1>1
    <2>2. k \in Nat
      BY BoundsAssumption
    <2>3. up'[s] = Append(up[s], [type |-> "audio", samples |-> Speech(s, k)])
      BY <1>0, <2>1 DEF Speak, Sent
    <2>4. mic'[s] = [take |-> mic[s].take, n |-> mic[s].n + k]
      BY <1>0, <2>1 DEF Speak
    <2>5. QED
      BY <1>0, <2>1, <2>2, <2>3, <2>4 DEF Speak, ClientActs, Speaking, Listens
  <1>2. CASE \E t \in {"flush", "ping", "close", "malformed"} : Request(s, t)
    <2>1. PICK t \in {"flush", "ping", "close", "malformed"} : Request(s, t)
      BY <1>2
    <2>2. [type |-> t] \in Messages
      BY DEF Messages, Plain
    <2>3. up'[s] = Append(up[s], [type |-> t])
      BY <1>0, <2>1 DEF Request, Sent
    <2>4. QED
      BY <1>0, <2>1, <2>2, <2>3 DEF Request, ClientActs, Asking, Listens
  <1>3. CASE \E c \in Candidates : AskToConfigure(s, c)
    <2>1. PICK c \in Candidates : AskToConfigure(s, c)
      BY <1>3
    <2>2. [type |-> "config", config |-> c] \in Messages
      BY CandidatesAssumption DEF Messages
    <2>3. up'[s] = Append(up[s], [type |-> "config", config |-> c])
      BY <1>0, <2>1 DEF AskToConfigure, Sent
    <2>4. QED
      BY <1>0, <2>1, <2>2, <2>3 DEF AskToConfigure, ClientActs, Asking, Listens
  <1>4. CASE AskToClear(s)
    <2>1. up'[s] = Append(up[s], [type |-> "clear"])
      BY <1>0, <1>4 DEF AskToClear, Sent
    <2>2. mic'[s] = [take |-> mic[s].take + 1, n |-> 0]
      BY <1>0, <1>4 DEF AskToClear
    <2>3. QED
      BY <1>0, <1>4, <2>1, <2>2 DEF AskToClear, ClientActs, AskingClear, Listens
  <1>5. CASE HangUp(s) /\ UNCHANGED <<session, down, mic>>
    <2>1. [type |-> "disconnect"] \in Messages
      BY DEF Messages, Plain
    <2>2. up'[s] = Append(up[s], [type |-> "disconnect"])
      BY <1>0, <1>5 DEF HangUp, Sent
    <2>3. QED
      BY <1>0, <1>5, <2>1, <2>2 DEF ClientActs, Asking, Listens
  <1>6. CASE Break(s) /\ UNCHANGED <<session, down, mic>>
    <2>1. PICK i \in 0 .. Len(up[s]) :
            up' = [up EXCEPT ![s] = Append(SubSeq(up[s], 1, i), [type |-> "disconnect"])]
      BY <1>6 DEF Break
    <2>2. up'[s] = Append(SubSeq(up[s], 1, i), [type |-> "disconnect"])
      BY <1>0, <2>1
    <2>3. s \in gone'
      BY <1>6 DEF Break
    <2>4. QED
      BY <1>0, <1>6, <2>2, <2>3 DEF ClientActs, Breaking, Listens
  <1>7. QED
    BY <1>1, <1>2, <1>3, <1>4, <1>5, <1>6 DEF Client

-----------------------------------------------------------------------------
\* The server's steps.

LEMMA Said ==
  ASSUME TypeOK, NEW s \in Sockets, NEW q \in Seq(Answers), Say(s, q)
  PROVE  /\ down'[s] = IF s \in gone THEN down[s] ELSE down[s] \o q
         /\ Mute(q) => Mutters(s)
  <1>1. down \in [Sockets -> Seq(Answers)] /\ down[s] \in Seq(Answers)
    BY DEF TypeOK
  <1>2. down'[s] = IF s \in gone THEN down[s] ELSE down[s] \o q
    BY <1>1 DEF Say
  <1>3. ASSUME Mute(q)
        PROVE  Mutters(s)
    <2>1. CASE s \in gone
      <3>1. <<>> \in Seq(Answers) /\ Mute(<<>>)
        <4>1. Len(<<>>) = 0 /\ <<>> \in Seq(Answers)
          BY EmptySeq
        <4>2. QED
          BY <4>1 DEF Mute
      <3>2. down[s] \o <<>> = down[s]
        BY <1>1, ConcatEmptySeq
      <3>3. QED
        BY <1>2, <2>1, <3>1, <3>2 DEF Mutters
    <2>2. CASE s \notin gone
      BY <1>2, <1>3, <2>2 DEF Mutters
    <2>3. QED
      BY <2>1, <2>2
  <1>4. QED
    BY <1>2, <1>3

LEMMA SaidNothing ==
  ASSUME TypeOK, NEW s \in Sockets, down'[s] = down[s]
  PROVE  Mutters(s)
  <1>1. down[s] \in Seq(Answers)
    BY DEF TypeOK
  <1>2. Len(<<>>) = 0 /\ <<>> \in Seq(Answers)
    BY EmptySeq
  <1>3. Mute(<<>>)
    BY <1>2 DEF Mute
  <1>4. down[s] \o <<>> = down[s]
    BY <1>1, ConcatEmptySeq
  <1>5. QED
    BY <1>2, <1>3, <1>4 DEF Mutters

LEMMA Muted ==
  ASSUME NEW t \in {"accepted", "ready", "configured", "flushed", "pong", "error", "bye", "refused"}
  PROVE  /\ Answer(t) \in Answers
         /\ Answer(t).type \notin {"cleared", "closed", "transcript"} /\ Answer(t).samples = <<>>
  BY AnswerType DEF Answer, Spoken

\* The words of a step that says something harmless.
LEMMA MutedWords ==
  ASSUME NEW a \in Answers, NEW b \in Answers, NEW c \in Answers,
         \A x \in {a, b, c} : x.type \notin {"cleared", "closed", "transcript"} /\ x.samples = <<>>
  PROVE  \A q \in {<<a>>, <<a, b>>, <<a, b, c>>} : q \in Seq(Answers) /\ Mute(q)
  <1>1. <<a>> \in Seq(Answers) /\ Mute(<<a>>)
    BY DEF Mute
  <1>2. <<a, b>> \in Seq(Answers) /\ Mute(<<a, b>>)
    BY DEF Mute
  <1>3. <<a, b, c>> \in Seq(Answers) /\ Mute(<<a, b, c>>)
    BY DEF Mute
  <1>4. QED
    BY <1>1, <1>2, <1>3

LEMMA SaysMuted ==
  ASSUME TypeOK, NEW s \in Sockets,
         NEW t \in {"accepted", "ready", "configured", "flushed", "pong", "error", "bye", "refused"},
         NEW u \in {"accepted", "ready", "configured", "flushed", "pong", "error", "bye", "refused"},
         NEW v \in {"accepted", "ready", "configured", "flushed", "pong", "error", "bye", "refused"},
         \/ Say(s, <<Answer(t)>>)
         \/ Say(s, <<Answer(t), Answer(u)>>)
         \/ Say(s, <<Answer(t), Answer(u), Answer(v)>>)
  PROVE  Mutters(s)
  <1>1. \A x \in {Answer(t), Answer(u), Answer(v)} :
           x \in Answers /\ x.type \notin {"cleared", "closed", "transcript"} /\ x.samples = <<>>
    BY Muted
  <1>2. \A q \in {<<Answer(t)>>, <<Answer(t), Answer(u)>>, <<Answer(t), Answer(u), Answer(v)>>} :
           q \in Seq(Answers) /\ Mute(q)
    BY <1>1, MutedWords
  <1>3. QED
    BY <1>2, Said

LEMMA Ended ==
  ASSUME TypeOK, NEW s \in Sockets, Ends(s)
  PROVE  /\ session'[s].state = "ended" /\ session'[s].reply = "none"
         /\ session'[s].due = <<>> /\ session'[s].buffer = <<>>
  BY DEF TypeOK, Ends, Becomes, New

LEMMA Became ==
  ASSUME TypeOK, NEW s \in Sockets, NEW y, Becomes(s, y)
  PROVE  session'[s] = y
  BY DEF TypeOK, Becomes

LEMMA Took ==
  ASSUME TypeOK, NEW s \in Sockets, NEW t, Takes(s, t)
  PROVE  /\ Drops(s, {t}) /\ Rests(s)
         /\ session[s].state = "open" /\ session[s].due = <<>> /\ session[s].reply = "none"
         /\ Head(up[s]) \in Messages
         /\ Held(s) = session[s].buffer
  <1>1. up \in [Sockets -> Seq(Messages)] /\ session[s].buffer \in Seq(Sample)
    BY SocketTypes DEF TypeOK
  <1>2. Drops(s, {t}) /\ Rests(s)
    BY <1>1 DEF Takes, Drops, Rests
  <1>3. session[s].state = "open" /\ session[s].due = <<>> /\ session[s].reply = "none"
    BY DEF Takes, Busy
  <1>4. <<>> \o session[s].buffer = session[s].buffer
    BY <1>1, ConcatEmptySeq
  <1>5. QED
    BY <1>2, <1>3, <1>4, TakesType DEF Held

LEMMA Halves ==
  ASSUME NEW S, NEW q \in Seq(S), NEW n \in Nat
  PROVE  FirstOf(q, n) \o After(q, n) = q
  <1>1. Len(q) \in Nat /\ SubSeq(q, 1, Len(q)) = q
    BY LenProperties, SubSeqFull
  <1>2. CASE n < Len(q)
    <2>1. FirstOf(q, n) = SubSeq(q, 1, n)
      BY <1>2 DEF FirstOf
    <2>2. 1 \in 1 .. Len(q) + 1 /\ n \in 1 - 1 .. Len(q) /\ Len(q) \in n .. Len(q)
      BY <1>1, <1>2
    <2>3. SubSeq(q, 1, n) \o SubSeq(q, n + 1, Len(q)) = SubSeq(q, 1, Len(q))
      BY <2>2, ConcatAdjacentSubSeq
    <2>4. QED
      BY <1>1, <2>1, <2>3 DEF After
  <1>3. CASE ~(n < Len(q))
    <2>1. FirstOf(q, n) = q
      BY <1>1, <1>3 DEF FirstOf
    <2>2. After(q, n) \in Seq(S) /\ Len(After(q, n)) = 0
      BY <1>3, AfterFacts
    <2>3. After(q, n) = <<>>
      BY <2>2, EmptySeq
    <2>4. q \o <<>> = q
      BY ConcatEmptySeq
    <2>5. QED
      BY <2>1, <2>3, <2>4
  <1>4. QED
    BY <1>2, <1>3

LEMMA AppendedHeld ==
  ASSUME NEW x \in Session, NEW q \in Seq(Sample), x.due = <<>>
  PROVE  /\ Appended(x, q).due \o Appended(x, q).buffer = x.buffer \o q
         /\ Appended(x, q).state = x.state /\ Appended(x, q).reply = x.reply
  <1> DEFINE all  == x.buffer \o q
             size == SampleCount[x.config.chunk]
             kept == Len(all) % size
             cut  == Len(all) - kept
  <1>0. x.buffer \in Seq(Sample)
    BY DEF Session
  <1>1. all \in Seq(Sample) /\ Len(all) \in Nat
    BY <1>0, ConcatProperties, LenProperties
  <1>2. size \in Nat \ {0}
    BY SampleCountAssumption DEF Session, Configs
  <1> HIDE DEF all, size
  <1>3. kept \in Nat /\ kept <= Len(all)
    BY <1>1, <1>2, Remainder
  <1> HIDE DEF kept
  <1>4. cut \in Nat
    BY <1>1, <1>3
  <1> HIDE DEF cut
  <1>5. CASE q = <<>>
    <2>1. Appended(x, q) = x
      BY <1>5 DEF Appended
    <2>2. <<>> \o x.buffer = x.buffer /\ x.buffer \o <<>> = x.buffer
      BY <1>0, ConcatEmptySeq
    <2>3. QED
      BY <1>5, <2>1, <2>2
  <1>6. CASE q # <<>>
    <2>1. Appended(x, q) = [x EXCEPT !.buffer = After(all, cut), !.due = FirstOf(all, cut), !.piece = size]
      BY <1>6 DEF Appended, all, size, kept, cut
    <2>2. /\ Appended(x, q).due = FirstOf(all, cut) /\ Appended(x, q).buffer = After(all, cut)
          /\ Appended(x, q).state = x.state /\ Appended(x, q).reply = x.reply
      BY <2>1 DEF Session
    <2>3. FirstOf(all, cut) \o After(all, cut) = all
      BY <1>1, <1>4, Halves
    <2>4. QED
      BY <2>2, <2>3 DEF all
  <1>7. QED
    BY <1>5, <1>6

LEMMA AnsweredHeld ==
  ASSUME NEW x \in Session
  PROVE  /\ x.due \o x.buffer = FirstOf(x.due, x.piece) \o (Answered(x).due \o Answered(x).buffer)
         /\ Answered(x).buffer = x.buffer
         /\ Answered(x).state = x.state /\ Answered(x).reply = x.reply
  <1>1. x.due \in Seq(Sample) /\ x.piece \in Nat /\ x.buffer \in Seq(Sample)
    BY DEF Session
  <1>2. PICK a \in Seq(Sample) : a = FirstOf(x.due, x.piece)
    BY <1>1, FirstOfFacts
  <1>3. PICK b \in Seq(Sample) : b = After(x.due, x.piece)
    BY <1>1, AfterFacts
  <1>4. PICK c \in Seq(Sample) : c = x.buffer
    BY <1>1
  <1>5. a \o b = x.due
    BY <1>1, <1>2, <1>3, Halves
  <1>6. (a \o b) \o c = a \o (b \o c)
    BY SampleRegroup, Zenon
  <1>7. /\ Answered(x).due = b /\ Answered(x).buffer = c
        /\ Answered(x).state = x.state /\ Answered(x).reply = x.reply
    BY <1>3, <1>4 DEF Answered, Session
  <1>8. QED
    BY <1>2, <1>4, <1>5, <1>6, <1>7

LEMMA ReceiveLocal ==
  ASSUME TypeOK, NEW s \in Sockets, Receive(s)
  PROVE  ServerActs(s)
  <1> DEFINE x == session[s]
             m == Head(up[s])
             y == session'[s]
  <1>0. x \in Session /\ x.buffer \in Seq(Sample)
    BY SocketTypes
  <1>1. CASE Hear(s)
    <2>1. Takes(s, "audio") /\ Becomes(s, Appended(x, m.samples)) /\ down' = down
      BY <1>1 DEF Hear
    <2>2. Drops(s, {"audio"}) /\ Rests(s) /\ x.state = "open" /\ x.due = <<>> /\ x.reply = "none"
          /\ m \in Messages /\ Held(s) = x.buffer
      BY <2>1, Took
    <2>3. m.samples \in Seq(Sample)
      BY <2>2, AudioMessage DEF Drops
    <2>4. y = Appended(x, m.samples)
      BY <2>1, Became
    <2>5. y.due \o y.buffer = x.buffer \o m.samples /\ y.state = "open" /\ y.reply = "none"
      BY <1>0, <2>2, <2>3, <2>4, AppendedHeld
    <2>6. QED
      BY <2>1, <2>2, <2>5 DEF ServerActs, Hearing, Held
  <1>2. CASE Configure(s)
    <2>1. Takes(s, "config") /\ Becomes(s, [x EXCEPT !.config = m.config]) /\ Say(s, <<Answer("configured")>>)
      BY <1>2 DEF Configure
    <2>2. Drops(s, {"config"}) /\ Rests(s) /\ x.state = "open" /\ x.reply = "none"
      BY <2>1, Took
    <2>3. y = [x EXCEPT !.config = m.config]
      BY <2>1, Became
    <2>4. y.due = x.due /\ y.buffer = x.buffer /\ y.state = "open" /\ y.reply = "none"
      BY <1>0, <2>2, <2>3 DEF Session
    <2>5. Mutters(s)
      BY <2>1, SaysMuted
    <2>6. Drops(s, {"config", "flush", "close", "ping"})
      BY <2>2 DEF Drops
    <2>7. QED
      BY <2>2, <2>4, <2>5, <2>6 DEF ServerActs, Minding, Held
  <1>3. CASE Flush(s)
    <2>1. PICK t \in {"flush", "close"} : Takes(s, t) /\ Becomes(s, Flushed(x, ReplyTo(t)))
      BY <1>3 DEF Flush
    <2>2. Drops(s, {t}) /\ Rests(s) /\ x.state = "open" /\ x.due = <<>> /\ Held(s) = x.buffer
      BY <2>1, Took
    <2>3. y = Flushed(x, ReplyTo(t))
      BY <2>1, Became
    <2>4. y.due = x.buffer /\ y.buffer = <<>> /\ y.state = "open"
      BY <1>0, <2>2, <2>3 DEF Flushed, Session
    <2>5. Mutters(s)
      BY <1>3, SaidNothing DEF Flush
    <2>6. Drops(s, {"config", "flush", "close", "ping"})
      BY <2>2 DEF Drops
    <2>7. x.buffer \o <<>> = x.buffer
      BY <1>0, ConcatEmptySeq
    <2>8. Held(s)' = Held(s)
      BY <2>2, <2>4, <2>7 DEF Held
    <2>9. y.reply = "closed" => t = "close"
      BY <1>0, <2>3 DEF Flushed, Session, ReplyTo
    <2>10. QED
      BY <2>2, <2>4, <2>5, <2>6, <2>8, <2>9 DEF ServerActs, Minding
  <1>4. CASE Clear(s)
    <2>1. Takes(s, "clear") /\ Becomes(s, Cleared(x)) /\ Say(s, <<Answer("cleared")>>)
      BY <1>4 DEF Clear
    <2>2. Drops(s, {"clear"}) /\ Rests(s) /\ x.state = "open" /\ x.due = <<>> /\ x.reply = "none"
      BY <2>1, Took
    <2>3. y = Cleared(x)
      BY <2>1, Became
    <2>4. y.due = <<>> /\ y.buffer = <<>> /\ y.state = "open" /\ y.reply = "none"
      BY <1>0, <2>2, <2>3 DEF Cleared, Session
    <2>5. <<>> \o <<>> = <<>>
      BY EmptySeq, ConcatEmptySeq
    <2>6. Held(s)' = <<>>
      BY <2>4, <2>5 DEF Held
    <2>7. Answer("cleared") \in Answers
      BY AnswerType DEF Spoken
    <2>8. <<Answer("cleared")>> \in Seq(Answers) /\ down[s] \in Seq(Answers)
      BY <2>7, SocketTypes
    <2>9. down'[s] = IF s \in gone THEN down[s] ELSE Append(down[s], Answer("cleared"))
      BY <2>1, <2>7, <2>8, Said, AppendIsConcat
    <2>10. QED
      BY <2>2, <2>4, <2>6, <2>9 DEF ServerActs, Clearing
  <1>5. CASE Ping(s)
    <2>1. Takes(s, "ping") /\ Say(s, <<Answer("pong")>>) /\ y = x
      BY <1>5 DEF Ping
    <2>2. Drops(s, {"ping"}) /\ Rests(s) /\ x.state = "open" /\ x.reply = "none"
      BY <2>1, Took
    <2>3. Mutters(s)
      BY <2>1, SaysMuted
    <2>4. Drops(s, {"config", "flush", "close", "ping"})
      BY <2>2 DEF Drops
    <2>5. QED
      BY <2>1, <2>2, <2>3, <2>4 DEF ServerActs, Minding, Held
  <1>6. CASE Reject(s)
    <2>1. PICK t \in {"malformed", "audio", "config"} : Takes(s, t)
      BY <1>6 DEF Reject
    <2>2. Ends(s) /\ Say(s, <<Answer("error"), Answer("bye")>>)
      BY <1>6 DEF Reject
    <2>3. Drops(s, {t}) /\ Rests(s) /\ x.state = "open"
      BY <2>1, Took
    <2>4. Mutters(s)
      BY <2>2, SaysMuted
    <2>5. Drops(s, {"audio", "config", "malformed", "disconnect"})
      BY <2>3 DEF Drops
    <2>6. QED
      BY <2>2, <2>3, <2>4, <2>5, Ended DEF ServerActs, Ending
  <1>7. CASE Disconnect(s)
    <2>1. Takes(s, "disconnect") /\ Ends(s) /\ down'[s] = down[s]
      BY <1>7 DEF Disconnect
    <2>2. Drops(s, {"disconnect"}) /\ Rests(s) /\ x.state = "open"
      BY <2>1, Took
    <2>3. Drops(s, {"audio", "config", "malformed", "disconnect"})
      BY <2>2 DEF Drops
    <2>4. QED
      BY <2>1, <2>2, <2>3, Ended, SaidNothing DEF ServerActs, Ending
  <1>8. QED
    BY <1>1, <1>2, <1>3, <1>4, <1>5, <1>6, <1>7 DEF Receive

LEMMA ServerLocal ==
  ASSUME TypeOK, NEW s \in Sockets, Serve(s) \/ ServerCloses(s) \/ Ask(s)
  PROVE  ServerActs(s)
  <1> DEFINE x == session[s]
             y == session'[s]
  <1>0. x \in Session /\ x.buffer \in Seq(Sample) /\ down[s] \in Seq(Answers)
    BY SocketTypes
  <1>1. CASE Receive(s)
    BY <1>1, ReceiveLocal
  <1>2. CASE UNCHANGED <<up, gone, mic>>
    <2>0. up'[s] = up[s] /\ Rests(s)
      BY <1>2 DEF Rests
    <2>1. CASE Ready(s)
      <3>1. x.state = "asked" /\ y = [x EXCEPT !.state = "open"]
        BY <2>1, Became DEF Ready
      <3>2. Mutters(s)
        BY <2>1, SaysMuted DEF Ready
      <3>3. y.due = x.due /\ y.buffer = x.buffer /\ y.state = "open" /\ y.reply = x.reply
        BY <1>0, <3>1 DEF Session
      <3>4. QED
        BY <2>0, <3>1, <3>2, <3>3 DEF ServerActs, Minding, Held
    <2>2. CASE Refuse(s) \/ CannotServe(s) \/ EngineFails(s) \/ SendFails(s) \/ ServerCloses(s)
      <3>1. x.state \in {"asked", "open"} /\ Ends(s)
        BY <2>2 DEF Refuse, CannotServe, EngineFails, SendFails, ServerCloses
      <3>2. Mutters(s)
        <4>1. CASE Refuse(s)
          BY <4>1, SaysMuted DEF Refuse
        <4>2. CASE CannotServe(s)
          BY <4>2, SaysMuted DEF CannotServe
        <4>3. CASE EngineFails(s)
          BY <4>3, SaysMuted DEF EngineFails
        <4>4. CASE SendFails(s)
          BY <4>4, SaidNothing DEF SendFails
        <4>5. CASE ServerCloses(s)
          BY <4>5, SaysMuted DEF ServerCloses
        <4>6. QED
          BY <2>2, <4>1, <4>2, <4>3, <4>4, <4>5
      <3>3. QED
        BY <2>0, <3>1, <3>2, Ended DEF ServerActs, Ending
    <2>3. CASE Transcribe(s)
      <3>1. x.state = "open" /\ y = Answered(x)
        BY <2>3, Became DEF Transcribe
      <3> DEFINE a == [type |-> "transcript", sequence |-> Answered(x).sequence,
                       samples |-> FirstOf(x.due, x.piece)]
      <3>2. Say(s, <<a>>)
        BY <2>3 DEF Transcribe
      <3>3. a \in Answers
        <4>1. Answered(x) \in Session /\ x.due \in Seq(Sample) /\ x.piece \in Nat
          BY <1>0, AnsweredFacts DEF Session
        <4>2. Answered(x).sequence \in Nat /\ FirstOf(x.due, x.piece) \in Seq(Sample)
          BY <4>1, FirstOfFacts DEF Session
        <4>3. QED
          BY <4>2 DEF Answers, Spoken
      <3>4. a.type = "transcript" /\ a.samples = FirstOf(x.due, x.piece)
        OBVIOUS
      <3> HIDE DEF a
      <3>5. <<a>> \in Seq(Answers)
        BY <3>3
      <3>6. down'[s] = IF s \in gone THEN down[s] ELSE Append(down[s], a)
        BY <1>0, <3>2, <3>3, <3>5, Said, AppendIsConcat
      <3>7. Held(s) = a.samples \o Held(s)' /\ y.buffer = x.buffer /\ y.state = x.state /\ y.reply = x.reply
        BY <1>0, <3>1, <3>4, AnsweredHeld DEF Held
      <3>8. QED
        BY <2>0, <3>1, <3>3, <3>4, <3>6, <3>7 DEF ServerActs, Transcribing
    <2>4. CASE Reply(s)
      <3>1. x.state = "open" /\ x.due = <<>> /\ x.reply \in {"flushed", "closed"} /\ y = Replied(x)
        BY <1>0, <2>4, Became DEF Reply, Session, Replies
      <3>2. y.due = x.due /\ y.buffer = x.buffer /\ y.reply = "none"
            /\ y.state = IF x.reply = "closed" THEN "ended" ELSE "open"
        BY <1>0, <3>1 DEF Replied, Session
      <3>3. CASE x.reply = "flushed"
        <4>1. Answer("flushed") \in Answers
          BY Muted
        <4>2. <<Answer("flushed")>> \o <<>> = <<Answer("flushed")>>
          BY <4>1, ConcatEmptySeq
        <4>3. Say(s, <<Answer("flushed")>>)
          BY <2>4, <3>3, <4>2 DEF Reply
        <4>4. Mutters(s)
          BY <4>3, SaysMuted
        <4>5. QED
          BY <2>0, <3>1, <3>2, <3>3, <4>4 DEF ServerActs, Minding, Held
      <3>4. CASE x.reply = "closed"
        <4> DEFINE c == Answer("closed")
                   b == Answer("bye")
        <4>1. c \in Answers /\ b \in Answers
          BY AnswerType DEF Spoken
        <4>2. Say(s, <<c>> \o <<b>>)
          BY <2>4, <3>4 DEF Reply
        <4> HIDE DEF c, b
        <4>3. <<c>> \in Seq(Answers) /\ <<b>> \in Seq(Answers) /\ Append(down[s], c) \in Seq(Answers)
          BY <1>0, <4>1, AppendProperties
        <4>4. <<c>> \o <<b>> \in Seq(Answers)
          BY <4>3, ConcatProperties
        <4>5. down'[s] = IF s \in gone THEN down[s] ELSE down[s] \o (<<c>> \o <<b>>)
          BY <4>2, <4>4, Said
        <4>6. PICK d \in Seq(Answers) : d = down[s]
          BY <1>0
        <4>7. d \o (<<c>> \o <<b>>) = (d \o <<c>>) \o <<b>>
          BY <4>3, AnswerRegroup, Zenon
        <4>8. d \o <<c>> = Append(d, c) /\ Append(d, c) \o <<b>> = Append(Append(d, c), b)
          BY <4>1, <4>3, <4>6, AppendIsConcat
        <4>9. down'[s] = IF s \in gone THEN down[s] ELSE Append(Append(down[s], c), b)
          BY <4>5, <4>6, <4>7, <4>8
        <4>10. QED
          BY <2>0, <3>1, <3>2, <3>4, <4>9 DEF ServerActs, Finishing, c, b
      <3>5. QED
        BY <3>1, <3>3, <3>4
    <2>5. CASE Ask(s)
      <3>1. x.state = "none" /\ y = [x EXCEPT !.state = "asked"]
        BY <2>5, Became DEF Ask
      <3>2. y.due = x.due /\ y.buffer = x.buffer /\ y.state = "asked" /\ y.reply = x.reply
        BY <1>0, <3>1 DEF Session
      <3>3. Mutters(s)
        BY <2>5, SaidNothing DEF Ask
      <3>4. QED
        BY <2>0, <3>1, <3>2, <3>3 DEF ServerActs, Minding, Held
    <2>6. QED
      BY <1>1, <2>1, <2>2, <2>3, <2>4, <2>5 DEF Serve
  <1>3. QED
    BY <1>1, <1>2 DEF Serve, Ready, Refuse, CannotServe, Transcribe, EngineFails, Reply, SendFails, ServerCloses, Ask

LEMMA ElsewhereStill ==
  ASSUME TypeOK, NEW s \in Sockets, NEW r \in Sockets, r # s,
         Ask(s) \/ Client(s) \/ Serve(s) \/ ServerCloses(s)
  PROVE  Still(r)
  <1>0. /\ session \in [Sockets -> Session] /\ up \in [Sockets -> Seq(Messages)]
        /\ down \in [Sockets -> Seq(Answers)] /\ mic \in [Sockets -> [take : Nat, n : Nat]]
    BY DEF TypeOK
  <1>1. ASSUME NEW y, Becomes(s, y)
        PROVE  session'[r] = session[r]
    BY <1>0, <1>1 DEF Becomes
  <1>2. Ends(s) => session'[r] = session[r]
    BY <1>1 DEF Ends
  <1>3. ASSUME NEW q, Say(s, q)
        PROVE  down'[r] = down[r]
    BY <1>0, <1>3 DEF Say
  <1>4. ASSUME NEW m, Sent(s, m)
        PROVE  up'[r] = up[r]
    BY <1>0, <1>4 DEF Sent
  <1>5. ASSUME NEW t, Takes(s, t)
        PROVE  up'[r] = up[r] /\ Rests(r)
    BY <1>0, <1>5 DEF Takes, Rests
  <1>6. UNCHANGED <<gone, mic>> => Rests(r)
    BY DEF Rests
  <1>7. CASE Receive(s)
    <2>1. up'[r] = up[r] /\ Rests(r)
      BY <1>7, <1>5 DEF Receive, Hear, Configure, Flush, Clear, Ping, Reject, Disconnect
    <2>2. session'[r] = session[r]
      BY <1>7, <1>1, <1>2 DEF Receive, Hear, Configure, Flush, Clear, Ping, Reject, Disconnect
    <2>3. down'[r] = down[r]
      BY <1>7, <1>3 DEF Receive, Hear, Configure, Flush, Clear, Ping, Reject, Disconnect
    <2>4. QED
      BY <2>1, <2>2, <2>3 DEF Still
  <1>8. CASE \/ Ready(s) \/ Refuse(s) \/ CannotServe(s) \/ Transcribe(s) \/ EngineFails(s)
             \/ Reply(s) \/ SendFails(s) \/ ServerCloses(s) \/ Ask(s)
    <2>1. up'[r] = up[r] /\ Rests(r)
      BY <1>8, <1>6 DEF Ready, Refuse, CannotServe, Transcribe, EngineFails, Reply, SendFails,
         ServerCloses, Ask
    <2>2. session'[r] = session[r]
      BY <1>8, <1>1, <1>2 DEF Ready, Refuse, CannotServe, Transcribe, EngineFails, Reply, SendFails,
         ServerCloses, Ask
    <2>3. down'[r] = down[r]
      BY <1>8, <1>3 DEF Ready, Refuse, CannotServe, Transcribe, EngineFails, Reply, SendFails,
         ServerCloses, Ask
    <2>4. QED
      BY <2>1, <2>2, <2>3 DEF Still
  <1>9. CASE Client(s)
    <2>1. UNCHANGED <<session, down>>
      BY <1>9 DEF Client, Speak, Request, AskToConfigure, AskToClear
    <2>2. CASE \E k \in 0 .. MaxSpoken : Speak(s, k)
      BY <1>0, <2>1, <2>2, <1>4 DEF Speak, Still, Rests
    <2>3. CASE \E t \in {"flush", "ping", "close", "malformed"} : Request(s, t)
      BY <2>1, <2>3, <1>4, <1>6 DEF Request, Still
    <2>4. CASE \E c \in Candidates : AskToConfigure(s, c)
      BY <2>1, <2>4, <1>4, <1>6 DEF AskToConfigure, Still
    <2>5. CASE AskToClear(s)
      BY <1>0, <2>1, <2>5, <1>4 DEF AskToClear, Still, Rests
    <2>6. CASE HangUp(s) /\ UNCHANGED <<session, down, mic>>
      BY <2>6, <1>4 DEF HangUp, Still, Rests
    <2>7. CASE Break(s) /\ UNCHANGED <<session, down, mic>>
      BY <1>0, <2>7 DEF Break, Still, Rests
    <2>8. QED
      BY <1>9, <2>2, <2>3, <2>4, <2>5, <2>6, <2>7 DEF Client
  <1>10. QED
    BY <1>7, <1>8, <1>9 DEF Serve

\* A step changes one socket, in one of these ways.
LEMMA OneSocket ==
  ASSUME TypeOK, [Next]_vars, NEW s \in Sockets
  PROVE  Still(s) \/ ClientActs(s) \/ ServerActs(s)
  <1>1. CASE UNCHANGED vars
    BY <1>1 DEF vars, Still, Rests
  <1>2. CASE Next
    <2>1. PICK r \in Sockets : Ask(r) \/ Client(r) \/ Serve(r) \/ ServerCloses(r)
      BY <1>2 DEF Next
    <2>2. CASE r = s
      BY <2>1, <2>2, ClientLocal, ServerLocal
    <2>3. CASE r # s
      BY <2>1, <2>3, ElsewhereStill
    <2>4. QED
      BY <2>2, <2>3
  <1>3. QED
    BY <1>1, <1>2

-----------------------------------------------------------------------------
\* After "closed".

\* A session that is over holds nothing, and one that has still to reply has nothing
\* left in its buffer.
Quiet(s) == /\ session[s].state = "ended" => session[s].due = <<>> /\ session[s].buffer = <<>>
            /\ session[s].reply # "none" => session[s].buffer = <<>>

\* "closed" is the last word of a session that is over, but for the closing frame.
LastWord(s) == \A i \in 1 .. Len(down[s]) : down[s][i].type = "closed" =>
  /\ session[s].state = "ended"
  /\ \A j \in i + 1 .. Len(down[s]) : down[s][j].type = "bye"

LEMMA Uttered ==
  ASSUME TypeOK, NEW s \in Sockets, NEW a \in Answers, a.type # "closed", LastWord(s),
         session[s].state # "ended",
         down'[s] = IF s \in gone THEN down[s] ELSE Append(down[s], a)
  PROVE  LastWord(s)'
  <1>1. down[s] \in Seq(Answers) /\ Len(down[s]) \in Nat
    BY SocketTypes, LenProperties
  <1>2. /\ Len(Append(down[s], a)) = Len(down[s]) + 1
        /\ \A i \in 1 .. Len(down[s]) : Append(down[s], a)[i] = down[s][i]
        /\ Append(down[s], a)[Len(down[s]) + 1] = a
    BY <1>1, AppendProperties
  <1>3. \A i \in 1 .. Len(down'[s]) : down'[s][i].type # "closed"
    BY <1>1, <1>2 DEF LastWord
  <1>4. QED
    BY <1>3 DEF LastWord

LEMMA Muttered ==
  ASSUME TypeOK, NEW s \in Sockets, Mutters(s), LastWord(s), session[s].state # "ended"
  PROVE  LastWord(s)'
  <1>1. PICK q \in Seq(Answers) : Mute(q) /\ down'[s] = down[s] \o q
    BY DEF Mutters
  <1>2. down[s] \in Seq(Answers) /\ Len(down[s]) \in Nat /\ Len(q) \in Nat
    BY SocketTypes, LenProperties
  <1>3. /\ Len(down[s] \o q) = Len(down[s]) + Len(q)
        /\ \A i \in 1 .. Len(down[s]) + Len(q) :
             (down[s] \o q)[i] = IF i <= Len(down[s]) THEN down[s][i] ELSE q[i - Len(down[s])]
    BY <1>2, ConcatProperties
  <1>4. ASSUME NEW i \in 1 .. Len(down'[s])
        PROVE  down'[s][i].type # "closed"
    <2>1. CASE i <= Len(down[s])
      BY <1>1, <1>2, <1>3, <2>1 DEF LastWord
    <2>2. CASE ~(i <= Len(down[s]))
      <3>1. i - Len(down[s]) \in 1 .. Len(q)
        BY <1>1, <1>2, <1>3, <2>2
      <3>2. down'[s][i] = q[i - Len(down[s])]
        BY <1>1, <1>2, <1>3, <2>2
      <3>3. QED
        BY <1>1, <3>1, <3>2 DEF Mute
    <2>3. QED
      BY <2>1, <2>2
  <1>5. QED
    BY <1>4 DEF LastWord

LEMMA LastWordStep ==
  ASSUME TypeOK, NEW s \in Sockets, Quiet(s), LastWord(s), Still(s) \/ ClientActs(s) \/ ServerActs(s)
  PROVE  Quiet(s)' /\ LastWord(s)'
  <1>0. session[s] \in Session /\ session[s].due \in Seq(Sample) /\ session[s].buffer \in Seq(Sample)
        /\ down[s] \in Seq(Answers)
    BY SocketTypes
  <1>1. CASE Still(s) \/ ClientActs(s)
    BY <1>1 DEF Still, ClientActs, Asking, Speaking, AskingClear, Breaking, Listens, Quiet, LastWord
  <1>2. CASE Ending(s)
    BY <1>2, Muttered DEF Ending, Quiet
  <1>3. CASE Minding(s)
    BY <1>3, Muttered DEF Minding, Quiet
  <1>4. CASE Hearing(s)
    <2>1. Quiet(s)'
      BY <1>4 DEF Hearing, Quiet
    <2>2. LastWord(s)'
      BY <1>4 DEF Hearing, LastWord
    <2>3. QED
      BY <2>1, <2>2
  <1>5. CASE Clearing(s)
    <2>1. Answer("cleared") \in Answers /\ Answer("cleared").type # "closed"
      BY AnswerType DEF Spoken, Answer
    <2>2. QED
      BY <1>5, <2>1, Uttered DEF Clearing, Quiet
  <1>6. CASE Transcribing(s)
    <2>1. LastWord(s)'
      BY <1>6, Uttered DEF Transcribing
    <2>2. Quiet(s)'
      BY <1>6 DEF Transcribing, Quiet
    <2>3. QED
      BY <2>1, <2>2
  <1>7. CASE Finishing(s)
    <2>1. Quiet(s)' /\ session'[s].state = "ended"
      BY <1>7 DEF Finishing, Quiet
    <2> DEFINE c == Answer("closed")
               b == Answer("bye")
               n == Len(down[s])
    <2>2. c \in Answers /\ b \in Answers /\ b.type = "bye"
      BY AnswerType DEF Answer, Spoken
    <2>3. down'[s] = IF s \in gone THEN down[s] ELSE Append(Append(down[s], c), b)
      BY <1>7 DEF Finishing
    <2> HIDE DEF c, b
    <2>4. /\ n \in Nat /\ Append(down[s], c) \in Seq(Answers)
          /\ Len(Append(down[s], c)) = n + 1
          /\ \A i \in 1 .. n : Append(down[s], c)[i] = down[s][i]
      BY <1>0, <2>2, AppendProperties, LenProperties
    <2>5. /\ Len(Append(Append(down[s], c), b)) = n + 2
          /\ \A i \in 1 .. n : Append(Append(down[s], c), b)[i] = down[s][i]
          /\ Append(Append(down[s], c), b)[n + 2] = b
      <3>1. /\ Len(Append(Append(down[s], c), b)) = (n + 1) + 1
            /\ \A i \in 1 .. n + 1 : Append(Append(down[s], c), b)[i] = Append(down[s], c)[i]
            /\ Append(Append(down[s], c), b)[(n + 1) + 1] = b
        BY <2>2, <2>4, AppendProperties
      <3>2. (n + 1) + 1 = n + 2 /\ \A i \in 1 .. n : i \in 1 .. n + 1
        BY <2>4
      <3>3. QED
        BY <2>4, <3>1, <3>2
    <2>6. \A i \in 1 .. n : down[s][i].type # "closed"
      BY <1>7 DEF Finishing, LastWord
    <2>7. LastWord(s)'
      <3>1. CASE s \in gone
        BY <2>3, <2>6, <3>1 DEF LastWord
      <3>2. CASE s \notin gone
        <4>1. down'[s] = Append(Append(down[s], c), b) /\ Len(down'[s]) = n + 2
          BY <2>3, <2>5, <3>2
        <4>2. ASSUME NEW i \in 1 .. n + 2, down'[s][i].type = "closed", NEW j \in i + 1 .. n + 2
              PROVE  down'[s][j].type = "bye"
          <5>1. i \notin 1 .. n
            BY <2>5, <2>6, <4>1, <4>2
          <5>2. j = n + 2
            BY <2>4, <4>2, <5>1
          <5>3. QED
            BY <2>2, <2>5, <4>1, <5>2
        <4>3. QED
          BY <2>1, <4>1, <4>2 DEF LastWord
      <3>3. QED
        BY <3>1, <3>2
    <2>8. QED
      BY <2>1, <2>7
  <1>8. QED
    BY <1>1, <1>2, <1>3, <1>4, <1>5, <1>6, <1>7 DEF ServerActs

QuietClose == \A s \in Sockets : Quiet(s) /\ LastWord(s)

LEMMA InitQuiet == Init => QuietClose
  <1> SUFFICES ASSUME Init, NEW s \in Sockets
               PROVE  Quiet(s) /\ LastWord(s)
    BY DEF QuietClose
  <1>1. session[s].due = <<>> /\ session[s].buffer = <<>> /\ down[s] = <<>>
    BY DEF Init, New
  <1>2. Len(down[s]) = 0
    BY <1>1, EmptySeq
  <1>3. QED
    BY <1>1, <1>2 DEF Quiet, LastWord

\* "closed" is a promise kept to any client: all audio the socket took is answered by
\* then, and only the closing frame follows, whatever was queued, flushed or configured
\* (router.py: the reply to "close" ends realtime_asr()).
THEOREM ClosedLast == Spec => []ClosedIsLast
  <1>1. TypeOK /\ QuietClose /\ [Next]_vars => QuietClose'
    BY OneSocket, LastWordStep DEF QuietClose
  <1>2. QuietClose => ClosedIsLast
    <2>1. <<>> \o <<>> = <<>>
      BY EmptySeq, ConcatEmptySeq
    <2>2. QED
      BY <2>1 DEF QuietClose, Quiet, LastWord, ClosedIsLast, Held
  <1>3. QED
    BY <1>1, <1>2, InitQuiet, TypeCorrect, PTL DEF Spec

-----------------------------------------------------------------------------
\* Counting the answers to "clear".

LEMMA CountType ==
  ASSUME NEW q, NEW i \in Nat
  PROVE  ClearsAnswered(q, i) \in Nat /\ IsFiniteSet({h \in 1 .. i : q[h].type = "cleared"})
  <1> DEFINE T == {h \in 1 .. i : q[h].type = "cleared"}
  <1>1. IsFiniteSet(1 .. i)
    BY FS_Interval
  <1>2. T \subseteq 1 .. i
    OBVIOUS
  <1> HIDE DEF T
  <1>3. IsFiniteSet(T)
    BY <1>1, <1>2, FS_Subset
  <1>4. Cardinality(T) \in Nat
    BY <1>3, FS_CardinalityType
  <1>5. QED
    BY <1>3, <1>4 DEF T, ClearsAnswered

LEMMA CountGrows ==
  ASSUME NEW q, NEW i \in Nat, NEW j \in Nat, i <= j
  PROVE  ClearsAnswered(q, i) <= ClearsAnswered(q, j)
  <1> DEFINE T == {h \in 1 .. i : q[h].type = "cleared"}
             U == {h \in 1 .. j : q[h].type = "cleared"}
  <1>1. T \subseteq U
    OBVIOUS
  <1>2. IsFiniteSet(U)
    BY CountType
  <1> HIDE DEF T, U
  <1>3. Cardinality(T) <= Cardinality(U)
    BY <1>1, <1>2, FS_Subset
  <1>4. QED
    BY <1>3 DEF T, U, ClearsAnswered

LEMMA CountPrefix ==
  ASSUME NEW q, NEW r, NEW i \in Nat, NEW j \in Nat, i <= j,
         \A h \in 1 .. i : r[h] = q[h],
         \A h \in i + 1 .. j : r[h].type # "cleared"
  PROVE  ClearsAnswered(r, j) = ClearsAnswered(q, i)
  <1>1. {h \in 1 .. j : r[h].type = "cleared"} = {h \in 1 .. i : q[h].type = "cleared"}
    <2>1. \A h \in 1 .. j : h \in 1 .. i \/ h \in i + 1 .. j
      OBVIOUS
    <2>2. \A h \in 1 .. i : h \in 1 .. j
      OBVIOUS
    <2>3. QED
      BY <2>1, <2>2
  <1>2. QED
    BY <1>1 DEF ClearsAnswered

LEMMA CountOneMore ==
  ASSUME NEW q \in Seq(Answers), NEW a \in Answers
  PROVE  ClearsAnswered(Append(q, a), Len(q) + 1) <= ClearsAnswered(q, Len(q)) + 1
  <1> DEFINE n == Len(q)
             r == Append(q, a)
             T == {h \in 1 .. n : q[h].type = "cleared"}
             U == {h \in 1 .. n + 1 : r[h].type = "cleared"}
  <1>1. n \in Nat /\ \A h \in 1 .. n : r[h] = q[h]
    BY AppendProperties, LenProperties
  <1>2. IsFiniteSet(T) /\ Cardinality(T) \in Nat
    BY <1>1, CountType DEF ClearsAnswered
  <1>3. U \subseteq T \cup {n + 1}
    <2>1. \A h \in 1 .. n + 1 : h \in 1 .. n \/ h = n + 1
      BY <1>1
    <2>2. QED
      BY <1>1, <2>1
  <1>4. n + 1 \notin T
    BY <1>1
  <1> HIDE DEF T, U
  <1>5. IsFiniteSet(T \cup {n + 1}) /\ Cardinality(T \cup {n + 1}) = Cardinality(T) + 1
    BY <1>2, <1>4, FS_AddElement
  <1>6. Cardinality(U) <= Cardinality(T) + 1
    BY <1>3, <1>5, FS_Subset
  <1>7. QED
    BY <1>6 DEF T, U, ClearsAnswered

-----------------------------------------------------------------------------
\* Takes.  t[j] is the take a socket's audio belongs to after the j-th of the messages q
\* on the way to the server; t[0] is the take the server is at.

Paces(q, t) ==
  /\ t \in [0 .. Len(q) -> Nat]
  /\ \A j \in 1 .. Len(q) : t[j] = t[j - 1] + (IF q[j].type = "clear" THEN 1 ELSE 0)
  /\ \A j \in 1 .. Len(q) : q[j].type = "audio" =>
       \A k \in 1 .. Len(q[j].samples) : q[j].samples[k][1] = t[j]

LEMMA PaceAppend ==
  ASSUME NEW q \in Seq(Messages), NEW m \in Messages, NEW t, Paces(q, t),
         m.type = "audio" => \A k \in 1 .. Len(m.samples) : m.samples[k][1] = t[Len(q)]
  PROVE  \E u : /\ Paces(Append(q, m), u)
                /\ u[0] = t[0]
                /\ u[Len(Append(q, m))] = t[Len(q)] + (IF m.type = "clear" THEN 1 ELSE 0)
  <1> DEFINE n == Len(q)
             r == Append(q, m)
             last == t[n] + (IF m.type = "clear" THEN 1 ELSE 0)
             u == [j \in 0 .. n + 1 |-> IF j = n + 1 THEN last ELSE t[j]]
  <1>1. /\ n \in Nat /\ Len(r) = n + 1
        /\ \A j \in 1 .. n : r[j] = q[j]
        /\ r[n + 1] = m
    BY AppendProperties, LenProperties
  <1>2. t \in [0 .. n -> Nat] /\ n \in 0 .. n /\ t[n] \in Nat
    BY <1>1 DEF Paces
  <1>3. last \in Nat
    BY <1>2
  <1>4. u[n + 1] = last /\ \A j \in 0 .. n : u[j] = t[j]
    BY <1>1
  <1>5. u \in [0 .. n + 1 -> Nat]
    <2>1. \A j \in 0 .. n + 1 : j # n + 1 => j \in 0 .. n
      BY <1>1
    <2>2. QED
      BY <1>2, <1>3, <2>1
  <1> HIDE DEF u, r
  <1>6. ASSUME NEW j \in 1 .. n + 1
        PROVE  /\ u[j] = u[j - 1] + (IF r[j].type = "clear" THEN 1 ELSE 0)
               /\ r[j].type = "audio" =>
                    \A k \in 1 .. Len(r[j].samples) : r[j].samples[k][1] = u[j]
    <2>1. CASE j = n + 1
      <3>1. j - 1 = n /\ u[j - 1] = t[n] /\ u[j] = last /\ r[j] = m
        BY <1>1, <1>2, <1>4, <2>1
      <3>2. m.type = "audio" => last = t[n]
        BY <1>2
      <3>3. QED
        BY <3>1, <3>2
    <2>2. CASE j # n + 1
      <3>1. j \in 1 .. n /\ j - 1 \in 0 .. n /\ j \in 0 .. n
        BY <1>1, <2>2
      <3>2. u[j] = t[j] /\ u[j - 1] = t[j - 1] /\ r[j] = q[j]
        BY <1>1, <1>4, <3>1
      <3>3. QED
        BY <3>1, <3>2 DEF Paces
    <2>3. QED
      BY <2>1, <2>2
  <1>7. Paces(r, u)
    BY <1>1, <1>5, <1>6 DEF Paces
  <1>8. u[0] = t[0] /\ u[Len(r)] = last
    BY <1>1, <1>4
  <1>9. QED
    BY <1>7, <1>8 DEF r

LEMMA PaceTail ==
  ASSUME NEW q \in Seq(Messages), q # <<>>, NEW t, Paces(q, t)
  PROVE  \E u : /\ Paces(Tail(q), u)
                /\ u[0] = t[1]
                /\ u[Len(Tail(q))] = t[Len(q)]
  <1> DEFINE n == Len(q)
             r == Tail(q)
             u == [j \in 0 .. n - 1 |-> t[j + 1]]
  <1>1. n \in Nat /\ n # 0
    BY EmptySeq, LenProperties
  <1>2. Len(r) = n - 1 /\ \A j \in 1 .. n - 1 : r[j] = q[j + 1]
    BY <1>1, HeadTailProperties
  <1>3. \A j \in 0 .. n - 1 : u[j] = t[j + 1] /\ j + 1 \in 0 .. n
    BY <1>1
  <1>4. u \in [0 .. n - 1 -> Nat]
    BY <1>3 DEF Paces
  <1> HIDE DEF u, r
  <1>5. ASSUME NEW j \in 1 .. n - 1
        PROVE  /\ u[j] = u[j - 1] + (IF r[j].type = "clear" THEN 1 ELSE 0)
               /\ r[j].type = "audio" =>
                    \A k \in 1 .. Len(r[j].samples) : r[j].samples[k][1] = u[j]
    <2>1. j + 1 \in 1 .. n /\ (j + 1) - 1 = j /\ j - 1 \in 0 .. n - 1 /\ (j - 1) + 1 = j /\ j \in 0 .. n - 1
      BY <1>1
    <2>2. u[j] = t[j + 1] /\ u[j - 1] = t[j] /\ r[j] = q[j + 1]
      BY <1>2, <1>3, <2>1
    <2>3. QED
      BY <2>1, <2>2 DEF Paces
  <1>6. Paces(r, u)
    BY <1>2, <1>4, <1>5 DEF Paces
  <1>7. 0 \in 0 .. n - 1 /\ n - 1 \in 0 .. n - 1 /\ (n - 1) + 1 = n
    BY <1>1
  <1>8. u[0] = t[1] /\ u[Len(r)] = t[n]
    BY <1>2, <1>3, <1>7
  <1>9. QED
    BY <1>6, <1>8 DEF r

LEMMA PaceCut ==
  ASSUME NEW q \in Seq(Messages), NEW t, Paces(q, t), NEW i \in 0 .. Len(q)
  PROVE  /\ SubSeq(q, 1, i) \in Seq(Messages)
         /\ \E u : Paces(SubSeq(q, 1, i), u) /\ u[0] = t[0]
  <1> DEFINE r == SubSeq(q, 1, i)
             u == [j \in 0 .. i |-> t[j]]
  <1>1. Len(q) \in Nat /\ i \in Nat /\ i <= Len(q)
    BY LenProperties
  <1>2. \A j \in 1 .. i : q[j] \in Messages
    BY <1>1, ElementOfSeq
  <1>3. /\ r \in Seq(Messages)
        /\ Len(r) = IF 1 <= i THEN i - 1 + 1 ELSE 0
        /\ \A j \in 1 .. i - 1 + 1 : r[j] = q[1 + j - 1]
    BY <1>1, <1>2, SubSeqProperties
  <1>4. Len(r) = i /\ \A j \in 1 .. i : r[j] = q[j]
    BY <1>1, <1>3
  <1>5. \A j \in 0 .. i : u[j] = t[j] /\ j \in 0 .. Len(q)
    BY <1>1
  <1>6. u \in [0 .. i -> Nat]
    BY <1>5 DEF Paces
  <1>7. \A j \in 1 .. i : j \in 1 .. Len(q) /\ j - 1 \in 0 .. i /\ j \in 0 .. i
    BY <1>1
  <1> HIDE DEF u, r
  <1>8. Paces(r, u)
    <2>1. u \in [0 .. Len(r) -> Nat]
      BY <1>4, <1>6
    <2>2. ASSUME NEW j \in 1 .. Len(r)
          PROVE  /\ u[j] = u[j - 1] + (IF r[j].type = "clear" THEN 1 ELSE 0)
                 /\ r[j].type = "audio" =>
                      \A k \in 1 .. Len(r[j].samples) : r[j].samples[k][1] = u[j]
      <3>1. j \in 1 .. Len(q) /\ r[j] = q[j] /\ u[j] = t[j] /\ u[j - 1] = t[j - 1]
        BY <1>4, <1>5, <1>7
      <3>2. QED
        BY <3>1 DEF Paces
    <2>3. QED
      BY <2>1, <2>2 DEF Paces
  <1>9. QED
    BY <1>1, <1>3, <1>5, <1>8 DEF r

\* The server is at take b: it has confirmed fewer "clear"s, answered no later audio,
\* and holds audio of that take only.
Behind(d, held, b) ==
  /\ ClearsAnswered(d, Len(d)) < b
  /\ \A k \in 1 .. Len(held) : held[k][1] = b
  /\ \A j \in 1 .. Len(d) : \A k \in 1 .. Len(d[j].samples) : d[j].samples[k][1] <= b

\* What ClearForgets says of one socket.
Forgets(d) == \A i, j \in 1 .. Len(d) :
  i < j /\ d[i].type = "cleared" =>
    \A k \in 1 .. Len(d[j].samples) : d[j].samples[k][1] > ClearsAnswered(d, i)

Placed(s) == \E t : /\ Paces(up[s], t)
                    /\ Behind(down[s], Held(s), t[0])
                    /\ s \notin gone => mic[s].take = t[Len(up[s])]

\* Saying more audio of the take the server is at.
LEMMA MoreOfTake ==
  ASSUME NEW d \in Seq(Answers), NEW held, NEW b \in Nat, Behind(d, held, b), Forgets(d),
         NEW q \in Seq(Answers),
         \A i \in 1 .. Len(q) : /\ q[i].type # "cleared"
                                /\ \A k \in 1 .. Len(q[i].samples) : q[i].samples[k][1] = b
  PROVE  Behind(d \o q, held, b) /\ Forgets(d \o q)
  <1> DEFINE n == Len(d)
             m == Len(q)
             e == d \o q
  <1>1. /\ n \in Nat /\ m \in Nat /\ Len(e) = n + m /\ e \in Seq(Answers)
        /\ \A i \in 1 .. n + m : e[i] = IF i <= n THEN d[i] ELSE q[i - n]
    BY ConcatProperties, LenProperties
  <1> HIDE DEF e
  <1>2. \A i \in 1 .. n : e[i] = d[i]
    BY <1>1
  <1>3. ASSUME NEW i \in n + 1 .. n + m
        PROVE  /\ e[i].type # "cleared"
               /\ \A k \in 1 .. Len(e[i].samples) : e[i].samples[k][1] = b
    <2>1. i - n \in 1 .. m /\ e[i] = q[i - n]
      BY <1>1
    <2>2. QED
      BY <2>1
  <1>4. ClearsAnswered(e, n + m) = ClearsAnswered(d, n)
    <2>1. n + m \in Nat /\ n <= n + m
      BY <1>1
    <2>2. QED
      BY <1>1, <1>2, <1>3, <2>1, CountPrefix, SMTT(30)
  <1>5. \A i \in 1 .. n + m : i \in 1 .. n \/ i \in n + 1 .. n + m
    BY <1>1
  <1>6. Behind(e, held, b)
    <2>1. ASSUME NEW j \in 1 .. n + m, NEW k \in 1 .. Len(e[j].samples)
          PROVE  e[j].samples[k][1] <= b
      <3>1. CASE j \in 1 .. n
        BY <1>2, <3>1 DEF Behind
      <3>2. CASE j \in n + 1 .. n + m
        BY <1>3, <3>2
      <3>3. QED
        BY <1>5, <3>1, <3>2
    <2>2. QED
      BY <1>1, <1>4, <2>1 DEF Behind
  <1>7. Forgets(e)
    <2>1. ASSUME NEW i \in 1 .. n + m, NEW j \in 1 .. n + m, i < j, e[i].type = "cleared",
                 NEW k \in 1 .. Len(e[j].samples)
          PROVE  e[j].samples[k][1] > ClearsAnswered(e, i)
      <3>1. i \in 1 .. n
        BY <1>3, <1>5, <2>1
      <3>2. i \in Nat /\ i <= n /\ d[i].type = "cleared"
        BY <1>1, <1>2, <2>1, <3>1
      <3>3. ClearsAnswered(e, i) = ClearsAnswered(d, i)
        <4>1. i <= i /\ \A h \in 1 .. i : e[h] = d[h]
          BY <1>1, <1>2, <3>2
        <4>2. \A h \in i + 1 .. i : e[h].type # "cleared"
          BY <3>2
        <4>3. QED
          BY <3>2, <4>1, <4>2, CountPrefix
      <3>4. CASE j \in 1 .. n
        BY <1>2, <2>1, <3>1, <3>2, <3>3, <3>4 DEF Forgets
      <3>5. CASE j \in n + 1 .. n + m
        <4>1. e[j].samples[k][1] = b
          BY <1>3, <2>1, <3>5
        <4>2. ClearsAnswered(d, i) <= ClearsAnswered(d, n)
          BY <1>1, <3>2, CountGrows
        <4>3. ClearsAnswered(d, i) \in Nat /\ ClearsAnswered(d, n) \in Nat
          BY <1>1, <3>2, CountType
        <4>4. ClearsAnswered(d, n) < b
          BY DEF Behind
        <4>5. QED
          BY <3>3, <4>1, <4>2, <4>3, <4>4
      <3>6. QED
        BY <1>5, <3>4, <3>5
    <2>2. QED
      BY <1>1, <2>1 DEF Forgets
  <1>8. QED
    BY <1>6, <1>7 DEF e

\* Confirming a "clear": the server is at the next take and holds nothing.
LEMMA NextTake ==
  ASSUME NEW d \in Seq(Answers), NEW held, NEW b \in Nat, Behind(d, held, b), Forgets(d),
         NEW a \in Answers, a.samples = <<>>
  PROVE  Behind(Append(d, a), <<>>, b + 1) /\ Forgets(Append(d, a))
  <1> DEFINE n == Len(d)
             e == Append(d, a)
  <1>1. /\ n \in Nat /\ Len(e) = n + 1
        /\ \A i \in 1 .. n : e[i] = d[i]
        /\ e[n + 1] = a
    BY AppendProperties, LenProperties
  <1>2. Len(<<>>) = 0
    BY EmptySeq
  <1>3. ClearsAnswered(e, n + 1) <= ClearsAnswered(d, n) + 1
    BY CountOneMore
  <1>4. ClearsAnswered(e, n + 1) \in Nat /\ ClearsAnswered(d, n) \in Nat
    <2>1. n + 1 \in Nat
      BY <1>1
    <2>2. QED
      BY <1>1, <2>1, CountType
  <1> HIDE DEF e
  <1>5. \A i \in 1 .. n + 1 : i \in 1 .. n \/ i = n + 1
    BY <1>1
  <1>6. Behind(e, <<>>, b + 1)
    <2>1. ASSUME NEW j \in 1 .. n + 1, NEW k \in 1 .. Len(e[j].samples)
          PROVE  e[j].samples[k][1] <= b + 1
      <3>1. j \in 1 .. n
        BY <1>1, <1>2, <1>5, <2>1
      <3>2. e[j] = d[j] /\ d[j].samples[k][1] <= b
        BY <1>1, <2>1, <3>1 DEF Behind
      <3>3. d[j].samples[k][1] \in Nat
        <4>1. d[j] \in Answers
          BY <1>1, <3>1, ElementOfSeq
        <4>2. d[j].samples \in Seq(Sample) /\ k \in 1 .. Len(d[j].samples)
          BY <2>1, <3>2, <4>1 DEF Answers
        <4>3. d[j].samples[k] \in Sample
          BY <4>2, ElementOfSeq
        <4>4. QED
          BY <4>3 DEF Sample
      <3>4. QED
        BY <3>2, <3>3
    <2>2. ClearsAnswered(d, n) < b
      BY DEF Behind
    <2>3. ClearsAnswered(e, n + 1) < b + 1
      BY <1>3, <1>4, <2>2
    <2>4. QED
      BY <1>1, <1>2, <2>1, <2>3 DEF Behind
  <1>7. Forgets(e)
    <2>1. ASSUME NEW i \in 1 .. n + 1, NEW j \in 1 .. n + 1, i < j, e[i].type = "cleared",
                 NEW k \in 1 .. Len(e[j].samples)
          PROVE  e[j].samples[k][1] > ClearsAnswered(e, i)
      <3>1. j \in 1 .. n
        BY <1>1, <1>2, <1>5, <2>1
      <3>2. i \in 1 .. n
        BY <1>1, <2>1, <3>1
      <3>3. i \in Nat /\ i <= n
        BY <1>1, <3>2
      <3>4. ClearsAnswered(e, i) = ClearsAnswered(d, i)
        <4>1. i <= i /\ \A h \in 1 .. i : e[h] = d[h]
          BY <1>1, <3>3
        <4>2. \A h \in i + 1 .. i : e[h].type # "cleared"
          BY <3>3
        <4>3. QED
          BY <3>3, <4>1, <4>2, CountPrefix
      <3>5. QED
        BY <1>1, <2>1, <3>1, <3>2, <3>4 DEF Forgets
    <2>2. QED
      BY <1>1, <2>1 DEF Forgets
  <1>8. QED
    BY <1>6, <1>7 DEF e

LEMMA SpeechFacts ==
  ASSUME TypeOK, NEW s \in Sockets, NEW k \in Nat
  PROVE  /\ Speech(s, k) \in Seq(Sample) /\ Len(Speech(s, k)) = k
         /\ \A i \in 1 .. k : Speech(s, k)[i] = <<mic[s].take, mic[s].n + i>>
         /\ \A i \in 1 .. Len(Speech(s, k)) : Speech(s, k)[i][1] = mic[s].take
  <1> DEFINE t0 == mic[s].take
             k0 == mic[s].n
             said == [i \in 1 .. k |-> <<t0, k0 + i>>]
  <1>1. t0 \in Nat /\ k0 \in Nat
    BY SocketTypes
  <1>2. said = Speech(s, k)
    BY DEF Speech
  <1> HIDE DEF t0, k0
  <1>3. \A i \in 1 .. k : <<t0, k0 + i>> \in Sample
    <2>1. \A i \in 1 .. k : k0 + i \in Nat
      BY <1>1
    <2>2. QED
      BY <1>1, <2>1 DEF Sample
  <1>4. said \in [1 .. k -> Sample] /\ \A i \in 1 .. k : said[i] = <<t0, k0 + i>>
    BY <1>3
  <1> HIDE DEF said
  <1>5. said \in Seq(Sample) /\ Len(said) = k
    BY <1>4, SeqDef, LenProperties
  <1>6. \A i \in 1 .. k : said[i][1] = t0
    BY <1>4
  <1>7. QED
    BY <1>2, <1>4, <1>5, <1>6 DEF t0, k0

LEMMA PlacedClient ==
  ASSUME TypeOK, NEW s \in Sockets, ClientActs(s), Placed(s)
  PROVE  Placed(s)'
  <1>1. PICK t : /\ Paces(up[s], t)
                 /\ Behind(down[s], Held(s), t[0])
                 /\ s \notin gone => mic[s].take = t[Len(up[s])]
    BY DEF Placed
  <1>2. up[s] \in Seq(Messages) /\ Len(up[s]) \in Nat /\ mic[s].take \in Nat
    BY SocketTypes, LenProperties
  <1>3. Listens(s)
    BY DEF ClientActs, Asking, Speaking, AskingClear, Breaking
  <1>4. Behind(down[s], Held(s), t[0])' /\ mic[s].take = t[Len(up[s])]
    <2>1. down'[s] = down[s] /\ Held(s)' = Held(s) /\ s \notin gone
      BY <1>3 DEF Listens, Held
    <2>2. QED
      BY <1>1, <2>1
  <1>5. ASSUME NEW u, Paces(up'[s], u), u[0] = t[0], mic'[s].take = u[Len(up'[s])]
        PROVE  Placed(s)'
    BY <1>4, <1>5 DEF Placed
  <1>6. CASE Asking(s)
    <2>1. PICK m \in Messages : m.type \notin {"audio", "clear"} /\ up'[s] = Append(up[s], m)
      BY <1>6 DEF Asking
    <2>2. PICK u : /\ Paces(Append(up[s], m), u)
                   /\ u[0] = t[0]
                   /\ u[Len(Append(up[s], m))] = t[Len(up[s])] + (IF m.type = "clear" THEN 1 ELSE 0)
      BY <1>1, <1>2, <2>1, PaceAppend
    <2>3. mic'[s].take = t[Len(up[s])] + 0
      BY <1>2, <1>4, <1>6 DEF Asking
    <2>4. QED
      BY <1>5, <2>1, <2>2, <2>3
  <1>7. CASE Speaking(s)
    <2>1. PICK k \in Nat : /\ up'[s] = Append(up[s], [type |-> "audio", samples |-> Speech(s, k)])
                           /\ mic'[s] = [take |-> mic[s].take, n |-> mic[s].n + k]
      BY <1>7 DEF Speaking
    <2> DEFINE m == [type |-> "audio", samples |-> Speech(s, k)]
    <2>2. m \in Messages
      <3>1. Speech(s, k) \in Seq(Sample)
        BY <2>1, SpeechFacts
      <3>2. QED
        BY <3>1 DEF Messages
    <2>3. \A i \in 1 .. Len(m.samples) : m.samples[i][1] = t[Len(up[s])]
      BY <1>4, <2>1, SpeechFacts
    <2>4. m.type = "audio"
      OBVIOUS
    <2> HIDE DEF m
    <2>5. PICK u : /\ Paces(Append(up[s], m), u)
                   /\ u[0] = t[0]
                   /\ u[Len(Append(up[s], m))] = t[Len(up[s])] + (IF m.type = "clear" THEN 1 ELSE 0)
      BY <1>1, <1>2, <2>2, <2>3, PaceAppend
    <2>6. mic'[s].take = t[Len(up[s])] + 0
      BY <1>2, <1>4, <2>1
    <2>7. up'[s] = Append(up[s], m)
      BY <2>1 DEF m
    <2>8. QED
      BY <1>5, <2>4, <2>5, <2>6, <2>7
  <1>8. CASE AskingClear(s)
    <2> DEFINE m == [type |-> "clear"]
    <2>1. m \in Messages /\ m.type = "clear"
      BY DEF Messages, Plain
    <2>2. up'[s] = Append(up[s], m)
      BY <1>8 DEF AskingClear
    <2> HIDE DEF m
    <2>3. PICK u : /\ Paces(Append(up[s], m), u)
                   /\ u[0] = t[0]
                   /\ u[Len(Append(up[s], m))] = t[Len(up[s])] + (IF m.type = "clear" THEN 1 ELSE 0)
      BY <1>1, <1>2, <2>1, PaceAppend
    <2>4. mic'[s].take = t[Len(up[s])] + 1
      BY <1>4, <1>8 DEF AskingClear
    <2>5. QED
      BY <1>5, <2>1, <2>2, <2>3, <2>4
  <1>9. CASE Breaking(s)
    <2>1. PICK i \in 0 .. Len(up[s]) :
            up'[s] = Append(SubSeq(up[s], 1, i), [type |-> "disconnect"])
      BY <1>9 DEF Breaking
    <2> DEFINE q == SubSeq(up[s], 1, i)
               m == [type |-> "disconnect"]
    <2>2. q \in Seq(Messages) /\ \E v : Paces(q, v) /\ v[0] = t[0]
      BY <1>1, <1>2, PaceCut
    <2>3. m \in Messages /\ m.type # "audio"
      BY DEF Messages, Plain
    <2>4. up'[s] = Append(q, m)
      BY <2>1
    <2> HIDE DEF q, m
    <2>5. PICK v : Paces(q, v) /\ v[0] = t[0]
      BY <2>2
    <2>6. PICK u : Paces(Append(q, m), u) /\ u[0] = v[0]
      BY <2>2, <2>3, <2>5, PaceAppend
    <2>7. s \in gone'
      BY <1>9 DEF Breaking
    <2>8. QED
      BY <1>4, <2>4, <2>5, <2>6, <2>7 DEF Placed
  <1>10. QED
    BY <1>6, <1>7, <1>8, <1>9 DEF ClientActs

LEMMA ForgetsMuttering ==
  ASSUME TypeOK, NEW s \in Sockets, Mutters(s), NEW b \in Nat,
         Behind(down[s], Held(s), b), Forgets(down[s])
  PROVE  Behind(down'[s], Held(s), b) /\ Forgets(down'[s])
  <1>1. PICK q \in Seq(Answers) : Mute(q) /\ down'[s] = down[s] \o q
    BY DEF Mutters
  <1>2. Len(<<>>) = 0
    BY EmptySeq
  <1>3. \A i \in 1 .. Len(q) : /\ q[i].type # "cleared"
                               /\ \A k \in 1 .. Len(q[i].samples) : q[i].samples[k][1] = b
    BY <1>1, <1>2 DEF Mute
  <1>4. down[s] \in Seq(Answers)
    BY SocketTypes
  <1>5. QED
    BY <1>1, <1>3, <1>4, MoreOfTake

LEMMA ForgetsOne ==
  ASSUME NEW d \in Seq(Answers), NEW held, NEW b \in Nat, Behind(d, held, b), Forgets(d),
         NEW a \in Answers, a.type # "cleared",
         \A k \in 1 .. Len(a.samples) : a.samples[k][1] = b
  PROVE  Behind(Append(d, a), held, b) /\ Forgets(Append(d, a))
  <1>1. <<a>> \in Seq(Answers) /\ Len(<<a>>) = 1 /\ <<a>>[1] = a
    OBVIOUS
  <1>2. \A i \in 1 .. Len(<<a>>) : /\ <<a>>[i].type # "cleared"
                                   /\ \A k \in 1 .. Len(<<a>>[i].samples) : <<a>>[i].samples[k][1] = b
    BY <1>1
  <1>3. Append(d, a) = d \o <<a>>
    BY AppendIsConcat
  <1> DEFINE q == <<a>>
  <1> HIDE DEF q
  <1>4. Behind(d \o q, held, b) /\ Forgets(d \o q)
    BY <1>1, <1>2, MoreOfTake DEF q
  <1>5. QED
    BY <1>3, <1>4 DEF q

\* The messages on the way, when one that is no "clear" is taken, or none is.
LEMMA PaceTaken ==
  ASSUME TypeOK, NEW s \in Sockets, NEW t, Paces(up[s], t),
         \/ up'[s] = up[s]
         \/ Drops(s, {"audio", "config", "flush", "close", "ping", "malformed", "disconnect"})
  PROVE  \E u : Paces(up'[s], u) /\ u[0] = t[0] /\ u[Len(up'[s])] = t[Len(up[s])]
  <1>1. CASE up'[s] = up[s]
    BY <1>1
  <1>2. CASE Drops(s, {"audio", "config", "flush", "close", "ping", "malformed", "disconnect"})
    <2>1. up[s] \in Seq(Messages) /\ up[s] # <<>> /\ up'[s] = Tail(up[s]) /\ Head(up[s]).type # "clear"
      BY <1>2, SocketTypes DEF Drops
    <2>2. PICK u : Paces(Tail(up[s]), u) /\ u[0] = t[1] /\ u[Len(Tail(up[s]))] = t[Len(up[s])]
      BY <2>1, PaceTail
    <2>3. Len(up[s]) \in Nat /\ Len(up[s]) # 0 /\ Head(up[s]) = up[s][1]
      BY <2>1, EmptySeq, LenProperties, HeadTailProperties
    <2>4. t[1] = t[0]
      <3>1. 1 \in 1 .. Len(up[s]) /\ 0 \in 0 .. Len(up[s])
        BY <2>3
      <3>2. t[1] = t[1 - 1] + (IF up[s][1].type = "clear" THEN 1 ELSE 0) /\ t[0] \in Nat
        BY <3>1 DEF Paces
      <3>3. QED
        BY <2>1, <2>3, <3>2
    <2>5. QED
      BY <2>1, <2>2, <2>4
  <1>3. QED
    BY <1>1, <1>2

LEMMA PlacedServer ==
  ASSUME TypeOK, TypeOK', NEW s \in Sockets, ServerActs(s), Placed(s), Forgets(down[s])
  PROVE  Placed(s)' /\ Forgets(down[s])'
  <1>1. PICK t : /\ Paces(up[s], t)
                 /\ Behind(down[s], Held(s), t[0])
                 /\ s \notin gone => mic[s].take = t[Len(up[s])]
    BY DEF Placed
  <1>2. /\ up[s] \in Seq(Messages) /\ Len(up[s]) \in Nat /\ down[s] \in Seq(Answers)
        /\ Held(s) \in Seq(Sample)
        /\ mic[s].take \in Nat
    BY SocketTypes, LenProperties
  <1>3. t[0] \in Nat
    <2>1. 0 \in 0 .. Len(up[s])
      BY <1>2
    <2>2. QED
      BY <1>1, <2>1 DEF Paces
  <1>4. Rests(s)
    BY DEF ServerActs, Ending, Minding, Hearing, Clearing, Transcribing, Finishing
  <1>5. Len(<<>>) = 0
    BY EmptySeq
  <1>6. ASSUME NEW u, Paces(up'[s], u), u[Len(up'[s])] = t[Len(up[s])],
               Behind(down'[s], Held(s)', u[0]), Forgets(down'[s])
        PROVE  Placed(s)' /\ Forgets(down[s])'
    <2>1. s \notin gone' => mic'[s].take = u[Len(up'[s])]
      BY <1>1, <1>4, <1>6 DEF Rests
    <2>2. QED
      BY <1>6, <2>1 DEF Placed
  <1>7. ASSUME \/ up'[s] = up[s]
               \/ Drops(s, {"audio", "config", "flush", "close", "ping", "malformed", "disconnect"}),
               Behind(down'[s], Held(s)', t[0]), Forgets(down'[s])
        PROVE  Placed(s)' /\ Forgets(down[s])'
    <2>1. PICK u : Paces(up'[s], u) /\ u[0] = t[0] /\ u[Len(up'[s])] = t[Len(up[s])]
      BY <1>1, <1>7, PaceTaken
    <2>2. QED
      BY <1>6, <1>7, <2>1
  <1>8. CASE Ending(s)
    <2>1. Behind(down'[s], Held(s), t[0]) /\ Forgets(down'[s])
      BY <1>1, <1>3, <1>8, ForgetsMuttering DEF Ending
    <2>2. Held(s)' = <<>>
      <3>1. <<>> \o <<>> = <<>>
        BY EmptySeq, ConcatEmptySeq
      <3>2. QED
        BY <1>8, <3>1 DEF Ending, Held
    <2>3. Behind(down'[s], Held(s)', t[0])
      BY <1>5, <2>1, <2>2 DEF Behind
    <2>4. QED
      BY <1>7, <1>8, <2>1, <2>3 DEF Ending, Drops
  <1>9. CASE Minding(s)
    <2>1. Behind(down'[s], Held(s), t[0]) /\ Forgets(down'[s])
      BY <1>1, <1>3, <1>9, ForgetsMuttering DEF Minding
    <2>2. Held(s)' = Held(s)
      BY <1>9 DEF Minding
    <2>3. QED
      BY <1>7, <1>9, <2>1, <2>2 DEF Minding, Drops
  <1>10. CASE Hearing(s)
    <2> DEFINE m == Head(up[s])
    <2>1. /\ up[s] # <<>> /\ m.type = "audio" /\ up'[s] = Tail(up[s])
          /\ Held(s)' = Held(s) \o m.samples /\ down'[s] = down[s]
      BY <1>10 DEF Hearing, Drops
    <2>2. m = up[s][1] /\ Len(up[s]) # 0 /\ m \in Messages
      BY <1>2, <2>1, EmptySeq, HeadTailProperties
    <2>3. m.samples \in Seq(Sample)
      BY <2>1, <2>2, AudioMessage
    <2>4. t[1] = t[0] /\ \A k \in 1 .. Len(m.samples) : m.samples[k][1] = t[1]
      <3>1. 1 \in 1 .. Len(up[s])
        BY <1>2, <2>2
      <3>2. /\ t[1] = t[1 - 1] + (IF up[s][1].type = "clear" THEN 1 ELSE 0)
            /\ \A k \in 1 .. Len(m.samples) : m.samples[k][1] = t[1]
        BY <1>1, <2>1, <2>2, <3>1 DEF Paces
      <3>3. QED
        BY <1>3, <2>1, <2>2, <3>2
    <2>5. \A k \in 1 .. Len(Held(s) \o m.samples) : (Held(s) \o m.samples)[k][1] = t[0]
      <3>1. /\ Len(Held(s)) \in Nat /\ Len(m.samples) \in Nat
            /\ Len(Held(s) \o m.samples) = Len(Held(s)) + Len(m.samples)
            /\ \A k \in 1 .. Len(Held(s)) + Len(m.samples) : (Held(s) \o m.samples)[k] =
                 IF k <= Len(Held(s)) THEN Held(s)[k] ELSE m.samples[k - Len(Held(s))]
        BY <1>2, <2>3, ConcatProperties, LenProperties
      <3>2. ASSUME NEW k \in 1 .. Len(Held(s)) + Len(m.samples)
            PROVE  (Held(s) \o m.samples)[k][1] = t[0]
        <4>1. CASE k <= Len(Held(s))
          BY <1>1, <3>1, <3>2, <4>1 DEF Behind
        <4>2. CASE ~(k <= Len(Held(s)))
          <5>1. k - Len(Held(s)) \in 1 .. Len(m.samples)
            BY <3>1, <3>2, <4>2
          <5>2. QED
            BY <2>4, <3>1, <3>2, <4>2, <5>1
        <4>3. QED
          BY <4>1, <4>2
      <3>3. QED
        BY <3>1, <3>2
    <2>6. Behind(down'[s], Held(s)', t[0]) /\ Forgets(down'[s])
      BY <1>1, <2>1, <2>5 DEF Behind
    <2>7. QED
      BY <1>7, <1>10, <2>6 DEF Hearing, Drops
  <1>11. CASE Clearing(s)
    <2> DEFINE a == Answer("cleared")
               m == Head(up[s])
    <2>1. /\ up[s] # <<>> /\ m.type = "clear" /\ up'[s] = Tail(up[s]) /\ Held(s)' = <<>>
          /\ down'[s] = IF s \in gone THEN down[s] ELSE Append(down[s], a)
      BY <1>11 DEF Clearing, Drops
    <2>2. a \in Answers /\ a.samples = <<>>
      BY AnswerType DEF Spoken, Answer
    <2>3. PICK u : Paces(Tail(up[s]), u) /\ u[0] = t[1] /\ u[Len(Tail(up[s]))] = t[Len(up[s])]
      BY <1>1, <1>2, <2>1, PaceTail
    <2>4. m = up[s][1] /\ Len(up[s]) # 0
      BY <1>2, <2>1, EmptySeq, HeadTailProperties
    <2>5. u[0] = t[0] + 1
      <3>1. 1 \in 1 .. Len(up[s])
        BY <1>2, <2>4
      <3>2. t[1] = t[1 - 1] + (IF up[s][1].type = "clear" THEN 1 ELSE 0)
        BY <1>1, <3>1 DEF Paces
      <3>3. QED
        BY <1>3, <2>1, <2>3, <2>4, <3>2
    <2> HIDE DEF a
    <2>6. Behind(down'[s], <<>>, t[0] + 1) /\ Forgets(down'[s])
      <3>1. CASE s \in gone
        <4>1. down'[s] = down[s]
          BY <2>1, <3>1
        <4>2. ClearsAnswered(down[s], Len(down[s])) < t[0]
          BY <1>1 DEF Behind
        <4>3. ClearsAnswered(down[s], Len(down[s])) \in Nat
          BY <1>2, LenProperties, CountType
        <4>4. ASSUME NEW j \in 1 .. Len(down[s]), NEW k \in 1 .. Len(down[s][j].samples)
              PROVE  down[s][j].samples[k][1] <= t[0] + 1
          <5>1. down[s][j] \in Answers
            BY <1>2, ElementOfSeq
          <5>2. down[s][j].samples \in Seq(Sample)
            BY <5>1 DEF Answers
          <5>3. down[s][j].samples[k] \in Sample
            BY <5>2, ElementOfSeq
          <5>4. down[s][j].samples[k][1] \in Nat /\ down[s][j].samples[k][1] <= t[0]
            BY <1>1, <5>3 DEF Behind, Sample
          <5>5. QED
            BY <1>3, <5>4
        <4>5. QED
          BY <1>3, <1>5, <4>1, <4>2, <4>3, <4>4 DEF Behind
      <3>2. CASE s \notin gone
        BY <1>1, <1>2, <1>3, <2>1, <2>2, <3>2, NextTake
      <3>3. QED
        BY <3>1, <3>2
    <2>7. QED
      BY <1>6, <2>1, <2>3, <2>5, <2>6
  <1>12. CASE Transcribing(s)
    <2>1. PICK a \in Answers : /\ a.type = "transcript"
                               /\ Held(s) = a.samples \o Held(s)'
                               /\ down'[s] = IF s \in gone THEN down[s] ELSE Append(down[s], a)
      BY <1>12 DEF Transcribing
    <2>2. a.samples \in Seq(Sample)
      BY DEF Answers
    <2>3. PICK rest \in Seq(Sample) : rest = Held(s)'
      <3>1. session'[s].due \in Seq(Sample) /\ session'[s].buffer \in Seq(Sample)
        BY DEF TypeOK, Session
      <3>2. QED
        BY <3>1, ConcatProperties DEF Held
    <2>4. /\ Len(a.samples) \in Nat /\ Len(rest) \in Nat
          /\ Len(a.samples \o rest) = Len(a.samples) + Len(rest)
          /\ \A k \in 1 .. Len(a.samples) + Len(rest) : (a.samples \o rest)[k] =
               IF k <= Len(a.samples) THEN a.samples[k] ELSE rest[k - Len(a.samples)]
      BY <2>2, ConcatProperties, LenProperties
    <2>5. \A k \in 1 .. Len(a.samples) : a.samples[k][1] = t[0]
      BY <1>1, <2>1, <2>3, <2>4 DEF Behind
    <2>6. \A k \in 1 .. Len(rest) : rest[k][1] = t[0]
      <3>1. ASSUME NEW k \in 1 .. Len(rest)
            PROVE  rest[k][1] = t[0]
        <4>1. /\ k + Len(a.samples) \in 1 .. Len(a.samples) + Len(rest)
              /\ ~(k + Len(a.samples) <= Len(a.samples))
              /\ (k + Len(a.samples)) - Len(a.samples) = k
          BY <2>4
        <4>2. (a.samples \o rest)[k + Len(a.samples)] = rest[k]
          BY <2>4, <4>1
        <4>3. QED
          <5>1. Held(s) = a.samples \o rest
            BY <2>1, <2>3
          <5>2. (a.samples \o rest)[k + Len(a.samples)][1] = t[0]
            BY <1>1, <2>4, <4>1, <5>1 DEF Behind
          <5>3. QED
            BY <4>2, <5>2
      <3>2. QED
        BY <3>1
    <2>7. Behind(down[s], rest, t[0])
      BY <1>1, <2>6 DEF Behind
    <2>8. Behind(down'[s], rest, t[0]) /\ Forgets(down'[s])
      <3>1. CASE s \in gone
        BY <2>1, <2>7, <3>1
      <3>2. CASE s \notin gone
        BY <1>2, <1>3, <2>1, <2>5, <2>7, <3>2, ForgetsOne
      <3>3. QED
        BY <3>1, <3>2
    <2>9. QED
      BY <1>7, <1>12, <2>3, <2>8 DEF Transcribing
  <1>13. CASE Finishing(s)
    <2> DEFINE c == Answer("closed")
               b == Answer("bye")
    <2>1. /\ c \in Answers /\ c.type # "cleared" /\ c.samples = <<>>
          /\ b \in Answers /\ b.type # "cleared" /\ b.samples = <<>>
      BY AnswerType DEF Spoken, Answer
    <2>2. down'[s] = IF s \in gone THEN down[s] ELSE Append(Append(down[s], c), b)
      BY <1>13 DEF Finishing
    <2> HIDE DEF c, b
    <2>3. Held(s)' = Held(s)
      BY <1>13 DEF Finishing, Held
    <2>4. Behind(Append(down[s], c), Held(s), t[0]) /\ Forgets(Append(down[s], c))
      BY <1>1, <1>2, <1>3, <1>5, <2>1, ForgetsOne
    <2>5. Append(down[s], c) \in Seq(Answers)
      BY <1>2, <2>1, AppendProperties
    <2>6. /\ Behind(Append(Append(down[s], c), b), Held(s), t[0])
          /\ Forgets(Append(Append(down[s], c), b))
      <3>1. PICK e \in Seq(Answers) : e = Append(down[s], c)
        BY <2>5
      <3>2. Behind(e, Held(s), t[0]) /\ Forgets(e)
        BY <2>4, <3>1
      <3>3. \A k \in 1 .. Len(b.samples) : b.samples[k][1] = t[0]
        BY <1>5, <2>1
      <3>4. Behind(Append(e, b), Held(s), t[0]) /\ Forgets(Append(e, b))
        BY <1>3, <2>1, <3>2, <3>3, ForgetsOne
      <3>5. QED
        BY <3>1, <3>4
    <2>7. Behind(down'[s], Held(s)', t[0]) /\ Forgets(down'[s])
      BY <1>1, <2>2, <2>3, <2>6
    <2>8. QED
      BY <1>7, <1>13, <2>7 DEF Finishing
  <1>14. QED
    BY <1>8, <1>9, <1>10, <1>11, <1>12, <1>13 DEF ServerActs

AllPlaced == \A s \in Sockets : Placed(s) /\ Forgets(down[s])

LEMMA PlacedStep ==
  ASSUME TypeOK, TypeOK', AllPlaced, [Next]_vars
  PROVE  AllPlaced'
  <1> SUFFICES ASSUME NEW s \in Sockets
               PROVE  Placed(s)' /\ Forgets(down[s])'
    BY DEF AllPlaced
  <1>1. Placed(s) /\ Forgets(down[s])
    BY DEF AllPlaced
  <1>2. CASE Still(s)
    <2>1. down'[s] = down[s] /\ up'[s] = up[s] /\ Held(s)' = Held(s) /\ Rests(s)
      BY <1>2 DEF Still, Held
    <2>2. QED
      BY <1>1, <2>1 DEF Placed, Rests
  <1>3. CASE ClientActs(s)
    <2>1. down'[s] = down[s]
      BY <1>3 DEF ClientActs, Asking, Speaking, AskingClear, Breaking, Listens
    <2>2. QED
      BY <1>1, <1>3, <2>1, PlacedClient
  <1>4. CASE ServerActs(s)
    BY <1>1, <1>4, PlacedServer
  <1>5. QED
    BY <1>2, <1>3, <1>4, OneSocket

LEMMA InitPlaced == Init => AllPlaced
  <1> SUFFICES ASSUME Init, NEW s \in Sockets
               PROVE  Placed(s) /\ Forgets(down[s])
    BY DEF AllPlaced
  <1>1. /\ up[s] = <<>> /\ down[s] = <<>> /\ mic[s].take = 1
        /\ session[s].due = <<>> /\ session[s].buffer = <<>>
    BY DEF Init, New
  <1>2. Len(<<>>) = 0 /\ <<>> \o <<>> = <<>>
    BY EmptySeq, ConcatEmptySeq
  <1> DEFINE t == [j \in 0 .. 0 |-> 1]
  <1>3. t \in [0 .. 0 -> Nat] /\ t[0] = 1
    OBVIOUS
  <1> HIDE DEF t
  <1>4. Paces(<<>>, t)
    BY <1>2, <1>3 DEF Paces
  <1>5. ClearsAnswered(<<>>, 0) = 0
    <2>1. {h \in 1 .. 0 : <<>>[h].type = "cleared"} = {}
      OBVIOUS
    <2>2. QED
      BY <2>1, FS_EmptySet DEF ClearsAnswered
  <1>6. Behind(<<>>, <<>>, 1) /\ Forgets(<<>>)
    BY <1>2, <1>5 DEF Behind, Forgets
  <1>7. QED
    BY <1>1, <1>2, <1>3, <1>4, <1>6 DEF Placed, Held

\* A "clear" divides the audio: once its answer is out no transcript holds a sample from
\* before it, for any chunking, flushing and queueing (clear() drops the buffer, and the
\* handler has answered every due chunk before it takes the next message).
THEOREM ClearForgotten == Spec => []ClearForgets
  <1>1. TypeOK /\ TypeOK' /\ AllPlaced /\ [Next]_vars => AllPlaced'
    BY PlacedStep
  <1>2. AllPlaced => ClearForgets
    BY DEF AllPlaced, Forgets, ClearForgets
  <1>3. QED
    BY <1>1, <1>2, InitPlaced, TypeCorrect, PTL DEF Spec

-----------------------------------------------------------------------------
\* The audio on the way.

Audio(m) == IF m.type = "audio" THEN m.samples ELSE <<>>

LEMMA LongerByOne ==
  ASSUME NEW S, NEW p \in Seq(S), NEW r \in Seq(S), Len(r) = Len(p) + 1,
         \A i \in 1 .. Len(p) : r[i] = p[i]
  PROVE  r = Append(p, r[Len(p) + 1])
  <1>1. Len(p) \in Nat
    BY LenProperties
  <1> DEFINE x == r[Len(p) + 1]
  <1>2. x \in S
    BY <1>1, ElementOfSeq
  <1> HIDE DEF x
  <1>3. /\ Append(p, x) \in Seq(S) /\ Len(Append(p, x)) = Len(p) + 1
        /\ \A i \in 1 .. Len(p) : Append(p, x)[i] = p[i]
        /\ Append(p, x)[Len(p) + 1] = x
    BY <1>2, AppendProperties
  <1>4. \A i \in 1 .. Len(r) : r[i] = Append(p, x)[i]
    <2>1. \A i \in 1 .. Len(r) : i \in 1 .. Len(p) \/ i = Len(p) + 1
      BY <1>1
    <2>2. QED
      BY <1>3, <2>1 DEF x
  <1>5. r = Append(p, x)
    BY <1>3, <1>4, SeqEqual
  <1>6. QED
    BY <1>5 DEF x

LEMMA ShorterByOne ==
  ASSUME NEW S, NEW p \in Seq(S), NEW r \in Seq(S), p # <<>>, Len(r) = Len(p) - 1,
         \A i \in 1 .. Len(p) - 1 : r[i] = p[i + 1]
  PROVE  r = Tail(p)
  <1>1. /\ Tail(p) \in Seq(S) /\ Len(Tail(p)) = Len(p) - 1
        /\ \A i \in 1 .. Len(Tail(p)) : Tail(p)[i] = p[i + 1]
    BY HeadTailProperties
  <1>2. \A i \in 1 .. Len(r) : r[i] = Tail(p)[i]
    BY <1>1
  <1>3. QED
    BY <1>1, <1>2, SeqEqual

\* The audio of each message, and of each answer.
MessageParts(q) == [i \in 1 .. Len(q) |-> IF q[i].type = "audio" THEN q[i].samples ELSE <<>>]
AnswerParts(q) == [i \in 1 .. Len(q) |-> q[i].samples]

LEMMA MessagePartsFacts ==
  ASSUME NEW q \in Seq(Messages)
  PROVE  /\ MessageParts(q) \in Seq(Seq(Sample)) /\ Len(MessageParts(q)) = Len(q)
         /\ \A i \in 1 .. Len(q) : MessageParts(q)[i] = Audio(q[i])
  <1>1. Len(q) \in Nat /\ \A i \in 1 .. Len(q) : q[i] \in Messages
    BY ElementOfSeq, LenProperties
  <1>2. ASSUME NEW m \in Messages
        PROVE  Audio(m) \in Seq(Sample)
    BY <1>2, AudioMessage, EmptySeq DEF Audio
  <1>3. \A i \in 1 .. Len(q) : MessageParts(q)[i] = Audio(q[i])
    BY DEF MessageParts, Audio
  <1>4. MessageParts(q) = [i \in 1 .. Len(q) |-> Audio(q[i])]
    BY DEF MessageParts, Audio
  <1>5. MessageParts(q) \in [1 .. Len(q) -> Seq(Sample)]
    BY <1>1, <1>2, <1>4
  <1>6. MessageParts(q) \in Seq(Seq(Sample)) /\ Len(MessageParts(q)) = Len(q)
    BY <1>1, <1>5, SeqDef, LenProperties
  <1>7. QED
    BY <1>3, <1>6

LEMMA AnswerPartsFacts ==
  ASSUME NEW q \in Seq(Answers)
  PROVE  /\ AnswerParts(q) \in Seq(Seq(Sample)) /\ Len(AnswerParts(q)) = Len(q)
         /\ \A i \in 1 .. Len(q) : AnswerParts(q)[i] = q[i].samples
  <1>1. Len(q) \in Nat /\ \A i \in 1 .. Len(q) : q[i] \in Answers
    BY ElementOfSeq, LenProperties
  <1>2. \A i \in 1 .. Len(q) : q[i].samples \in Seq(Sample)
    BY <1>1 DEF Answers
  <1>3. AnswerParts(q) \in [1 .. Len(q) -> Seq(Sample)] /\ \A i \in 1 .. Len(q) : AnswerParts(q)[i] = q[i].samples
    BY <1>2 DEF AnswerParts
  <1>4. AnswerParts(q) \in Seq(Seq(Sample)) /\ Len(AnswerParts(q)) = Len(q)
    BY <1>1, <1>3, SeqDef, LenProperties
  <1>5. QED
    BY <1>3, <1>4

LEMMA AudioInAppend ==
  ASSUME NEW q \in Seq(Messages), NEW m \in Messages
  PROVE  AudioIn(Append(q, m)) = AudioIn(q) \o Audio(m)
  <1> DEFINE r == Append(q, m)
  <1>1. /\ r \in Seq(Messages) /\ Len(r) = Len(q) + 1 /\ Len(q) \in Nat
        /\ \A i \in 1 .. Len(q) : r[i] = q[i]
        /\ r[Len(q) + 1] = m
    BY AppendProperties, LenProperties
  <1> HIDE DEF r
  <1>2. /\ MessageParts(q) \in Seq(Seq(Sample)) /\ Len(MessageParts(q)) = Len(q)
        /\ \A i \in 1 .. Len(q) : MessageParts(q)[i] = Audio(q[i])
    BY MessagePartsFacts
  <1>3. /\ MessageParts(r) \in Seq(Seq(Sample)) /\ Len(MessageParts(r)) = Len(q) + 1
        /\ \A i \in 1 .. Len(q) + 1 : MessageParts(r)[i] = Audio(r[i])
    BY <1>1, MessagePartsFacts
  <1>4. /\ \A i \in 1 .. Len(q) : MessageParts(r)[i] = MessageParts(q)[i]
        /\ MessageParts(r)[Len(q) + 1] = Audio(m)
    <2>1. Len(q) + 1 \in 1 .. Len(q) + 1 /\ \A i \in 1 .. Len(q) : i \in 1 .. Len(q) + 1
      BY <1>1
    <2>2. QED
      BY <1>1, <1>2, <1>3, <2>1
  <1>5. MessageParts(r) = Append(MessageParts(q), Audio(m))
    <2>1. MessageParts(r) = Append(MessageParts(q), MessageParts(r)[Len(MessageParts(q)) + 1])
      BY <1>2, <1>3, <1>4, LongerByOne
    <2>2. QED
      BY <1>2, <1>4, <2>1
  <1>6. Audio(m) \in Seq(Sample)
    BY AudioMessage, EmptySeq DEF Audio
  <1>7. FlattenSeq(Append(MessageParts(q), Audio(m))) = FlattenSeq(MessageParts(q)) \o Audio(m)
    BY <1>2, <1>6, FlattenAppend
  <1>8. AudioIn(r) = FlattenSeq(MessageParts(r)) /\ AudioIn(q) = FlattenSeq(MessageParts(q))
    BY DEF AudioIn, MessageParts
  <1>9. QED
    BY <1>5, <1>7, <1>8 DEF r

LEMMA AudioInTail ==
  ASSUME NEW q \in Seq(Messages), q # <<>>
  PROVE  AudioIn(q) = Audio(Head(q)) \o AudioIn(Tail(q))
  <1> DEFINE r == Tail(q)
  <1>1. /\ r \in Seq(Messages) /\ Len(r) = Len(q) - 1 /\ Head(q) = q[1]
        /\ \A i \in 1 .. Len(q) - 1 : r[i] = q[i + 1]
        /\ Len(q) \in Nat /\ Len(q) # 0
    BY HeadTailProperties, LenProperties, EmptySeq
  <1> HIDE DEF r
  <1>2. /\ MessageParts(q) \in Seq(Seq(Sample)) /\ Len(MessageParts(q)) = Len(q)
        /\ \A i \in 1 .. Len(q) : MessageParts(q)[i] = Audio(q[i])
    BY MessagePartsFacts
  <1>3. /\ MessageParts(r) \in Seq(Seq(Sample)) /\ Len(MessageParts(r)) = Len(q) - 1
        /\ \A i \in 1 .. Len(q) - 1 : MessageParts(r)[i] = Audio(r[i])
    BY <1>1, MessagePartsFacts
  <1>4. \A i \in 1 .. Len(q) - 1 : MessageParts(r)[i] = MessageParts(q)[i + 1]
    <2>1. \A i \in 1 .. Len(q) - 1 : i + 1 \in 1 .. Len(q)
      BY <1>1
    <2>2. QED
      BY <1>1, <1>2, <1>3, <2>1
  <1>5. MessageParts(q) # <<>>
    BY <1>1, <1>2, EmptySeq
  <1>6. MessageParts(r) = Tail(MessageParts(q))
    BY <1>2, <1>3, <1>4, <1>5, ShorterByOne
  <1>7. Head(MessageParts(q)) = Audio(Head(q))
    <2>1. Head(MessageParts(q)) = MessageParts(q)[1] /\ 1 \in 1 .. Len(q)
      BY <1>1, <1>2, <1>5, HeadTailProperties
    <2>2. QED
      BY <1>1, <1>2, <2>1
  <1>8. FlattenSeq(MessageParts(q)) = Head(MessageParts(q)) \o FlattenSeq(Tail(MessageParts(q)))
    BY <1>2, <1>5, FlattenTail
  <1>9. AudioIn(r) = FlattenSeq(MessageParts(r)) /\ AudioIn(q) = FlattenSeq(MessageParts(q))
    BY DEF AudioIn, MessageParts
  <1>10. QED
    BY <1>6, <1>7, <1>8, <1>9 DEF r

LEMMA AnswerAudioAppend ==
  ASSUME NEW q \in Seq(Answers), NEW a \in Answers
  PROVE  AnswerAudio(Append(q, a)) = AnswerAudio(q) \o a.samples
  <1> DEFINE r == Append(q, a)
  <1>1. /\ r \in Seq(Answers) /\ Len(r) = Len(q) + 1 /\ Len(q) \in Nat
        /\ \A i \in 1 .. Len(q) : r[i] = q[i]
        /\ r[Len(q) + 1] = a
    BY AppendProperties, LenProperties
  <1> HIDE DEF r
  <1>2. /\ AnswerParts(q) \in Seq(Seq(Sample)) /\ Len(AnswerParts(q)) = Len(q)
        /\ \A i \in 1 .. Len(q) : AnswerParts(q)[i] = q[i].samples
    BY AnswerPartsFacts
  <1>3. /\ AnswerParts(r) \in Seq(Seq(Sample)) /\ Len(AnswerParts(r)) = Len(q) + 1
        /\ \A i \in 1 .. Len(q) + 1 : AnswerParts(r)[i] = r[i].samples
    BY <1>1, AnswerPartsFacts
  <1>4. /\ \A i \in 1 .. Len(q) : AnswerParts(r)[i] = AnswerParts(q)[i]
        /\ AnswerParts(r)[Len(q) + 1] = a.samples
    <2>1. Len(q) + 1 \in 1 .. Len(q) + 1 /\ \A i \in 1 .. Len(q) : i \in 1 .. Len(q) + 1
      BY <1>1
    <2>2. QED
      BY <1>1, <1>2, <1>3, <2>1
  <1>5. AnswerParts(r) = Append(AnswerParts(q), a.samples)
    <2>1. AnswerParts(r) = Append(AnswerParts(q), AnswerParts(r)[Len(AnswerParts(q)) + 1])
      BY <1>2, <1>3, <1>4, LongerByOne
    <2>2. QED
      BY <1>2, <1>4, <2>1
  <1>6. a.samples \in Seq(Sample)
    BY DEF Answers
  <1>7. FlattenSeq(Append(AnswerParts(q), a.samples)) = FlattenSeq(AnswerParts(q)) \o a.samples
    BY <1>2, <1>6, FlattenAppend
  <1>8. AnswerAudio(r) = FlattenSeq(AnswerParts(r)) /\ AnswerAudio(q) = FlattenSeq(AnswerParts(q))
    BY DEF AnswerAudio, AnswerParts
  <1>9. QED
    BY <1>5, <1>7, <1>8 DEF r

LEMMA AudioInFacts ==
  ASSUME NEW q \in Seq(Messages)
  PROVE  /\ AudioIn(q) \in Seq(Sample)
         /\ \A i \in 1 .. Len(AudioIn(q)) :
              \E j \in 1 .. Len(q) : /\ q[j].type = "audio"
                                     /\ \E k \in 1 .. Len(q[j].samples) : AudioIn(q)[i] = q[j].samples[k]
  <1>1. /\ MessageParts(q) \in Seq(Seq(Sample)) /\ Len(MessageParts(q)) = Len(q)
        /\ \A i \in 1 .. Len(q) : MessageParts(q)[i] = Audio(q[i])
    BY MessagePartsFacts
  <1>2. AudioIn(q) = FlattenSeq(MessageParts(q))
    BY DEF AudioIn, MessageParts
  <1>3. AudioIn(q) \in Seq(Sample)
    BY <1>1, <1>2, FlattenType
  <1>4. ASSUME NEW i \in 1 .. Len(AudioIn(q))
        PROVE  \E j \in 1 .. Len(q) : /\ q[j].type = "audio"
                                      /\ \E k \in 1 .. Len(q[j].samples) : AudioIn(q)[i] = q[j].samples[k]
    <2>1. PICK j \in 1 .. Len(MessageParts(q)) :
            \E k \in 1 .. Len(MessageParts(q)[j]) : FlattenSeq(MessageParts(q))[i] = MessageParts(q)[j][k]
      <3>1. PICK p \in Seq(Seq(Sample)) : p = MessageParts(q)
        BY <1>1
      <3>2. i \in 1 .. Len(FlattenSeq(p))
        BY <1>2, <1>4, <3>1
      <3>3. \E j \in 1 .. Len(p) : \E k \in 1 .. Len(p[j]) : FlattenSeq(p)[i] = p[j][k]
        BY <3>2, FlattenFrom
      <3>4. QED
        BY <3>1, <3>3
    <2>2. j \in 1 .. Len(q) /\ MessageParts(q)[j] = Audio(q[j])
      BY <1>1
    <2>3. q[j].type = "audio"
      <3>1. Len(<<>>) = 0
        BY EmptySeq
      <3>2. QED
        BY <2>1, <2>2, <3>1 DEF Audio
    <2>4. QED
      BY <1>2, <2>1, <2>2, <2>3 DEF Audio
  <1>5. QED
    BY <1>3, <1>4

LEMMA AnswerAudioFacts ==
  ASSUME NEW q \in Seq(Answers)
  PROVE  /\ AnswerAudio(q) \in Seq(Sample)
         /\ \A i \in 1 .. Len(AnswerAudio(q)) :
              \E j \in 1 .. Len(q) : \E k \in 1 .. Len(q[j].samples) : AnswerAudio(q)[i] = q[j].samples[k]
  <1>1. /\ AnswerParts(q) \in Seq(Seq(Sample)) /\ Len(AnswerParts(q)) = Len(q)
        /\ \A i \in 1 .. Len(q) : AnswerParts(q)[i] = q[i].samples
    BY AnswerPartsFacts
  <1>2. AnswerAudio(q) = FlattenSeq(AnswerParts(q))
    BY DEF AnswerAudio, AnswerParts
  <1>3. AnswerAudio(q) \in Seq(Sample)
    BY <1>1, <1>2, FlattenType
  <1>4. ASSUME NEW i \in 1 .. Len(AnswerAudio(q))
        PROVE  \E j \in 1 .. Len(q) : \E k \in 1 .. Len(q[j].samples) : AnswerAudio(q)[i] = q[j].samples[k]
    <2>1. PICK j \in 1 .. Len(AnswerParts(q)) :
            \E k \in 1 .. Len(AnswerParts(q)[j]) : FlattenSeq(AnswerParts(q))[i] = AnswerParts(q)[j][k]
      <3>1. PICK p \in Seq(Seq(Sample)) : p = AnswerParts(q)
        BY <1>1
      <3>2. i \in 1 .. Len(FlattenSeq(p))
        BY <1>2, <1>4, <3>1
      <3>3. \E j \in 1 .. Len(p) : \E k \in 1 .. Len(p[j]) : FlattenSeq(p)[i] = p[j][k]
        BY <3>2, FlattenFrom
      <3>4. QED
        BY <3>1, <3>3
    <2>2. j \in 1 .. Len(q) /\ AnswerParts(q)[j] = q[j].samples
      BY <1>1
    <2>3. QED
      BY <1>2, <2>1, <2>2
  <1>5. QED
    BY <1>3, <1>4

LEMMA MuteAudio ==
  ASSUME NEW d \in Seq(Answers), NEW q \in Seq(Answers), Mute(q)
  PROVE  AnswerAudio(d \o q) = AnswerAudio(d)
  <1> DEFINE Fails(p) == Mute(p) /\ AnswerAudio(d \o p) # AnswerAudio(d)
             T == {n \in Nat : \E p \in Seq(Answers) : Len(p) = n /\ Fails(p)}
  <1> SUFFICES ASSUME Fails(q)
               PROVE  FALSE
    OBVIOUS
  <1>1. Len(q) \in T
    BY LenProperties
  <1>2. PICK n \in T : \A k \in T : n <= k
    BY <1>1, Least
  <1>3. PICK p \in Seq(Answers) : Len(p) = n /\ Fails(p)
    BY <1>2
  <1>4. p # <<>>
    <2>1. d \o <<>> = d
      BY ConcatEmptySeq
    <2>2. QED
      BY <1>3, <2>1
  <1>5. PICK h \in Seq(Answers), x \in Answers : p = Append(h, x)
    BY <1>3, <1>4, SequenceEmptyOrAppend
  <1>6. /\ Len(p) = Len(h) + 1 /\ Len(h) \in Nat
        /\ \A j \in 1 .. Len(h) : p[j] = h[j]
        /\ p[Len(h) + 1] = x
    BY <1>5, AppendProperties, LenProperties
  <1>7. Mute(h) /\ x.samples = <<>>
    <2>1. Len(h) + 1 \in 1 .. Len(p) /\ \A j \in 1 .. Len(h) : j \in 1 .. Len(p)
      BY <1>6
    <2>2. QED
      BY <1>3, <1>6, <2>1 DEF Mute
  <1>8. ~Fails(h)
    <2>1. n = Len(h) + 1 /\ ~(n <= Len(h)) /\ Len(h) \in Nat
      BY <1>2, <1>3, <1>6
    <2>2. Len(h) \notin T
      BY <1>2, <2>1
    <2>3. QED
      BY <2>1, <2>2
  <1>9. AnswerAudio(d \o h) = AnswerAudio(d)
    BY <1>7, <1>8
  <1> HIDE DEF Fails, T
  <1>10. d \o p = Append(d \o h, x)
    <2>1. p = h \o <<x>> /\ <<x>> \in Seq(Answers)
      BY <1>5, AppendIsConcat
    <2>2. PICK y \in Seq(Answers) : y = <<x>>
      BY <2>1
    <2>3. d \o (h \o y) = (d \o h) \o y
      BY AnswerRegroup, Zenon
    <2>4. d \o h \in Seq(Answers)
      BY ConcatProperties
    <2>5. Append(d \o h, x) = (d \o h) \o <<x>>
      BY <2>4, AppendIsConcat
    <2>6. QED
      BY <2>1, <2>2, <2>3, <2>5
  <1>11. AnswerAudio(d \o p) = AnswerAudio(d)
    <2>1. PICK e \in Seq(Answers) : e = d \o h
      BY ConcatProperties
    <2>2. AnswerAudio(Append(e, x)) = AnswerAudio(e) \o x.samples
      BY <2>1, AnswerAudioAppend
    <2>3. AnswerAudio(e) \o <<>> = AnswerAudio(e)
      BY <2>1, AnswerAudioFacts, ConcatEmptySeq
    <2>4. QED
      BY <1>7, <1>9, <1>10, <2>1, <2>2, <2>3
  <1>12. QED
    BY <1>3, <1>11 DEF Fails

-----------------------------------------------------------------------------
\* Unbroken audio.

Chain(q) == \A i \in 1 .. Len(q) - 1 : Follows(q[i], q[i + 1])

LEMMA ChainJoin ==
  ASSUME NEW a \in Seq(Sample), NEW b \in Seq(Sample)
  PROVE  Chain(a \o b) <=> /\ Chain(a) /\ Chain(b)
                           /\ a # <<>> /\ b # <<>> => Follows(a[Len(a)], b[1])
  <1> DEFINE n == Len(a)
             m == Len(b)
             e == a \o b
  <1>1. /\ n \in Nat /\ m \in Nat /\ Len(e) = n + m
        /\ \A i \in 1 .. n + m : e[i] = IF i <= n THEN a[i] ELSE b[i - n]
    BY ConcatProperties, LenProperties
  <1>2. (a # <<>> <=> n # 0) /\ (b # <<>> <=> m # 0)
    BY EmptySeq
  <1> HIDE DEF e
  <1>3. \A i \in 1 .. n - 1 : /\ i \in 1 .. n + m - 1 /\ i + 1 \in 1 .. n + m
                              /\ e[i] = a[i] /\ e[i + 1] = a[i + 1]
    BY <1>1
  <1>4. \A i \in 1 .. m - 1 : /\ n + i \in 1 .. n + m - 1 /\ (n + i) + 1 \in 1 .. n + m
                              /\ e[n + i] = b[i] /\ e[(n + i) + 1] = b[i + 1]
    <2>1. ASSUME NEW i \in 1 .. m - 1
          PROVE  /\ n + i \in 1 .. n + m - 1 /\ (n + i) + 1 \in 1 .. n + m
                 /\ e[n + i] = b[i] /\ e[(n + i) + 1] = b[i + 1]
      <3>1. n + i \in 1 .. n + m /\ ~(n + i <= n) /\ (n + i) - n = i
        BY <1>1
      <3>2. (n + i) + 1 \in 1 .. n + m /\ ~((n + i) + 1 <= n) /\ ((n + i) + 1) - n = i + 1
        BY <1>1
      <3>3. n + i \in 1 .. n + m - 1
        BY <1>1
      <3>4. QED
        BY <1>1, <3>1, <3>2, <3>3
    <2>2. QED
      BY <2>1
  <1>5. n # 0 /\ m # 0 => /\ n \in 1 .. n + m - 1
                          /\ e[n] = a[n] /\ e[n + 1] = b[1]
    <2>1. ASSUME n # 0, m # 0
          PROVE  n \in 1 .. n + m - 1 /\ e[n] = a[n] /\ e[n + 1] = b[1]
      <3>1. n \in 1 .. n + m - 1 /\ n \in 1 .. n + m /\ n <= n
        BY <1>1, <2>1
      <3>2. n + 1 \in 1 .. n + m /\ ~(n + 1 <= n) /\ (n + 1) - n = 1
        BY <1>1, <2>1
      <3>3. QED
        BY <1>1, <3>1, <3>2
    <2>2. QED
      BY <2>1
  <1>6. ASSUME Chain(e)
        PROVE  Chain(a) /\ Chain(b) /\ (n # 0 /\ m # 0 => Follows(a[n], b[1]))
    <2>1. \A i \in 1 .. n + m - 1 : Follows(e[i], e[i + 1])
      BY <1>1, <1>6 DEF Chain
    <2>2. Chain(a)
      BY <1>3, <2>1 DEF Chain
    <2>3. Chain(b)
      BY <1>4, <2>1 DEF Chain
    <2>4. n # 0 /\ m # 0 => Follows(a[n], b[1])
      <3>1. ASSUME n # 0, m # 0
            PROVE  Follows(a[n], b[1])
        <4>1. Follows(e[n], e[n + 1])
          BY <1>5, <2>1, <3>1
        <4>2. QED
          BY <1>5, <3>1, <4>1
      <3>2. QED
        BY <3>1
    <2>5. QED
      BY <2>2, <2>3, <2>4
  <1>7. ASSUME Chain(a), Chain(b), n # 0 /\ m # 0 => Follows(a[n], b[1])
        PROVE  Chain(e)
    <2>1. ASSUME NEW i \in 1 .. n + m - 1
          PROVE  Follows(e[i], e[i + 1])
      <3>1. CASE i < n
        <4>1. i \in 1 .. n - 1
          BY <1>1, <3>1
        <4>2. QED
          BY <1>3, <1>7, <4>1 DEF Chain
      <3>2. CASE i = n
        <4>1. n # 0 /\ m # 0
          BY <1>1, <3>2
        <4>2. QED
          BY <1>5, <1>7, <3>2, <4>1
      <3>3. CASE i > n
        <4>1. PICK h \in 1 .. m - 1 : i = n + h
          <5>1. i - n \in 1 .. m - 1 /\ i = n + (i - n)
            BY <1>1, <3>3
          <5>2. QED
            BY <5>1
        <4>2. e[i] = b[h] /\ e[i + 1] = b[h + 1]
          BY <1>4, <4>1
        <4>3. Follows(b[h], b[h + 1])
          BY <1>7, <4>1 DEF Chain
        <4>4. QED
          BY <4>2, <4>3
      <3>4. QED
        BY <1>1, <3>1, <3>2, <3>3
    <2>2. QED
      BY <1>1, <2>1 DEF Chain
  <1>8. QED
    BY <1>2, <1>6, <1>7 DEF e

\* The sample the client will send next.
Coming(s) == <<mic[s].take, mic[s].n + 1>>

\* One sample more.
LEMMA ChainNext ==
  ASSUME NEW a \in Seq(Sample), NEW z \in Sample
  PROVE  Chain(Append(a, z)) <=> Chain(a) /\ (a # <<>> => Follows(a[Len(a)], z))
  <1>1. PICK b \in Seq(Sample) : b = <<z>>
    <2>1. <<z>> \in Seq(Sample)
      OBVIOUS
    <2>2. QED
      BY <2>1
  <1>2. Len(b) = 1 /\ b[1] = z /\ b # <<>>
    BY <1>1
  <1>3. Chain(b)
    BY <1>2 DEF Chain
  <1>4. Chain(a \o b) <=> Chain(a) /\ Chain(b) /\ (a # <<>> /\ b # <<>> => Follows(a[Len(a)], b[1]))
    BY ChainJoin
  <1>5. Append(a, z) = a \o b
    BY <1>1, AppendIsConcat
  <1>6. QED
    BY <1>2, <1>3, <1>4, <1>5

\* A "clear" drops what is held, all of take b: what is left is a chain again.
LEMMA ChainClear ==
  ASSUME NEW a \in Seq(Sample), NEW h \in Seq(Sample), NEW r \in Seq(Sample), NEW b \in Nat,
         Chain((a \o h) \o r), r # <<>>, r[1][1] > b,
         \A k \in 1 .. Len(a) : a[k][1] <= b,
         \A k \in 1 .. Len(h) : h[k][1] = b
  PROVE  Chain(a \o r)
  <1>1. PICK g \in Seq(Sample) : g = a \o h
    BY ConcatProperties
  <1>2. Chain(g) /\ Chain(r) /\ (g # <<>> => Follows(g[Len(g)], r[1]))
    BY <1>1, ChainJoin
  <1>3. Chain(a)
    BY <1>1, <1>2, ChainJoin
  <1>4. ASSUME a # <<>>
        PROVE  Follows(a[Len(a)], r[1])
    <2>1. CASE h = <<>>
      <3>1. g = a
        BY <1>1, <2>1, ConcatEmptySeq
      <3>2. QED
        BY <1>2, <1>4, <3>1
    <2>2. CASE h # <<>>
      <3> DEFINE n == Len(a)
                 m == Len(h)
      <3>1. /\ n \in Nat /\ m \in Nat /\ Len(g) = n + m
            /\ \A i \in 1 .. n + m : g[i] = IF i <= n THEN a[i] ELSE h[i - n]
        BY <1>1, ConcatProperties, LenProperties
      <3>2. n # 0 /\ m # 0
        BY <1>4, <2>2, EmptySeq
      <3>3. n + m \in 1 .. n + m /\ ~(n + m <= n) /\ (n + m) - n = m /\ m \in 1 .. m /\ n \in 1 .. n
        BY <3>1, <3>2
      <3>4. g[n + m] = h[m] /\ h[m][1] = b /\ a[n][1] <= b
        BY <3>1, <3>3
      <3>5. g # <<>>
        BY <3>1, <3>2, EmptySeq
      <3>6. Follows(h[m], r[1])
        BY <1>2, <3>1, <3>4, <3>5
      <3>7. r[1][1] > b /\ r[1][1] # b
        <4>1. r[1] \in Sample
          <5>1. Len(r) \in Nat /\ Len(r) # 0
            BY EmptySeq, LenProperties
          <5>2. 1 \in 1 .. Len(r)
            BY <5>1
          <5>3. QED
            BY <5>2, ElementOfSeq
        <4>2. r[1][1] \in Nat
          BY <4>1 DEF Sample
        <4>3. QED
          BY <4>2
      <3>8. r[1][2] = 1
        BY <3>4, <3>6, <3>7 DEF Follows
      <3>9. r[1][1] > a[n][1]
        <4>1. a[n] \in Sample /\ r[1] \in Sample
          <5>1. Len(r) \in Nat /\ Len(r) # 0
            BY EmptySeq, LenProperties
          <5>2. 1 \in 1 .. Len(r)
            BY <5>1
          <5>3. QED
            BY <3>3, <5>2, ElementOfSeq
        <4>2. a[n][1] \in Nat /\ r[1][1] \in Nat
          BY <4>1 DEF Sample
        <4>3. QED
          BY <3>4, <3>7, <4>2, SMTT(30)
      <3>10. QED
        BY <3>8, <3>9 DEF Follows
    <2>3. QED
      BY <2>1, <2>2
  <1>5. QED
    BY <1>2, <1>3, <1>4, ChainJoin

\* A client says k samples more.
LEMMA ChainSpeech ==
  ASSUME TypeOK, NEW s \in Sockets, NEW k \in Nat, NEW a \in Seq(Sample),
         Chain(Append(a, Coming(s)))
  PROVE  Chain(Append(a \o Speech(s, k), <<mic[s].take, (mic[s].n + k) + 1>>))
  <1> DEFINE t0 == mic[s].take
             k0 == mic[s].n
             z  == <<t0, (k0 + k) + 1>>
  <1>1. t0 \in Nat /\ k0 \in Nat
    BY SocketTypes
  <1>2. PICK p \in Seq(Sample) : p = Speech(s, k)
    BY SpeechFacts
  <1>3. Len(p) = k /\ \A i \in 1 .. k : p[i] = <<t0, k0 + i>>
    BY <1>2, SpeechFacts
  <1>4. z \in Sample /\ Coming(s) \in Sample
    <2>1. (k0 + k) + 1 \in Nat /\ k0 + 1 \in Nat
      BY <1>1
    <2>2. QED
      BY <1>1, <2>1 DEF Sample, Coming
  <1>5. Chain(a) /\ (a # <<>> => Follows(a[Len(a)], Coming(s)))
    BY <1>4, ChainNext
  <1>6. Coming(s) = <<t0, k0 + 1>>
    BY DEF Coming
  <1> HIDE DEF t0, k0
  <1>7. Chain(p)
    <2>1. ASSUME NEW i \in 1 .. k - 1
          PROVE  Follows(p[i], p[i + 1])
      <3>1. i \in 1 .. k /\ i + 1 \in 1 .. k
        OBVIOUS
      <3>2. p[i] = <<t0, k0 + i>> /\ p[i + 1] = <<t0, k0 + (i + 1)>>
        BY <1>3, <3>1
      <3>3. k0 + (i + 1) = (k0 + i) + 1
        BY <1>1
      <3>4. QED
        BY <3>2, <3>3 DEF Follows
    <2>2. QED
      BY <1>3, <2>1 DEF Chain
  <1>8. CASE k = 0
    <2>1. p = <<>>
      BY <1>3, <1>8, EmptySeq
    <2>2. a \o p = a
      BY <2>1, ConcatEmptySeq
    <2>3. z = Coming(s)
      BY <1>1, <1>6, <1>8
    <2>4. QED
      BY <1>2, <2>2, <2>3 DEF z, t0, k0
  <1>9. CASE k # 0
    <2>1. p # <<>> /\ 1 \in 1 .. k /\ k \in 1 .. k
      BY <1>3, <1>9, EmptySeq
    <2>2. p[1] = Coming(s)
      BY <1>3, <1>6, <2>1
    <2>3. Chain(a \o p)
      BY <1>5, <1>7, <2>2, ChainJoin
    <2>4. PICK e \in Seq(Sample) : e = a \o p
      BY ConcatProperties
    <2>5. e[Len(e)] = <<t0, k0 + k>>
      <3>1. /\ Len(a) \in Nat /\ Len(e) = Len(a) + k
            /\ \A i \in 1 .. Len(a) + k : e[i] = IF i <= Len(a) THEN a[i] ELSE p[i - Len(a)]
        BY <1>3, <2>4, ConcatProperties, LenProperties
      <3>2. Len(a) + k \in 1 .. Len(a) + k /\ ~(Len(a) + k <= Len(a)) /\ (Len(a) + k) - Len(a) = k
        BY <1>9, <3>1
      <3>3. QED
        BY <1>3, <2>1, <3>1, <3>2
    <2>6. Follows(e[Len(e)], z)
      BY <2>5 DEF Follows
    <2>7. Chain(Append(e, z))
      BY <1>4, <2>3, <2>4, <2>6, ChainNext
    <2>8. QED
      BY <1>2, <2>4, <2>7 DEF z, t0, k0
  <1>10. QED
    BY <1>8, <1>9

LEMMA SampleShift ==
  \A a \in Seq(Sample), b \in Seq(Sample), z \in Sample, r \in Seq(Sample) :
    r = Append(b, z) => Append(a \o b, z) = a \o r
  <1> TAKE a \in Seq(Sample), b \in Seq(Sample), z \in Sample, r \in Seq(Sample)
  <1> HAVE r = Append(b, z)
  <1>1. PICK c \in Seq(Sample) : c = <<z>>
    <2>1. <<z>> \in Seq(Sample)
      OBVIOUS
    <2>2. QED
      BY <2>1
  <1>2. (a \o b) \o c = a \o (b \o c)
    BY SampleRegroup, Zenon
  <1>3. PICK d \in Seq(Sample) : d = a \o b
    BY ConcatProperties
  <1>4. Append(d, z) = d \o <<z>> /\ Append(b, z) = b \o <<z>>
    BY AppendIsConcat
  <1>5. QED
    BY <1>1, <1>2, <1>3, <1>4

LEMMA PaceRises ==
  ASSUME NEW q \in Seq(Messages), NEW t, Paces(q, t), NEW j \in 1 .. Len(q)
  PROVE  t[j] \in Nat /\ t[1] \in Nat /\ t[1] <= t[j]
  <1>1. Len(q) \in Nat /\ \A k \in 1 .. Len(q) : t[k] \in Nat /\ t[k - 1] \in Nat /\ t[k] >= t[k - 1]
    <2>1. Len(q) \in Nat
      BY LenProperties
    <2>2. ASSUME NEW k \in 1 .. Len(q)
          PROVE  t[k] \in Nat /\ t[k - 1] \in Nat /\ t[k] >= t[k - 1]
      <3>1. k \in 0 .. Len(q) /\ k - 1 \in 0 .. Len(q)
        BY <2>1
      <3>2. t[k] \in Nat /\ t[k - 1] \in Nat
        BY <3>1 DEF Paces
      <3>3. t[k] = t[k - 1] + (IF q[k].type = "clear" THEN 1 ELSE 0)
        BY DEF Paces
      <3>4. QED
        BY <3>2, <3>3
    <2>3. QED
      BY <2>1, <2>2
  <1>2. 1 \in 1 .. Len(q)
    BY <1>1
  <1> DEFINE T == {k \in 1 .. Len(q) : ~(t[1] <= t[k])}
  <1>3. T = {}
    <2> SUFFICES ASSUME T # {}
                 PROVE  FALSE
      OBVIOUS
    <2>1. T \in SUBSET Nat
      BY <1>1
    <2>2. PICK m \in T : \A k \in T : m <= k
      BY <2>1, Least
    <2>3. m # 1 /\ m \in 1 .. Len(q) /\ m \in Nat
      BY <1>1, <1>2, <2>2
    <2>4. m - 1 \in 1 .. Len(q) /\ ~(m <= m - 1)
      BY <1>1, <2>3
    <2>5. m - 1 \notin T
      BY <2>2, <2>4
    <2>6. t[1] <= t[m - 1] /\ t[m] >= t[m - 1] /\ t[1] \in Nat /\ t[m - 1] \in Nat /\ t[m] \in Nat
      BY <1>1, <1>2, <2>3, <2>4, <2>5
    <2>7. t[1] <= t[m]
      BY <2>6
    <2>8. QED
      BY <2>2, <2>7
  <1>4. QED
    BY <1>1, <1>2, <1>3

\* What is answered, held and on the way is without a gap, and so is what comes next.
Line(s) == s \notin gone /\ session[s].state # "ended" => Chain(Append(Trail(s), Coming(s)))

LEMMA TrailTypes ==
  ASSUME TypeOK, NEW s \in Sockets
  PROVE  /\ AnswerAudio(down[s]) \in Seq(Sample)
         /\ Held(s) \in Seq(Sample)
         /\ AudioIn(up[s]) \in Seq(Sample)
         /\ Trail(s) = (AnswerAudio(down[s]) \o Held(s)) \o AudioIn(up[s])
         /\ Trail(s) \in Seq(Sample)
         /\ Coming(s) \in Sample
  <1>1. /\ AnswerAudio(down[s]) \in Seq(Sample)
        /\ Held(s) \in Seq(Sample)
        /\ AudioIn(up[s]) \in Seq(Sample)
    BY SocketTypes, AnswerAudioFacts, AudioInFacts
  <1>2. Trail(s) = (AnswerAudio(down[s]) \o Held(s)) \o AudioIn(up[s])
    BY DEF Trail
  <1>3. AnswerAudio(down[s]) \o Held(s) \in Seq(Sample)
    BY <1>1, ConcatProperties
  <1>4. Trail(s) \in Seq(Sample)
    BY <1>1, <1>2, <1>3, ConcatProperties
  <1>5. mic[s].take \in Nat /\ mic[s].n \in Nat
    BY SocketTypes
  <1>6. mic[s].n + 1 \in Nat
    BY <1>5
  <1>7. Coming(s) \in Sample
    BY <1>5, <1>6 DEF Coming, Sample
  <1>8. QED
    BY <1>1, <1>2, <1>4, <1>7

LEMMA LineClient ==
  ASSUME TypeOK, TypeOK', NEW s \in Sockets, ClientActs(s), Line(s)
  PROVE  Line(s)'
  <1> SUFFICES ASSUME s \notin gone', session'[s].state # "ended"
               PROVE  Chain(Append(Trail(s), Coming(s)))'
    BY DEF Line
  <1>1. Listens(s)
    BY DEF ClientActs, Asking, Speaking, AskingClear, Breaking
  <1>2. Chain(Append(Trail(s), Coming(s)))
    BY <1>1 DEF Listens, Line
  <1>3. PICK d \in Seq(Sample) : d = AnswerAudio(down[s]) \o Held(s)
    BY TrailTypes, ConcatProperties
  <1>4. PICK u \in Seq(Sample) : u = AudioIn(up[s])
    BY TrailTypes
  <1>5. Trail(s) = d \o u
    BY <1>3, <1>4, TrailTypes
  <1>6. Trail(s)' = d \o AudioIn(up'[s])
    <2>1. down'[s] = down[s] /\ Held(s)' = Held(s)
      BY <1>1 DEF Listens, Held
    <2>2. QED
      BY <1>3, <2>1 DEF Trail
  <1>7. up[s] \in Seq(Messages)
    BY SocketTypes
  <1>8. u \o <<>> = u
    BY ConcatEmptySeq
  <1>9. ASSUME NEW m \in Messages, m.type # "audio", up'[s] = Append(up[s], m)
        PROVE  Trail(s)' = Trail(s)
    <2>1. AudioIn(up'[s]) = u
      BY <1>4, <1>7, <1>8, <1>9, AudioInAppend DEF Audio
    <2>2. QED
      BY <1>5, <1>6, <2>1
  <1>10. CASE Asking(s)
    <2>1. Trail(s)' = Trail(s)
      BY <1>9, <1>10 DEF Asking
    <2>2. Coming(s)' = Coming(s)
      BY <1>10 DEF Asking, Coming
    <2>3. QED
      BY <1>2, <2>1, <2>2
  <1>11. CASE Speaking(s)
    <2>1. PICK k \in Nat : /\ up'[s] = Append(up[s], [type |-> "audio", samples |-> Speech(s, k)])
                           /\ mic'[s] = [take |-> mic[s].take, n |-> mic[s].n + k]
      BY <1>11 DEF Speaking
    <2>2. PICK p \in Seq(Sample) : p = Speech(s, k)
      BY SpeechFacts
    <2>3. AudioIn(up'[s]) = u \o p
      <3> DEFINE m == [type |-> "audio", samples |-> p]
      <3>1. m \in Messages /\ Audio(m) = p
        BY DEF Messages, Audio
      <3>2. up'[s] = Append(up[s], m)
        BY <2>1, <2>2
      <3> HIDE DEF m
      <3>3. QED
        BY <1>4, <1>7, <3>1, <3>2, AudioInAppend
    <2>4. Trail(s)' = d \o (u \o p)
      BY <1>6, <2>3
    <2>5. (d \o u) \o p = d \o (u \o p)
      BY SampleRegroup, Zenon
    <2>6. Trail(s)' = Trail(s) \o p
      BY <1>5, <2>4, <2>5
    <2>7. Coming(s)' = <<mic[s].take, (mic[s].n + k) + 1>>
      BY <2>1 DEF Coming
    <2>8. Chain(Append(Trail(s) \o p, <<mic[s].take, (mic[s].n + k) + 1>>))
      BY <1>2, <2>2, TrailTypes, ChainSpeech
    <2>9. QED
      BY <2>6, <2>7, <2>8
  <1>12. CASE AskingClear(s)
    <2>1. [type |-> "clear"] \in Messages /\ [type |-> "clear"].type # "audio"
      BY DEF Messages, Plain
    <2>2. Trail(s)' = Trail(s)
      BY <1>9, <1>12, <2>1 DEF AskingClear
    <2> DEFINE t0 == mic[s].take
               z  == <<t0 + 1, 0 + 1>>
    <2>3. Coming(s)' = z
      BY <1>12 DEF AskingClear, Coming
    <2>4. t0 \in Nat
      BY SocketTypes
    <2>5. z \in Sample
      <3>1. t0 + 1 \in Nat /\ 0 + 1 \in Nat
        BY <2>4
      <3>2. QED
        BY <3>1 DEF Sample
    <2>6. PICK e \in Seq(Sample) : e = Trail(s)
      BY TrailTypes
    <2>7. Chain(e) /\ (e # <<>> => Follows(e[Len(e)], Coming(s)))
      BY <1>2, <2>6, TrailTypes, ChainNext
    <2>8. ASSUME e # <<>>
          PROVE  Follows(e[Len(e)], z)
      <3>1. e[Len(e)] \in Sample
        <4>1. Len(e) \in 1 .. Len(e)
          BY <2>8, EmptySeq, LenProperties
        <4>2. QED
          BY <4>1, ElementOfSeq
      <3>2. e[Len(e)][1] \in Nat
        BY <3>1 DEF Sample
      <3>3. e[Len(e)][1] = t0 \/ t0 > e[Len(e)][1]
        BY <2>7, <2>8 DEF Follows, Coming
      <3>4. t0 + 1 > e[Len(e)][1]
        BY <2>4, <3>2, <3>3
      <3>5. z[1] = t0 + 1 /\ z[2] = 1
        OBVIOUS
      <3> HIDE DEF z
      <3>6. QED
        BY <3>4, <3>5 DEF Follows
    <2> HIDE DEF z
    <2>9. Chain(Append(e, z))
      BY <2>5, <2>7, <2>8, ChainNext
    <2>10. QED
      BY <2>2, <2>3, <2>6, <2>9
  <1>13. QED
    BY <1>10, <1>11, <1>12 DEF ClientActs, Breaking

\* A step of the server that is no answer to "clear", nor an end, moves audio on and
\* keeps all of it in order.
LEMMA TrailKept ==
  ASSUME TypeOK, TypeOK', NEW s \in Sockets, s \notin gone,
         Minding(s) \/ Hearing(s) \/ Transcribing(s) \/ Finishing(s)
  PROVE  Trail(s)' = Trail(s)
  <1>1. up[s] \in Seq(Messages) /\ down[s] \in Seq(Answers) /\ up'[s] \in Seq(Messages)
    BY SocketTypes DEF TypeOK
  <1>2. PICK a \in Seq(Sample) : a = AnswerAudio(down[s])
    BY TrailTypes
  <1>3. PICK h \in Seq(Sample) : h = Held(s)
    BY TrailTypes
  <1>4. PICK u \in Seq(Sample) : u = AudioIn(up[s])
    BY TrailTypes
  <1>5. PICK v \in Seq(Sample) : v = AudioIn(up'[s])
    BY <1>1, AudioInFacts
  <1>6. Trail(s) = (a \o h) \o u
    BY <1>2, <1>3, <1>4, TrailTypes
  <1>7. Trail(s)' = (AnswerAudio(down'[s]) \o Held(s)') \o v
    BY <1>5 DEF Trail
  <1>8. ASSUME Mutters(s)
        PROVE  AnswerAudio(down'[s]) = a
    BY <1>1, <1>2, <1>8, MuteAudio DEF Mutters
  <1>9. ASSUME up[s] # <<>>, up'[s] = Tail(up[s])
        PROVE  u = Audio(Head(up[s])) \o v
    BY <1>1, <1>4, <1>5, <1>9, AudioInTail
  <1>10. <<>> \o v = v
    BY ConcatEmptySeq
  <1>11. CASE Minding(s)
    <2>1. AnswerAudio(down'[s]) = a /\ Held(s)' = h
      BY <1>3, <1>8, <1>11 DEF Minding
    <2>2. v = u
      <3>1. CASE up'[s] = up[s]
        BY <1>4, <1>5, <3>1
      <3>2. CASE Drops(s, {"config", "flush", "close", "ping"})
        <4>1. up[s] # <<>> /\ up'[s] = Tail(up[s]) /\ Head(up[s]).type # "audio"
          BY <3>2 DEF Drops
        <4>2. Audio(Head(up[s])) = <<>>
          BY <4>1 DEF Audio
        <4>3. QED
          BY <1>9, <1>10, <4>1, <4>2
      <3>3. QED
        BY <1>11, <3>1, <3>2 DEF Minding
    <2>3. QED
      BY <1>6, <1>7, <2>1, <2>2
  <1>12. CASE Hearing(s)
    <2>1. /\ down'[s] = down[s]
          /\ up[s] # <<>> /\ Head(up[s]).type = "audio" /\ up'[s] = Tail(up[s])
          /\ Held(s)' = Held(s) \o Head(up[s]).samples
      BY <1>12 DEF Hearing, Drops
    <2>2. Head(up[s]) \in Messages
      BY <1>1, <2>1, HeadTailProperties
    <2>3. PICK p \in Seq(Sample) : p = Head(up[s]).samples
      BY <2>1, <2>2, AudioMessage
    <2>4. u = p \o v
      BY <1>9, <2>1, <2>3 DEF Audio
    <2>5. PICK y \in Seq(Sample) : y = h \o p
      BY ConcatProperties
    <2>6. (a \o h) \o (p \o v) = (a \o (h \o p)) \o v
      <3>1. PICK g \in Seq(Sample) : g = a \o h
        BY ConcatProperties
      <3>2. (g \o p) \o v = g \o (p \o v)
        <4>1. \A b \in Seq(Sample), c \in Seq(Sample) : (g \o b) \o c = g \o (b \o c)
          BY SampleRegroup, Zenon
        <4>2. \A c \in Seq(Sample) : (g \o p) \o c = g \o (p \o c)
          BY <4>1, Zenon
        <4>3. QED
          BY <4>2, Zenon
      <3>3. (a \o h) \o p = a \o (h \o p)
        <4>1. \A b \in Seq(Sample), c \in Seq(Sample) : (a \o b) \o c = a \o (b \o c)
          BY SampleRegroup, Zenon
        <4>2. \A c \in Seq(Sample) : (a \o h) \o c = a \o (h \o c)
          BY <4>1, Zenon
        <4>3. QED
          BY <4>2, Zenon
      <3>4. QED
        BY <3>1, <3>2, <3>3
    <2>7. AnswerAudio(down'[s]) = a /\ Held(s)' = y
      BY <1>2, <1>3, <2>1, <2>3, <2>5
    <2>8. QED
      BY <1>6, <1>7, <2>4, <2>5, <2>6, <2>7
  <1>13. CASE Transcribing(s)
    <2>1. PICK w \in Answers : /\ Held(s) = w.samples \o Held(s)'
                               /\ down'[s] = Append(down[s], w)
      BY <1>13 DEF Transcribing
    <2>2. v = u
      BY <1>4, <1>5, <1>13 DEF Transcribing
    <2>3. PICK p \in Seq(Sample) : p = w.samples
      BY DEF Answers
    <2>4. PICK y \in Seq(Sample) : y = Held(s)'
      <3>1. session'[s].due \in Seq(Sample) /\ session'[s].buffer \in Seq(Sample)
        BY DEF TypeOK, Session
      <3>2. QED
        BY <3>1, ConcatProperties DEF Held
    <2>5. PICK x \in Seq(Sample) : x = a \o p
      BY ConcatProperties
    <2>6. AnswerAudio(down'[s]) = x
      BY <1>1, <1>2, <2>1, <2>3, <2>5, AnswerAudioAppend
    <2>7. (a \o p) \o y = a \o (p \o y)
      <3>1. \A b \in Seq(Sample), c \in Seq(Sample) : (a \o b) \o c = a \o (b \o c)
        BY SampleRegroup, Zenon
      <3>2. \A c \in Seq(Sample) : (a \o p) \o c = a \o (p \o c)
        BY <3>1, Zenon
      <3>3. QED
        BY <3>2, Zenon
    <2>8. a \o h = x \o y
      BY <1>3, <2>1, <2>3, <2>4, <2>5, <2>7
    <2>9. QED
      BY <1>6, <1>7, <2>2, <2>4, <2>6, <2>8
  <1>14. CASE Finishing(s)
    <2>1. Held(s)' = h /\ v = u
      BY <1>3, <1>4, <1>5, <1>14 DEF Finishing, Held
    <2>2. AnswerAudio(down'[s]) = a
      <3> DEFINE c == Answer("closed")
                 b == Answer("bye")
      <3>1. c \in Answers /\ b \in Answers /\ c.samples = <<>> /\ b.samples = <<>>
        BY AnswerType DEF Spoken, Answer
      <3>2. down'[s] = Append(Append(down[s], c), b)
        BY <1>14 DEF Finishing
      <3> HIDE DEF c, b
      <3>3. PICK e \in Seq(Answers) : e = Append(down[s], c)
        BY <1>1, <3>1, AppendProperties
      <3>4. a \o <<>> = a
        BY ConcatEmptySeq
      <3>5. AnswerAudio(e) = a
        BY <1>1, <1>2, <3>1, <3>3, <3>4, AnswerAudioAppend
      <3>6. AnswerAudio(Append(e, b)) = a
        BY <3>1, <3>4, <3>5, AnswerAudioAppend
      <3>7. QED
        BY <3>2, <3>3, <3>6
    <2>3. QED
      BY <1>6, <1>7, <2>1, <2>2
  <1>15. QED
    BY <1>11, <1>12, <1>13, <1>14

\* The answer to "clear" drops what is held, and nothing else.
LEMMA TrailCleared ==
  ASSUME TypeOK, TypeOK', NEW s \in Sockets, s \notin gone, Clearing(s)
  PROVE  Trail(s)' = AnswerAudio(down[s]) \o AudioIn(up[s])
  <1>1. up[s] \in Seq(Messages) /\ down[s] \in Seq(Answers) /\ up'[s] \in Seq(Messages)
    BY SocketTypes DEF TypeOK
  <1>2. PICK a \in Seq(Sample) : a = AnswerAudio(down[s])
    BY TrailTypes
  <1>3. PICK v \in Seq(Sample) : v = AudioIn(up'[s])
    BY <1>1, AudioInFacts
  <1>4. /\ Held(s)' = <<>>
        /\ up[s] # <<>> /\ Head(up[s]).type = "clear" /\ up'[s] = Tail(up[s])
        /\ down'[s] = Append(down[s], Answer("cleared"))
    BY DEF Clearing, Drops
  <1>5. AnswerAudio(down'[s]) = a
    <2>1. Answer("cleared") \in Answers /\ Answer("cleared").samples = <<>>
      BY AnswerType DEF Spoken, Answer
    <2>2. a \o <<>> = a
      BY ConcatEmptySeq
    <2>3. QED
      BY <1>1, <1>2, <1>4, <2>1, <2>2, AnswerAudioAppend
  <1>6. AudioIn(up[s]) = v
    <2>1. Audio(Head(up[s])) = <<>>
      BY <1>4 DEF Audio
    <2>2. <<>> \o v = v
      BY ConcatEmptySeq
    <2>3. QED
      BY <1>1, <1>3, <1>4, <2>1, <2>2, AudioInTail
  <1>7. a \o <<>> = a
    BY ConcatEmptySeq
  <1>8. QED
    BY <1>2, <1>3, <1>4, <1>5, <1>6, <1>7 DEF Trail

\* What follows a "clear" on the way, to the next sample and with it, is of a later take.
LEMMA LaterTakes ==
  ASSUME TypeOK, NEW s \in Sockets, up[s] # <<>>, Head(up[s]).type = "clear",
         NEW t, Paces(up[s], t), mic[s].take = t[Len(up[s])],
         NEW r, r = Append(AudioIn(up[s]), Coming(s))
  PROVE  t[0] \in Nat /\ r \in Seq(Sample) /\ r # <<>> /\ r[1][1] > t[0]
  <1>1. up[s] \in Seq(Messages) /\ Len(up[s]) \in Nat
    BY SocketTypes, LenProperties
  <1>2. PICK u \in Seq(Sample) : u = AudioIn(up[s])
    BY TrailTypes
  <1>3. PICK z \in Sample : z = Coming(s)
    BY TrailTypes
  <1>4. Len(up[s]) # 0 /\ Head(up[s]) = up[s][1]
    BY <1>1, EmptySeq, HeadTailProperties
  <1>5. t[0] \in Nat /\ t[1] = t[0] + 1
    <2>1. 1 \in 1 .. Len(up[s]) /\ 0 \in 0 .. Len(up[s])
      BY <1>1, <1>4
    <2>2. t[1] = t[1 - 1] + (IF up[s][1].type = "clear" THEN 1 ELSE 0) /\ t[0] \in Nat
      BY <2>1 DEF Paces
    <2>3. QED
      BY <1>4, <2>2
  <1>6. \A j \in 1 .. Len(up[s]) : t[j] > t[0]
    <2>1. ASSUME NEW j \in 1 .. Len(up[s])
          PROVE  t[j] > t[0]
      <3>1. t[j] \in Nat /\ t[1] <= t[j]
        BY <1>1, PaceRises
      <3>2. QED
        BY <1>5, <3>1
    <2>2. QED
      BY <2>1
  <1>7. \A i \in 1 .. Len(u) : u[i][1] > t[0]
    <2>1. ASSUME NEW i \in 1 .. Len(u)
          PROVE  u[i][1] > t[0]
      <3>1. PICK j \in 1 .. Len(up[s]) :
              /\ up[s][j].type = "audio"
              /\ \E k \in 1 .. Len(up[s][j].samples) : u[i] = up[s][j].samples[k]
        BY <1>1, <1>2, <2>1, AudioInFacts
      <3>2. u[i][1] = t[j]
        BY <3>1 DEF Paces
      <3>3. QED
        BY <1>6, <3>2
    <2>2. QED
      BY <2>1
  <1>8. z[1] > t[0]
    <2>1. z[1] = t[Len(up[s])] /\ Len(up[s]) \in 1 .. Len(up[s])
      BY <1>1, <1>3, <1>4 DEF Coming
    <2>2. QED
      BY <1>6, <2>1
  <1>9. r = Append(u, z)
    BY <1>2, <1>3
  <1>10. /\ r \in Seq(Sample) /\ r # <<>> /\ Len(u) \in Nat /\ r[Len(u) + 1] = z
         /\ \A i \in 1 .. Len(u) : r[i] = u[i]
    BY <1>9, AppendProperties, LenProperties
  <1>11. CASE Len(u) = 0
    BY <1>5, <1>8, <1>10, <1>11
  <1>12. CASE Len(u) # 0
    <2>1. 1 \in 1 .. Len(u)
      BY <1>10, <1>12
    <2>2. QED
      BY <1>5, <1>7, <1>10, <2>1
  <1>13. QED
    BY <1>10, <1>11, <1>12

LEMMA LineServer ==
  ASSUME TypeOK, TypeOK', NEW s \in Sockets, ServerActs(s), Placed(s), Line(s)
  PROVE  Line(s)'
  <1> SUFFICES ASSUME s \notin gone', session'[s].state # "ended"
               PROVE  Chain(Append(Trail(s), Coming(s)))'
    BY DEF Line
  <1>1. Rests(s) /\ s \notin gone /\ session[s].state # "ended"
    BY DEF ServerActs, Ending, Minding, Hearing, Clearing, Transcribing, Finishing, Rests
  <1>2. Coming(s)' = Coming(s)
    BY <1>1 DEF Rests, Coming
  <1>3. Chain(Append(Trail(s), Coming(s)))
    BY <1>1 DEF Line
  <1>4. CASE Minding(s) \/ Hearing(s) \/ Transcribing(s) \/ Finishing(s)
    BY <1>1, <1>2, <1>3, <1>4, TrailKept
  <1>5. CASE Clearing(s)
    <2>1. PICK a \in Seq(Sample) : a = AnswerAudio(down[s])
      BY TrailTypes
    <2>2. PICK h \in Seq(Sample) : h = Held(s)
      BY TrailTypes
    <2>3. PICK u \in Seq(Sample) : u = AudioIn(up[s])
      BY TrailTypes
    <2>4. PICK z \in Sample : z = Coming(s)
      BY TrailTypes
    <2>5. PICK r \in Seq(Sample) : r = Append(u, z)
      BY AppendProperties
    <2>6. PICK t : /\ Paces(up[s], t)
                   /\ Behind(down[s], Held(s), t[0])
                   /\ mic[s].take = t[Len(up[s])]
      BY <1>1 DEF Placed
    <2>7. t[0] \in Nat /\ r # <<>> /\ r[1][1] > t[0]
      BY <1>5, <2>3, <2>4, <2>5, <2>6, LaterTakes DEF Clearing, Drops
    <2>8. \A k \in 1 .. Len(a) : a[k][1] <= t[0]
      <3>1. ASSUME NEW i \in 1 .. Len(a)
            PROVE  a[i][1] <= t[0]
        <4>1. down[s] \in Seq(Answers)
          BY SocketTypes
        <4>2. PICK j \in 1 .. Len(down[s]) : \E k \in 1 .. Len(down[s][j].samples) :
                a[i] = down[s][j].samples[k]
          BY <2>1, <3>1, <4>1, AnswerAudioFacts
        <4>3. QED
          BY <2>6, <4>2 DEF Behind
      <3>2. QED
        BY <3>1
    <2>9. \A k \in 1 .. Len(h) : h[k][1] = t[0]
      BY <2>2, <2>6 DEF Behind
    <2>10. PICK g \in Seq(Sample) : g = a \o h
      BY ConcatProperties
    <2>11. Append(g \o u, z) = g \o r /\ Append(a \o u, z) = a \o r
      BY <2>5, SampleShift, Zenon
    <2>12. Chain((a \o h) \o r)
      BY <1>3, <2>1, <2>2, <2>3, <2>4, <2>10, <2>11, TrailTypes
    <2>13. Chain(a \o r)
      BY <2>7, <2>8, <2>9, <2>12, ChainClear
    <2>14. Trail(s)' = a \o u
      BY <1>1, <1>5, <2>1, <2>3, TrailCleared
    <2>15. QED
      BY <1>2, <2>4, <2>11, <2>13, <2>14
  <1>6. QED
    BY <1>4, <1>5 DEF ServerActs, Ending

Gapless == \A s \in Sockets : Placed(s) /\ Forgets(down[s]) /\ Line(s)

LEMMA LineStep ==
  ASSUME TypeOK, TypeOK', Gapless, [Next]_vars
  PROVE  Gapless'
  <1>1. AllPlaced'
    BY PlacedStep DEF Gapless, AllPlaced
  <1> SUFFICES ASSUME NEW s \in Sockets
               PROVE  Line(s)'
    BY <1>1 DEF Gapless, AllPlaced
  <1>2. Placed(s) /\ Line(s)
    BY DEF Gapless
  <1>3. CASE Still(s)
    <2>1. /\ session'[s] = session[s] /\ up'[s] = up[s] /\ down'[s] = down[s]
          /\ mic'[s] = mic[s] /\ (s \in gone => s \in gone')
      BY <1>3 DEF Still, Rests
    <2>2. Trail(s)' = Trail(s) /\ Coming(s)' = Coming(s)
      BY <2>1 DEF Trail, Held, Coming
    <2>3. QED
      BY <1>2, <2>1, <2>2 DEF Line
  <1>4. CASE ClientActs(s)
    BY <1>2, <1>4, LineClient
  <1>5. CASE ServerActs(s)
    BY <1>2, <1>5, LineServer
  <1>6. QED
    BY <1>3, <1>4, <1>5, OneSocket

LEMMA InitLine == Init => Gapless
  <1> SUFFICES ASSUME Init, NEW s \in Sockets
               PROVE  Line(s)
    BY InitPlaced DEF Gapless, AllPlaced
  <1>1. TypeOK
    BY InitType
  <1>2. /\ up[s] = <<>> /\ down[s] = <<>>
        /\ session[s].due = <<>> /\ session[s].buffer = <<>>
    BY DEF Init, New
  <1>3. <<>> \o <<>> = <<>> /\ Len(<<>>) = 0 /\ <<>> \in Seq(Sample)
    BY ConcatEmptySeq, EmptySeq
  <1>4. AudioIn(up[s]) = <<>>
    <2>1. PICK u \in Seq(Sample) : u = AudioIn(up[s])
      BY <1>1, TrailTypes
    <2>2. 1 .. Len(up[s]) = {} /\ up[s] \in Seq(Messages)
      BY <1>1, <1>2, <1>3, SocketTypes
    <2>3. \A i \in 1 .. Len(u) : \E j \in 1 .. Len(up[s]) : TRUE
      BY <2>1, <2>2, AudioInFacts
    <2>4. PICK n \in Nat : n = Len(u)
      BY LenProperties
    <2>5. n = 0
      BY <2>2, <2>3, <2>4
    <2>6. QED
      BY <2>1, <2>4, <2>5, EmptySeq
  <1>5. AnswerAudio(down[s]) = <<>>
    <2>1. PICK a \in Seq(Sample) : a = AnswerAudio(down[s])
      BY <1>1, TrailTypes
    <2>2. 1 .. Len(down[s]) = {} /\ down[s] \in Seq(Answers)
      BY <1>1, <1>2, <1>3, SocketTypes
    <2>3. \A i \in 1 .. Len(a) : \E j \in 1 .. Len(down[s]) : TRUE
      BY <2>1, <2>2, AnswerAudioFacts
    <2>4. PICK n \in Nat : n = Len(a)
      BY LenProperties
    <2>5. n = 0
      BY <2>2, <2>3, <2>4
    <2>6. QED
      BY <2>1, <2>4, <2>5, EmptySeq
  <1>6. Trail(s) = <<>>
    BY <1>2, <1>3, <1>4, <1>5 DEF Trail, Held
  <1>7. Chain(<<>>)
    BY <1>3 DEF Chain
  <1>8. PICK z \in Sample : z = Coming(s)
    BY <1>1, TrailTypes
  <1>9. Chain(Append(<<>>, z))
    BY <1>3, <1>7, ChainNext
  <1>10. QED
    BY <1>6, <1>8, <1>9 DEF Line

\* No sample of an open socket is lost, said twice or moved on the way from the
\* microphone to its transcripts, for every configuration, chunk size, flush and order
\* of messages; only a "clear" makes a gap (append_binary() cuts full chunks off the
\* front of the buffer and keeps the rest, flush() hands out or keeps what is left).
THEOREM NoneLost == Spec => []NoSampleLost
  <1>1. TypeOK /\ TypeOK' /\ Gapless /\ [Next]_vars => Gapless'
    BY LineStep
  <1>2. TypeOK /\ Gapless => NoSampleLost
    <2> SUFFICES ASSUME TypeOK, Gapless, NEW s \in Sockets \ gone, session[s].state = "open"
                 PROVE  Chain(Trail(s))
      BY DEF NoSampleLost, Chain
    <2>1. s \in Sockets /\ Chain(Append(Trail(s), Coming(s)))
      BY DEF Gapless, Line
    <2>2. PICK a \in Seq(Sample) : a = Trail(s)
      BY <2>1, TrailTypes
    <2>3. PICK z \in Sample : z = Coming(s)
      BY <2>1, TrailTypes
    <2>4. Chain(a)
      BY <2>1, <2>2, <2>3, ChainNext
    <2>5. QED
      BY <2>2, <2>4
  <1>3. QED
    BY <1>1, <1>2, InitLine, TypeCorrect, PTL DEF Spec
=============================================================================
