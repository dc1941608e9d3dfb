---------------------------- MODULE RealtimeView ----------------------------
(***************************************************************************)
(* The Studio's realtime page (RealtimeView.tsx) as the client of          *)
(* RealtimeSession: its refs, its screen state and the browser events that *)
(* change them.  The event loop runs one handler at a time; between any    *)
(* two of them the server, the network, the user and the browser's answer  *)
(* to getUserMedia() may move.  A socket is never used twice, so an event  *)
(* of an earlier one may still arrive when a new session runs.             *)
(* Level meter, elapsed time, languages and messages are left out.         *)
(***************************************************************************)
EXTENDS RealtimeSession

CONSTANT NoSocket
ASSUME NoSocketAssumption == NoSocket \notin Sockets

VARIABLES
  screen,      \* sessionState, or "away" while the page is not mounted
  current,     \* websocketRef.current
  finalizing,  \* finalizingRef.current
  alarm,       \* the socket whose stop timeout is armed (stopTimeoutRef)
  ready,       \* [Sockets -> readyState]
  asking,      \* sockets whose getUserMedia() has not answered
  capture,     \* the socket the microphone's audio goes to (streamRef and the processor)
  shown        \* [Sockets -> Seq(Sample)]: the audio whose transcripts are on the page

page == <<screen, current, finalizing, alarm, ready, asking, capture, shown>>
viewVars == <<session, up, down, gone, mic, screen, current, finalizing, alarm, ready, asking,
              capture, shown>>

Screens    == {"idle", "connecting", "listening", "stopping", "error", "away"}
Sides      == Sockets \cup {NoSocket}
Connection == {"none", "connecting", "open", "closing", "closed"}
Reachable  == {"connecting", "open"}

NothingShown == [s \in Sockets |-> <<>>]

ViewInit == /\ Init
            /\ screen = "idle" /\ current = NoSocket /\ finalizing = FALSE /\ alarm = NoSocket
            /\ ready = [s \in Sockets |-> "none"]
            /\ asking = {} /\ capture = NoSocket
            /\ shown = NothingShown

-----------------------------------------------------------------------------
\* Parts of the handlers.

\* cleanupRealtimeResources(): timeout, socket and microphone are let go of.  A socket
\* that is closing delivers nothing more.
Release == /\ alarm' = NoSocket /\ current' = NoSocket /\ capture' = NoSocket
           /\ IF current # NoSocket /\ ready[current] \in Reachable
              THEN /\ ready' = [ready EXCEPT ![current] = "closing"]
                   /\ down' = [down EXCEPT ![current] = <<>>]
                   /\ HangUp(current)
              ELSE UNCHANGED <<ready, gone, up, down>>

\* The same where the handler runs on a socket that has closed.
ReleaseClosed(s) == /\ alarm' = NoSocket /\ current' = NoSocket /\ capture' = NoSocket
                    /\ ready' = [ready EXCEPT ![s] = "closed"]
                    /\ UNCHANGED <<gone, up>>

\* websocketRef.current !== websocket: what every handler of a socket asks first.
AnySocket(s) == current # NoSocket
IsCurrent(s) == current = s

\* startMicrophone() when getUserMedia() has answered: is the stream still wanted?
WantedIfOpen(s) == IsCurrent(s) /\ ready[s] = "open"
StillWanted(s)  == IsCurrent(s) /\ ready[s] = "open" /\ ~finalizing

\* The timeout stopSession() arms.
NoAlarm(s)   == NoSocket
StopAlarm(s) == s

\* What "cleared" leaves on the page.
KeptOnCleared  == shown
AfterCleared   == NothingShown

-----------------------------------------------------------------------------
\* The user.

\* startSession(); the browser may refuse the address.
Start == /\ screen \in {"idle", "error"} /\ current = NoSocket
         /\ \/ \E s \in Sockets : /\ ready[s] = "none"
                                  /\ Ask(s)
                                  /\ ready' = [ready EXCEPT ![s] = "connecting"]
                                  /\ current' = s
                                  /\ screen' = "connecting"
            \/ /\ screen' = "error"
               /\ UNCHANGED <<session, up, down, gone, mic, current, ready>>
         /\ finalizing' = FALSE /\ alarm' = NoSocket /\ capture' = NoSocket
         /\ UNCHANGED <<asking, shown>>

\* stopSession() on a socket that can still be told, and on any other.
StopOpen == /\ current # NoSocket /\ ready[current] = "open"
            /\ finalizing' = TRUE
            /\ alarm' = StopAlarm(current)
            /\ Sent(current, [type |-> "close"])
            /\ screen' = "stopping" /\ capture' = NoSocket
            /\ UNCHANGED <<session, down, gone, mic, current, ready, asking, shown>>

StopOther == /\ ~(current # NoSocket /\ ready[current] = "open")
             /\ Release
             /\ screen' = "idle"
             /\ UNCHANGED <<session, mic, finalizing, asking, shown>>

Stop == screen \in {"connecting", "listening"} /\ (StopOpen \/ StopOther)

\* clearSession(): the page at once, the server's buffer when the message arrives.
ClearPage == /\ screen \notin {"stopping", "away"} /\ shown # NothingShown
             /\ shown' = NothingShown
             /\ IF current # NoSocket /\ ready[current] = "open"
                THEN AskToClear(current)
                ELSE UNCHANGED <<session, up, down, gone, mic>>
             /\ UNCHANGED <<screen, current, finalizing, alarm, ready, asking, capture>>

\* The page is left, and opened again with new refs and an empty transcript.
Leave == /\ screen # "away" /\ screen' = "away"
         /\ Release
         /\ UNCHANGED <<session, mic, finalizing, asking, shown>>

Open == /\ screen = "away" /\ screen' = "idle"
        /\ finalizing' = FALSE /\ shown' = NothingShown
        /\ UNCHANGED <<session, up, down, gone, mic, current, alarm, ready, asking, capture>>

-----------------------------------------------------------------------------
\* The browser: events of socket s, the microphone and the timer.

Arrived(s, t) == down[s] # <<>> /\ Head(down[s]).type = t
Consumed(s) == down' = [down EXCEPT ![s] = Tail(@)]

Established(s) == /\ ready[s] = "connecting" /\ Arrived(s, "accepted")
                  /\ Consumed(s)
                  /\ ready' = [ready EXCEPT ![s] = "open"]
                  /\ UNCHANGED <<session, up, gone, mic, screen, current, finalizing, alarm, asking,
                                 capture, shown>>

\* onmessage; the socket is the current one.
OnReady(s) == /\ Arrived(s, "ready") /\ Consumed(s)
              /\ asking' = IF finalizing THEN asking ELSE asking \cup {s}
              /\ UNCHANGED <<up, gone, screen, current, finalizing, alarm, ready, capture, shown>>

OnTranscript(s) == /\ Arrived(s, "transcript") /\ Consumed(s)
                   /\ shown' = [shown EXCEPT ![s] = @ \o Head(down[s]).samples]
                   /\ UNCHANGED <<up, gone, screen, current, finalizing, alarm, ready, asking, capture>>

OnCleared(s) == /\ Arrived(s, "cleared") /\ Consumed(s)
                /\ shown' = AfterCleared
                /\ UNCHANGED <<up, gone, screen, current, finalizing, alarm, ready, asking, capture>>

\* "closed" ends a session that is being stopped; otherwise it is out of place.
ScreenEchoed == IF finalizing THEN "closed" ELSE "error"
ScreenAfterClosed == IF finalizing THEN "idle" ELSE "error"

OnClosed(s) == /\ Arrived(s, "closed")
               /\ screen' = ScreenAfterClosed
               /\ finalizing' = FALSE
               /\ Release
               /\ UNCHANGED <<asking, shown>>

OnError(s) == /\ Arrived(s, "error")
              /\ screen' = "error"
              /\ Release
              /\ UNCHANGED <<finalizing, asking, shown>>

OnMessage(s) == /\ ready[s] = "open" /\ IsCurrent(s)
                /\ OnReady(s) \/ OnTranscript(s) \/ OnCleared(s) \/ OnClosed(s) \/ OnError(s)
                /\ UNCHANGED <<session, mic>>

\* The server's close frame: first the handshake starts, then onclose is called.
Closing(s) == /\ ready[s] = "open" /\ Arrived(s, "bye")
              /\ Consumed(s)
              /\ ready' = [ready EXCEPT ![s] = "closing"]
              /\ UNCHANGED <<session, up, gone, mic, screen, current, finalizing, alarm, asking,
                             capture, shown>>

\* onclose, and onerror where the connection failed: the same outcome.
OnClose(s) == /\ IF IsCurrent(s)
                 THEN screen' = "error" /\ ReleaseClosed(s)
                 ELSE /\ ready' = [ready EXCEPT ![s] = "closed"]
                      /\ UNCHANGED <<screen, current, alarm, capture, up, gone>>
              /\ UNCHANGED <<session, mic, finalizing, asking, shown>>

Closed(s) == /\ ready[s] = "closing" /\ UNCHANGED down
             /\ OnClose(s)

Failed(s) == /\ ready[s] \in Reachable /\ (Arrived(s, "refused") \/ Arrived(s, "lost"))
             /\ Consumed(s)
             /\ OnClose(s)

\* getUserMedia() has the user's consent, or not (startMicrophone()).
Granted(s) == /\ s \in asking /\ asking' = asking \ {s}
              /\ IF StillWanted(s) THEN capture' = s /\ screen' = "listening"
                                   ELSE UNCHANGED <<capture, screen>>
              /\ UNCHANGED <<session, up, down, gone, mic, current, finalizing, alarm, ready, shown>>

Denied(s) == /\ s \in asking /\ asking' = asking \ {s}
             /\ IF IsCurrent(s) /\ ~finalizing
                THEN screen' = "error" /\ Release
                ELSE UNCHANGED <<screen, alarm, current, capture, ready, gone, up, down>>
             /\ UNCHANGED <<session, mic, finalizing, shown>>

\* onaudioprocess: a frame goes to the socket the processor was made for.
Capture(s, k) == /\ capture = s /\ ready[s] = "open"
                 /\ Speak(s, k)
                 /\ UNCHANGED page

\* 30 seconds after stopSession().
TimesOut == /\ alarm # NoSocket
            /\ IF IsCurrent(alarm) THEN screen' = "error" /\ Release
               ELSE /\ alarm' = NoSocket
                    /\ UNCHANGED <<screen, current, capture, ready, gone, up, down>>
            /\ UNCHANGED <<session, mic, finalizing, asking, shown>>

\* The connection breaks under the page; what the server said before may be lost.
NetworkFails(s) == /\ ready[s] \in Reachable
                   /\ Break(s)
                   /\ \E i \in 0 .. Len(down[s]) :
                        down' = [down EXCEPT ![s] = Append(SubSeq(@, 1, i), Answer("lost"))]
                   /\ UNCHANGED <<session, mic>> /\ UNCHANGED page

-----------------------------------------------------------------------------
User == Start \/ Stop \/ ClearPage \/ Leave \/ Open

Browser(s) == \/ Established(s) \/ OnMessage(s) \/ Closing(s) \/ Closed(s) \/ Failed(s)
              \/ Granted(s) \/ Denied(s)
              \/ \E k \in 1 .. MaxSpoken : Capture(s, k)

Server(s) == (Serve(s) \/ ServerCloses(s)) /\ UNCHANGED page

ViewNext == \/ User
            \/ TimesOut
            \/ \E s \in Sockets : Browser(s) \/ Server(s) \/ NetworkFails(s)

ViewSpec == ViewInit /\ [][ViewNext]_viewVars

\* Timers fire.  Nothing is assumed of the user, the network or the server.
FairViewSpec == ViewSpec /\ WF_viewVars(TimesOut)

-----------------------------------------------------------------------------
\* Properties.

\* Type invariant.
ViewTypeOK == /\ screen \in Screens /\ current \in Sides /\ finalizing \in BOOLEAN
              /\ alarm \in Sides /\ capture \in Sides
              /\ ready \in [Sockets -> Connection]
              /\ asking \subseteq Sockets
              /\ shown \in [Sockets -> Seq(Sample)]

\* The microphone is open only while the page says so, for the current session, and not
\* once it is being stopped: however late the permission is given (startMicrophone).
MicrophoneOnlyListening == capture # NoSocket =>
  capture = current /\ screen = "listening" /\ ~finalizing

\* No socket stays open without the page knowing it, and a page at rest holds none, nor a
\* timeout: events of an earlier socket never detach a later session.
NothingLeftBehind ==
  /\ \A s \in Sockets : ready[s] \in Reachable => current = s
  /\ screen \in {"idle", "error", "away"} => current = NoSocket /\ alarm = NoSocket

\* All samples of the take that is being recorded on socket s.
WholeTake(s) == [i \in 1 .. mic[s].n |-> <<mic[s].take, i>>]

\* A session that is finalized reaches "idle" only with every sample since the last clear
\* transcribed and on the page, in order.
Confirmed == shown'[current] = WholeTake(current)
StoppedIsConfirmed == [][screen = "stopping" /\ screen' = "idle" => Confirmed]_viewVars

\* What was cleared comes back at most until the server has answered the "clear".
ClearSticks == \A s \in Sockets :
  s = current /\ s \notin gone /\ session[s].state # "ended" =>
    \/ \A i \in 1 .. Len(shown[s]) : shown[s][i][1] = mic[s].take
    \/ \E i \in 1 .. Len(up[s]) : up[s][i].type = "clear"
    \/ \E i \in 1 .. Len(down[s]) : down[s][i].type = "cleared"

\* "Finalizing" never lasts: the answer comes, or the timeout.
StopEnds == screen = "stopping" ~> screen # "stopping"

\* docs/operations.md:57: the Studio waits for the final "closed" acknowledgement, so a
\* session that has listened becomes idle only when its audio is on the page.
IdleIsConfirmed ==
  [][(screen \in {"listening", "stopping"} /\ screen' = "idle") => Confirmed]_viewVars

=============================================================================
