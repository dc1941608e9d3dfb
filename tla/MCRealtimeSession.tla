------------------------- MODULE MCRealtimeSession -------------------------
(* RealtimeSession with durations in halves of a sample period, so that    *)
(* rounding shows: round() takes a half to the even neighbour, and no      *)
(* duration is shorter than one sample.                                    *)
EXTENDS RealtimeSession

RoundHalves(d) == LET down2 == d \div 2 IN
  IF d % 2 = 0 \/ down2 % 2 = 0 THEN down2 ELSE down2 + 1
CountOf == [d \in Durations |-> IF RoundHalves(d) < 1 THEN 1 ELSE RoundHalves(d)]

ServerSettings == [chunk |-> 4, min |-> 4, buffer |-> 7, encoding |-> "pcm_f32le"]

\* Shorter chunks and buffers, another encoding, a chunk beyond its buffer, a buffer
\* beyond the server's.
Requests == {[ServerSettings EXCEPT !.chunk = 1],
             [ServerSettings EXCEPT !.buffer = 4],
             [ServerSettings EXCEPT !.chunk = 7],
             [ServerSettings EXCEPT !.encoding = "pcm_s16le"],
             [ServerSettings EXCEPT !.chunk = 7, !.buffer = 4],
             [ServerSettings EXCEPT !.buffer = 10]}
=============================================================================
