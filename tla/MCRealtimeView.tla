--------------------------- MODULE MCRealtimeView ---------------------------
(* RealtimeView with chunks of two samples and two sockets, one after the  *)
(* other.                                                                  *)
EXTENDS RealtimeView

TwoPerChunk == [d \in Durations |-> d]
StudioSettings == [chunk |-> 2, min |-> 2, buffer |-> 4, encoding |-> "pcm_f32le"]
=============================================================================
