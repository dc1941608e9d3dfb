----------------------------- MODULE VoiceStore -----------------------------
(***************************************************************************)
(* The voice library as the Voices page meets it: VoiceStore (service.py), *)
(* which serialises its operations with one lock, and the intake handlers  *)
(* (router.py), which read, judge and store a recording in steps of their  *)
(* own.  A recording is a clip of which a cut is taken; a clip that lies   *)
(* in the server's folder may be replaced there.  The text and language of *)
(* a profile are judged and edited like the cut and go with it.            *)
(***************************************************************************)
EXTENDS Integers, Sequences, FiniteSets

CONSTANTS Uploads, Locals,   \* clips on the user's device, and in the server's folder
          Cuts, Quality,     \* [(Uploads \cup Locals) \X Cuts -> {"ready", "review", "blocked"}]
          MaxVoices, MaxCalls, MaxVersions

Clips == Uploads \cup Locals
ASSUME QualityAssumption == Quality \in [Clips \X Cuts -> {"ready", "review", "blocked"}]
ASSUME CutsAssumption == "whole" \in Cuts       \* a recording that is not trimmed
ASSUME VoiceBoundsAssumption == {MaxVoices, MaxCalls, MaxVersions} \subseteq Nat

VARIABLES
  library,  \* profiles in the order of their creation; a deleted one is Gone
  version,  \* what each clip holds now
  calls     \* requests and their answers on their way

storeVars == <<library, version, calls>>

VoiceIds == 1..MaxVoices
Gone == [audio |-> <<>>, here |-> FALSE, asReviewed |-> TRUE]
Here == {v \in 1..Len(library) : library[v].here}
WithAudio(a) == {v \in Here : library[v].audio = a}    \* find_by_audio_sha256()

NoReport == [version |-> 0, cut |-> CHOOSE c \in Cuts : TRUE, twin |-> 0]
Call(op, clip, cut) == [op |-> op, st |-> "sent", held |-> TRUE, latest |-> TRUE,
                        clip |-> clip, cut |-> cut, read |-> 0, report |-> NoReport,
                        ack |-> FALSE, voice |-> 0]
NoClip == "none"

Send(c) == /\ Cardinality(calls) < MaxCalls
           /\ calls' = {IF d.op = c.op THEN [d EXCEPT !.latest = FALSE] ELSE d : d \in calls}
                         \cup {c}
Reply(c, d) == calls' = (calls \ {c}) \cup {d}

-----------------------------------------------------------------------------
\* _analyze_voice_intake(): a duplicate blocks, and is named in the report.
Twin(a) == IF WithAudio(a) = {} THEN 0 ELSE CHOOSE v \in WithAudio(a) : TRUE
ServeAnalyze(c) ==
  /\ c.op = "analyze" /\ c.st = "sent"
  /\ LET v == version[c.clip]
     IN \/ Reply(c, [c EXCEPT !.st = "answered",
                              !.report = [version |-> v, cut |-> c.cut,
                                          twin |-> Twin(<<c.clip, v, c.cut>>)]])
        \/ Reply(c, [c EXCEPT !.st = "refused"])      \* unreadable audio, engine error
  /\ UNCHANGED <<library, version>>

\* _create_voice_from_audio() up to the store: the source must be the one that was reviewed,
\* and the recording is judged again.
Judged(clip, cut, ack) == /\ Quality[clip, cut] # "blocked"
                          /\ Quality[clip, cut] = "review" => ack
ServeCreate(c) ==
  /\ c.op = "create" /\ c.st = "sent"
  /\ LET v == version[c.clip]
     IN IF /\ v = c.report.version /\ WithAudio(<<c.clip, v, c.cut>>) = {}
           /\ Judged(c.clip, c.cut, c.ack)
        THEN Reply(c, [c EXCEPT !.st = "judged", !.read = v])
        ELSE Reply(c, [c EXCEPT !.st = "refused"])
  /\ UNCHANGED <<library, version>>

\* What the request asks for is what its user was told of: for the properties only.
AsReviewed(c) == /\ c.read = c.report.version /\ c.cut = c.report.cut
                 /\ Quality[c.clip, c.cut] = "review" => c.ack

\* VoiceStore.create() looks for a duplicate again, under the lock.
NotAgain(a) == TRUE
Unique(a) == WithAudio(a) = {}
ServeStore(c) ==
  /\ c.op = "create" /\ c.st = "judged" /\ Len(library) < MaxVoices
  /\ LET a == <<c.clip, c.read, c.cut>>
     IN IF Unique(a)
        THEN /\ library' = Append(library, [audio |-> a, here |-> TRUE, asReviewed |-> AsReviewed(c)])
             /\ Reply(c, [c EXCEPT !.st = "answered", !.voice = Len(library) + 1])
        ELSE UNCHANGED library /\ Reply(c, [c EXCEPT !.st = "refused"])
  /\ UNCHANGED version

\* delete() and update() of a profile that is there.
ServeDelete(c) ==
  /\ c.op = "delete" /\ c.st = "sent"
  /\ IF c.voice \in Here
     THEN /\ library' = [library EXCEPT ![c.voice] = Gone]
          /\ Reply(c, [c EXCEPT !.st = "answered"])
     ELSE UNCHANGED library /\ Reply(c, [c EXCEPT !.st = "refused"])
  /\ UNCHANGED version
ServeUpdate(c) ==
  /\ c.op = "update" /\ c.st = "sent"
  /\ \/ c.voice \in Here /\ Reply(c, [c EXCEPT !.st = "answered"])
     \/ Reply(c, [c EXCEPT !.st = "refused"])       \* gone, or text and language do not fit
  /\ UNCHANGED <<library, version>>

\* Somebody replaces a file in the folder; another tab saves what it has reviewed, at any
\* moment between two steps of a request of this one.
FileReplaced(clip) == /\ clip \in Locals /\ version[clip] < MaxVersions
                      /\ version' = [version EXCEPT ![clip] = @ + 1]
                      /\ UNCHANGED <<library, calls>>
OtherTabCreates(clip, cut) ==
  /\ Quality[clip, cut] # "blocked" /\ Len(library) < MaxVoices
  /\ LET a == <<clip, version[clip], cut>>
     IN /\ Unique(a)
        /\ library' = Append(library, [audio |-> a, here |-> TRUE, asReviewed |-> TRUE])
  /\ UNCHANGED <<version, calls>>

StoreSteps == \/ \E c \in calls : \/ ServeAnalyze(c) \/ ServeCreate(c) \/ ServeStore(c)
                                  \/ ServeDelete(c) \/ ServeUpdate(c)
              \/ \E clip \in Clips : \/ FileReplaced(clip)
                                     \/ \E cut \in Cuts : OtherTabCreates(clip, cut)

-----------------------------------------------------------------------------
\* One recording has one profile, however many tabs save it at once.
OneVoicePerRecording == \A v, w \in Here : library[v].audio = library[w].audio => v = w

\* A profile is made from what its user reviewed: the same source and the same cut, with its
\* warnings accepted.
CreatedAsReviewed == \A v \in Here : library[v].asReviewed
=============================================================================
