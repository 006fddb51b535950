---------------------------- MODULE AudioPlayer ----------------------------
(***************************************************************************)
(* What the orchestrator expects of the playback of a session, with no     *)
(* queue, no ring, no locks and no threads: audio is played a frame at a   *)
(* time, the oldest first; late audio is skipped, the oldest first and     *)
(* never below the latency cap; only a flush or the end of the session     *)
(* discards any other, and a flush is over when at most its fade and one   *)
(* frame are left of what was there; the end of playback is announced when *)
(* somebody asked for it; and a session that is closed does nothing.       *)
(***************************************************************************)
EXTENDS Naturals, Sequences, FiniteSets, Functions

CONSTANTS FrameUnits, CapUnits, ChunkUnits, FadeUnits

VARIABLES accepted,         \* how many units were accepted; they are numbered from 1
          pending,          \* those that are still to be played
          played,           \* what was played, in order
          asked, announced, \* ends of speech, and events that answered one
          flushing, mark, keep,
          session           \* "open", "ending" or "closed"

vars == <<accepted, pending, played, asked, announced, flushing, mark, keep, session>>

Before(S, T) == \A x \in S, y \in T : x < y

Init ==
  /\ accepted = 0 /\ pending = {} /\ played = <<>>
  /\ asked = 0 /\ announced = 0
  /\ flushing = FALSE /\ mark = 0 /\ keep = 0
  /\ session = "open"

Accept ==
  /\ session # "closed"
  /\ \E n \in ChunkUnits :
        /\ accepted' = accepted + n
        /\ pending' = pending \cup (accepted + 1)..(accepted + n)
  /\ UNCHANGED <<played, asked, announced, flushing, mark, keep, session>>

(* A whole frame, of the oldest units. *)
Play ==
  /\ session # "closed"
  /\ \E frame \in [1..FrameUnits -> pending] :
        /\ \A i, j \in 1..FrameUnits : i < j => frame[i] < frame[j]
        /\ Before(Range(frame), pending \ Range(frame))
        /\ pending' = pending \ Range(frame)
        /\ played' = played \o frame
  /\ UNCHANGED <<accepted, asked, announced, flushing, mark, keep, session>>

Skip ==
  /\ session # "closed"
  /\ pending' \in SUBSET pending
  /\ Before(pending \ pending', pending')
  /\ Cardinality(pending') >= CapUnits
  /\ UNCHANGED <<accepted, played, asked, announced, flushing, mark, keep, session>>

BeginFlush ==
  /\ session = "open" /\ ~flushing
  /\ flushing' = TRUE
  /\ mark' = accepted
  /\ keep' \in FadeUnits
  /\ UNCHANGED <<accepted, pending, played, asked, announced, session>>

Discard ==
  /\ session = "ending" \/ (flushing /\ session # "closed")
  /\ pending' \in SUBSET pending
  /\ UNCHANGED <<accepted, played, asked, announced, flushing, mark, keep, session>>

EndFlush ==
  /\ flushing /\ session # "closed"
  /\ Cardinality({u \in pending : u <= mark}) <= keep + FrameUnits
  /\ flushing' = FALSE
  /\ UNCHANGED <<accepted, pending, played, asked, announced, mark, keep, session>>

Ask ==
  /\ session # "closed"
  /\ asked' = asked + 1
  /\ UNCHANGED <<accepted, pending, played, announced, flushing, mark, keep, session>>

Announce ==
  /\ session # "closed"
  /\ announced < asked
  /\ announced' = announced + 1
  /\ UNCHANGED <<accepted, pending, played, asked, flushing, mark, keep, session>>

End ==
  /\ session = "open" /\ session' = "ending"
  /\ UNCHANGED <<accepted, pending, played, asked, announced, flushing, mark, keep>>

Close ==
  /\ session = "ending" /\ session' = "closed"
  /\ pending' = {}
  /\ UNCHANGED <<accepted, played, asked, announced, flushing, mark, keep>>

Next == \/ Accept \/ Play \/ Skip \/ BeginFlush \/ Discard \/ EndFlush
        \/ Ask \/ Announce \/ End \/ Close

Spec == Init /\ [][Next]_vars
=============================================================================
