--------------------------- MODULE AudioTurnBuffer ---------------------------
(***************************************************************************)
(* The turn buffer of the listening engine: a vector that keeps the last   *)
(* kMaxSamples samples appended to it.  Sizes are size_t, so that a        *)
(* difference of sizes wraps.                                              *)
(***************************************************************************)
EXTENDS Integers, Sequences

CONSTANTS kMaxSamples,    \* the capacity
          SizeModulus     \* 2^64: one more than the largest size_t

ASSUME AudioTurnBufferAssumption ==
  /\ kMaxSamples \in Nat \ {0}
  /\ SizeModulus \in Nat
  /\ 2 * kMaxSamples <= SizeModulus

(* The last n elements of s, all of them when there are no more. *)
LastOf(s, n) == IF Len(s) <= n THEN s ELSE SubSeq(s, Len(s) - n + 1, Len(s))

Exceeds(buffer, samples) == Len(buffer) + Len(samples) > kMaxSamples
SamplesToKeep(samples)   == (kMaxSamples - Len(samples)) % SizeModulus

(* Bug: what does not fit beside the new samples is dropped with the rest. *)
AppendDropping(buffer, samples) ==
  IF Exceeds(buffer, samples) THEN LastOf(samples, kMaxSamples) ELSE buffer \o samples

(* AudioTurnBuffer::Append.  The second branch keeps the newest of the old
   samples; when the new ones alone are more than fit, samples_to_keep has
   wrapped, and is larger than the buffer. *)
AppendSamples(buffer, samples) ==
  CASE ~Exceeds(buffer, samples) -> buffer \o samples
    [] /\ Exceeds(buffer, samples)
       /\ SamplesToKeep(samples) > 0
       /\ SamplesToKeep(samples) < Len(buffer) ->
         LastOf(buffer, SamplesToKeep(samples)) \o samples
    [] OTHER -> LastOf(samples, kMaxSamples)
=============================================================================
