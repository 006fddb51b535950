--------------------------- MODULE MCTurnDetection ---------------------------
(***************************************************************************)
(* The values of TurnDetection for TLC: the field of 13 elements, in which *)
(* 2 has order 12 and 5 is a root of -1; a frame of 12 samples, which is   *)
(* split twice and leaves an odd transform, as 400 is split four times.    *)
(***************************************************************************)
EXTENDS TurnDetection

(* A signal without a period, and a filter bank without zero rows. *)
MCWave    == [k \in 1..MaxHeard |-> (k * k * k + 5 * k * k + 3) % Modulus]
MCFilters == [j \in 0..(kNumMelBins - 1) |-> [k \in 0..(kFFTSize \div 2) |->
                (3 * j + k * k + 1) % Modulus]]
=============================================================================
