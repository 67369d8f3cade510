---------------------------- MODULE MC_CodingRuns ----------------------------
(* Instances of CodingRuns for TLC. *)
EXTENDS CodingRuns, TLC

\* Runs are interchangeable, and so are reservations.
RunSymmetry == Permutations(Runs) \cup Permutations(Reservations)
=============================================================================
