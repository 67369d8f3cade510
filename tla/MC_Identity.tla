---------------------------- MODULE MC_Identity -----------------------------
(* Instances of Identity for TLC. *)
EXTENDS Identity, TLC

\* Devices on the same platforms, logins, challenges and callers are
\* interchangeable.
AccountSymmetry ==
  Permutations(Devices) \cup Permutations(Logins) \cup Permutations(Challenges)
    \cup Permutations(Callers)
=============================================================================
