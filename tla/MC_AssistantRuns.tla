-------------------------- MODULE MC_AssistantRuns --------------------------
(* Small instances of AssistantRuns for TLC. *)
EXTENDS AssistantRuns, TLC

CONSTANTS u1, u2, q1, c1, c2, c3, p1, p2

OneUserOf == [q \in Requests |-> u1]
OneOwner == [c \in Convs |-> u1]
\* p1 continues conversation c1, p2 starts a new one.
Targets == [p \in Payloads |-> IF p = p1 THEN c1 ELSE None]

HandlerSymmetry == Permutations(Handlers)

=============================================================================
