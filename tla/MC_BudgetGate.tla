--------------------------- MODULE MC_BudgetGate ---------------------------
(* Small instances of BudgetGate for TLC. *)
EXTENDS BudgetGate, TLC

CONSTANTS a, b, c3, k

TwoCalls == {a, b}
ThreeCalls == {a, b, c3}
OneChat == {k}

\* Two different projections, so that "the larger amount" is visible.
Uneven == (a :> 1) @@ (b :> 2)
Unit == [c \in Calls |-> 1]

\* Either both calls, or one call beside the chat.
InScope == pc[b] = "idle" \/ pc[k] = "idle"
ScopedSpec == Init /\ [][Next /\ InScope']_vars /\ Fairness

=============================================================================
