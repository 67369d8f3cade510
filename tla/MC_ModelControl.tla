--------------------------- MODULE MC_ModelControl ---------------------------
(* Small instances of ModelControl for TLC. *)
EXTENDS ModelControl, TLC

CONSTANTS m1, m2, d1, r1, r2, j1, j2

Names == d1 :> {m1}
\* One granted model and one that is not discovered yet.
Start == (m1 :> "on") @@ (m2 :> "absent")
ToolEdits ==
    {[kind |-> "toggle", model |-> m1, on |-> b] : b \in BOOLEAN} \cup
    {[kind |-> "discover", model |-> m2, on |-> FALSE],
     [kind |-> "route", doc |-> d1]}

RelaySymmetry == Permutations(Requests) \cup Permutations(Jobs)

=============================================================================
