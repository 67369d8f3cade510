----------------------------- MODULE MC_Brokers -----------------------------
(***************************************************************************)
(* Small instances, side by side, of the two brokers that serve the Core   *)
(* over a socket: the coding broker and the IBKR broker.  A behaviour is a *)
(* behaviour of one of them, `part`.                                       *)
(***************************************************************************)
EXTENDS MC_CodingRuns, IbkrBroker

VARIABLE part

\* Reads are interchangeable, beside the runs and reservations.
BrokerSymmetry == RunSymmetry \cup Permutations(Reads)

BrokersInit == part \in {"coding", "ibkr"} /\ CodingInit /\ IbkrInit

\* Two runs that fail rather than time out, in a session that is cancelled rather than
\* archived: the faults of one run are explored with all of these.
PairScope ==
    /\ \A s \in Sessions : session[s] # "archived"
    /\ \A r \in Runs : worker[r].result # "timed_out"

BrokersNext ==
    \/ part = "coding" /\ CodingNext /\ PairScope' /\ UNCHANGED <<part, ibkrVars>>
    \/ part = "ibkr" /\ IbkrNext /\ UNCHANGED <<part, vars>>

BrokersSpec == BrokersInit /\ [][BrokersNext]_<<part, vars, ibkrVars>>
=============================================================================
