---------------------------- MODULE CodingLedger ----------------------------
(***************************************************************************)
(* What the coding subsystem promises about a subscription reservation,    *)
(* whatever the broker, its workers and its recovery do: a reservation is  *)
(* issued once, leased by at most one run, and finished once; a workload   *)
(* lives only under a lease; and a lease is finished only when the         *)
(* workload it paid for is gone.  CodingRuns implements this module.       *)
(***************************************************************************)
CONSTANTS Reservations, Runs, NoRun

VARIABLES status, holder, live

vars == <<status, holder, live>>

Init ==
  /\ status = [r \in Reservations |-> "none"]
  /\ holder = [r \in Reservations |-> NoRun]
  /\ live = {}

\* The API issues a reservation (coding_reservations::reserve).
Issue(r) ==
  /\ status[r] = "none"
  /\ status' = [status EXCEPT ![r] = "reserved"]
  /\ UNCHANGED <<holder, live>>

\* The single-use point: the reservation binds to one run, which holds no
\* other (coding_reservations::lease).
Lease(r, run) ==
  /\ status[r] = "reserved"
  /\ \A s \in Reservations : holder[s] # run
  /\ status' = [status EXCEPT ![r] = "leased"]
  /\ holder' = [holder EXCEPT ![r] = run]
  /\ UNCHANGED live

\* A workload appears only for a run that holds a lease.
Launch(run) ==
  /\ \E r \in Reservations : status[r] = "leased" /\ holder[r] = run
  /\ live' = live \cup {run}
  /\ UNCHANGED <<status, holder>>

Destroy(run) ==
  /\ live' = live \ {run}
  /\ UNCHANGED <<status, holder>>

\* A lease ends for good, and only once its workload is gone
\* (coding_reservations::finish).
Finish(r) ==
  /\ status[r] = "leased"
  /\ holder[r] \notin live
  /\ \E s \in {"settled", "released"} : status' = [status EXCEPT ![r] = s]
  /\ UNCHANGED <<holder, live>>

Next ==
  \/ \E r \in Reservations : Issue(r) \/ Finish(r)
  \/ \E r \in Reservations, run \in Runs : Lease(r, run)
  \/ \E run \in Runs : Launch(run) \/ Destroy(run)

Spec == Init /\ [][Next]_vars
=============================================================================
