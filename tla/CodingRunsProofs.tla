-------------------------- MODULE CodingRunsProofs --------------------------
(***************************************************************************)
(* Proofs about CodingRuns, for any sessions, reservations, runs and number *)
(* of faults: its types, that every live workload can be recovered, that    *)
(* what a run came to is stored and stays so, and that the subsystem        *)
(* implements CodingLedger.  Then about the other broker, IbkrBroker, for   *)
(* any number of reads and any gaps and cooldowns: its one session is       *)
(* shared by all.                                                           *)
(***************************************************************************)
EXTENDS CodingRuns, IbkrBroker, TLAPS

-----------------------------------------------------------------------------
\* The types of the request being admitted and of the reconciliation under way.
Request == [run : Runs, session : Sessions, res : Reservations, resume : BOOLEAN,
            seen : Runs \cup {NoRun}]
Locked == {"snapshot", "terminate", "rows", "mark", "leases"}
Admission == [at : {"lease", "row", "register", "release"}, req : Request]
Reconciliation ==
  [at : {"idle", "lock", "publish"} \cup Locked, boot : BOOLEAN, epoch : Nat,
   owned : SUBSET Runs, active : SUBSET Runs, rows : SUBSET Runs,
   leases : SUBSET Reservations, cur : Runs \cup {NoRun}]
Shapes ==
  /\ CodingTypeOK
  /\ adm = NoAdm \/ adm \in Admission
  /\ rec \in Reconciliation
  /\ rec.at = "mark" => rec.cur \in Runs

\* Where a worker is: it exists, it has not yet marked its run, it may have a workload.
Working(run) == worker[run].at \notin {"none", "done"}
Marking == {"sweep", "finish", "leave"}
Holding == {"own", "exec", "teardown", "disown", "record_failed", "cleanup", "leave", "done"}
LeasedBy(run) == reservation[row[run].res].status = "leased"

\* A request that is not admitted yet has left no trace but its marker.
Untouched(run) ==
  /\ worker[run].at = "none" /\ row[run] = NoRow
  /\ \A v \in Reservations : reservation[v].run # run

\* A reservation is bound to one run, and a run to one reservation.
BindingInv ==
  /\ \A v \in Reservations :
       reservation[v].run = NoRun <=> reservation[v].status \in {"none", "reserved"}
  /\ \A v, w \in Reservations :
       reservation[v].run = reservation[w].run /\ reservation[v].run # NoRun => v = w
  /\ \A run \in Runs : row[run].status = "none" => row[run] = NoRow
  /\ \A run \in Runs : row[run].status # "none" =>
       /\ row[run].res \in Reservations /\ row[run].session \in Sessions
       /\ reservation[row[run].res].run = run

\* A request is admitted once, under the reconcile lock, and its lease is its own
\* until its worker exists or the lease is given back.
AdmissionInv ==
  /\ \A p \in pending : p.run \in consumed
  /\ \A p, q \in pending : p.run = q.run => p = q
  /\ \A run \in Runs \ consumed : Untouched(run)
  /\ \A p \in pending : Untouched(p.run)
  /\ adm.at # "idle" =>
       /\ rec.at \notin Locked
       /\ adm.req.run \in consumed /\ worker[adm.req.run].at = "none"
       /\ \A p \in pending : p.run # adm.req.run
  /\ adm.at = "lease" => Untouched(adm.req.run)
  /\ adm.at \in {"row", "register", "release"} =>
       /\ reservation[adm.req.res].run = adm.req.run
       /\ reservation[adm.req.res].status = "leased"
  /\ adm.at = "row" => row[adm.req.run] = NoRow
  /\ adm.at = "register" => row[adm.req.run].status = "queued" /\ row[adm.req.run].res = adm.req.res

\* The registry is the set of existing workers; a worker has its row and, until it
\* finishes the reservation, its lease; a run without one was never seen.
WorkerInv ==
  /\ active = {run \in Runs : Working(run)}
  /\ \A run \in Runs : Working(run) => row[run].status # "none"
  /\ \A run \in Runs : Working(run) /\ worker[run].at \notin Marking =>
       row[run].status \in ActiveStatus
  /\ \A run \in Runs : Working(run) /\ worker[run].at # "leave" => LeasedBy(run)
  /\ \A run \in Runs : worker[run].at = "none" =>
       run \notin cancelled \cup stopping /\ turns[run] = 0

\* A workload has a lease and a row recovery will visit, and no worker that gave up
\* looking for it.
BoxInv ==
  \A run \in sandboxes :
    /\ worker[run].at \in Holding
    /\ row[run].status \in ActiveStatus
    /\ LeasedBy(run)

\* What the reconciliation read is still true of the runs it will touch: they have no
\* worker, and once the second listing was clean, no workload.
RecoveryInv ==
  /\ rec.at \in {"terminate", "rows", "mark", "leases"} => active \subseteq rec.active
  /\ rec.at = "terminate" => rec.owned \cap rec.active = {}
  /\ rec.at \in {"rows", "mark", "leases"} => sandboxes \subseteq rec.active
  /\ rec.at \in {"rows", "mark"} => rec.rows \cap rec.active = {}
  /\ rec.at \in {"rows", "mark"} => \A run \in rec.rows : row[run].status # "none"
  /\ rec.at = "mark" => rec.cur \in rec.rows
  /\ rec.at = "leases" => \A v \in rec.leases : reservation[v].run \in Runs \ rec.active

\* What a completion rests on, and what a capability still allows.
OutcomeInv ==
  /\ \A run \in Runs : worker[run].at \in {"checkpoint", "complete"} => run \in artifacts
  /\ \A run \in Runs : worker[run].at = "complete" => checkpoint[row[run].session] # NoRun
  /\ \A run \in Runs : capability[run] = "active" => turns[run] = 0 /\ run \notin cancelled
  /\ CompletedIsBacked

CodingInv ==
  Shapes /\ BindingInv /\ AdmissionInv /\ WorkerInv /\ BoxInv /\ RecoveryInv /\ OutcomeInv

-----------------------------------------------------------------------------
\* What the updates of the run rows and of the reservations return.
Rows == [Runs -> [status : ActiveStatus \cup TerminalStatus \cup {"none"},
                  box : Uncleaned \cup Cleaned, named : BOOLEAN,
                  res : Reservations \cup {NoRun}, session : Sessions \cup {NoRun}]]
Book == [Reservations -> [status : {"none", "reserved", "leased", "settled", "released"},
                          run : Runs \cup {NoRun}, session : Sessions \cup {NoRun}]]

\* A row that moves, and what stays of it.
SameRun(a, b) == a.res = b.res /\ a.session = b.session

LEMMA MarkEffect ==
  ASSUME row \in Rows, NEW run \in Runs, NEW t \in TerminalStatus
  PROVE  /\ MarkRunFinished(run, t) \in Rows
         /\ \A k \in Runs : k # run => MarkRunFinished(run, t)[k] = row[k]
         /\ SameRun(MarkRunFinished(run, t)[run], row[run])
         /\ MarkRunFinished(run, t)[run].box = row[run].box
         /\ \/ MarkRunFinished(run, t) = row
            \/ /\ row[run].status \in ActiveStatus /\ MarkRunFinished(run, t)[run].status = t
               /\ t = "completed" => row[run].status = "running"
               /\ row[run].status = "cancelling" => t = "cancelled"
BY DEF MarkRunFinished, Rows, SameRun, ActiveStatus, TerminalStatus

LEMMA FinishEffect ==
  ASSUME reservation \in Book, NEW v \in Reservations, NEW run, NEW b \in BOOLEAN
  PROVE  /\ FinishReservation(v, run, b) \in Book
         /\ \A w \in Reservations :
              /\ FinishReservation(v, run, b)[w].run = reservation[w].run
              /\ w # v => FinishReservation(v, run, b)[w] = reservation[w]
              /\ FinishReservation(v, run, b)[w] = reservation[w]
                   \/ /\ reservation[w].status = "leased" /\ reservation[w].run = run
                      /\ FinishReservation(v, run, b)[w].status \in {"settled", "released"}
BY DEF FinishReservation, Book

-----------------------------------------------------------------------------
\* One step of a worker: where it goes, and what it leaves alone.
Workers == [Runs -> [at : WorkerPoints, result : Results \cup {"none", "disowned"}]]

LEMMA GotoEffect ==
  ASSUME worker \in Workers, NEW run \in Runs, NEW at \in WorkerPoints, Goto(run, at)
  PROVE  /\ worker' \in Workers /\ worker'[run].at = at /\ worker'[run].result = worker[run].result
         /\ \A k \in Runs : k # run => worker'[k] = worker[k]
BY DEF Goto, Workers

LEMMA ReturnEffect ==
  ASSUME worker \in Workers, NEW run \in Runs, NEW at \in WorkerPoints,
         NEW result \in Results \cup {"none", "disowned"}, Return(run, at, result)
  PROVE  /\ worker' \in Workers /\ worker'[run].at = at /\ worker'[run].result = result
         /\ \A k \in Runs : k # run => worker'[k] = worker[k]
BY DEF Return, Workers

\* The edges of run_worker and execute_in_sandbox_tracked.
Edges ==
  {<<"begin", "create">>, <<"begin", "unstarted">>, <<"unstarted", "finish">>,
   <<"unsaved", "finish">>, <<"create", "settle">>, <<"create", "cleanup">>,
   <<"create", "own">>, <<"own", "exec">>, <<"own", "disown">>, <<"exec", "exec">>,
   <<"exec", "teardown">>, <<"teardown", "record">>, <<"teardown", "record_failed">>,
   <<"disown", "record">>, <<"disown", "record_failed">>, <<"record", "settle">>,
   <<"record", "cleanup">>, <<"record_failed", "cleanup">>, <<"cleanup", "leave">>,
   <<"settle", "save">>, <<"settle", "sweep">>, <<"save", "checkpoint">>,
   <<"save", "unsaved">>, <<"checkpoint", "complete">>, <<"checkpoint", "uncheckpointed">>,
   <<"complete", "sweep">>, <<"uncheckpointed", "sweep">>, <<"sweep", "finish">>,
   <<"finish", "leave">>}

LEMMA WorkerEdges ==
  ASSUME worker \in Workers, NEW run \in Runs, WorkerStep(run) \/ RelayTurn(run) \/ WorkerDies(run)
  PROVE  /\ worker' \in Workers /\ Working(run)
         /\ <<worker[run].at, worker'[run].at>> \in Edges \/ worker'[run].at = "done"
         /\ \A k \in Runs : k # run => worker'[k] = worker[k]
<1>. DEFINE Goal == /\ worker' \in Workers /\ Working(run)
                    /\ <<worker[run].at, worker'[run].at>> \in Edges \/ worker'[run].at = "done"
                    /\ \A k \in Runs : k # run => worker'[k] = worker[k]
<1>0. worker[run].result \in Results \cup {"none", "disowned"} BY DEF Workers
<1>. USE DEF Edges, Working, WorkerPoints, Results
<1>1. ASSUME NEW ok \in BOOLEAN, BeginRun(run, ok) PROVE Goal
  BY <1>0, <1>1, GotoEffect, ReturnEffect DEF BeginRun
<1>2. ASSUME NEW ok \in BOOLEAN, MarkAborted(run, ok) PROVE Goal
  BY <1>0, <1>2, GotoEffect, ReturnEffect DEF MarkAborted
<1>3. ASSUME NEW ok \in BOOLEAN, CreateSandbox(run, ok) PROVE Goal
  BY <1>0, <1>3, GotoEffect, ReturnEffect DEF CreateSandbox
<1>4. ASSUME NEW ok \in BOOLEAN, RecordOwnership(run, ok) PROVE Goal
  BY <1>0, <1>4, GotoEffect, ReturnEffect DEF RecordOwnership
<1>5. ASSUME NEW ok \in BOOLEAN, TearDown(run, ok) PROVE Goal
  BY <1>0, <1>5, GotoEffect, ReturnEffect DEF TearDown, Workers
<1>6. ASSUME NEW ok \in BOOLEAN, RecordCleanup(run, ok) PROVE Goal
  BY <1>0, <1>6, GotoEffect, ReturnEffect DEF RecordCleanup
<1>7. ASSUME NEW ok \in BOOLEAN, Settle(run, ok) PROVE Goal
  BY <1>0, <1>7, GotoEffect, ReturnEffect DEF Settle
<1>8. ASSUME NEW ok \in BOOLEAN, SaveArtifacts(run, ok) PROVE Goal
  BY <1>0, <1>8, GotoEffect, ReturnEffect DEF SaveArtifacts
<1>9. ASSUME NEW ok \in BOOLEAN, SaveCheckpoint(run, ok) PROVE Goal
  BY <1>0, <1>9, GotoEffect, ReturnEffect DEF SaveCheckpoint
<1>10. ASSUME NEW ok \in BOOLEAN, CompleteRun(run, ok) PROVE Goal
  BY <1>0, <1>10, GotoEffect, ReturnEffect DEF CompleteRun
<1>11. ASSUME NEW ok \in BOOLEAN, SweepCancelling(run, ok) PROVE Goal
  BY <1>0, <1>11, GotoEffect, ReturnEffect DEF SweepCancelling
<1>12. ASSUME NEW ok \in BOOLEAN, FinishRun(run, ok) PROVE Goal
  BY <1>0, <1>12, GotoEffect, ReturnEffect DEF FinishRun
<1>13. CASE RequireCleanup(run)
  BY <1>13, GotoEffect, ReturnEffect DEF RequireCleanup
<1>14. CASE LeaveRegistry(run)
  BY <1>14, GotoEffect, ReturnEffect DEF LeaveRegistry
<1>15. CASE RelayTurn(run)
  BY <1>15, GotoEffect, ReturnEffect DEF RelayTurn
<1>16. CASE WorkerDies(run)
  BY <1>16, GotoEffect, ReturnEffect DEF WorkerDies
<1>17. ASSUME NEW result \in Results, ExecutionEnds(run, result) PROVE Goal
  BY <1>17, ReturnEffect DEF ExecutionEnds
<1>. QED BY <1>1, <1>2, <1>3, <1>4, <1>5, <1>6, <1>7, <1>8, <1>9, <1>10, <1>11, <1>12, <1>13, <1>14, <1>15, <1>16, <1>17 DEF WorkerStep

\* What a worker does to its row: it starts it, or ends it on its way out.
RowMoves(run) ==
  \/ row'[run].status = row[run].status
  \/ row[run].status \in {"queued", "preparing"} /\ row'[run].status \in {"preparing", "running"}
  \/ /\ row[run].status \in ActiveStatus /\ row'[run].status \in TerminalStatus
     /\ worker'[run].at \in Marking /\ worker[run].at \notin Holding
     /\ row'[run].status = "completed" =>
          /\ worker[run].at = "complete" /\ row[run].status = "running"
          /\ artifacts' = artifacts \/ faults' = faults + 1
     /\ row[run].status = "cancelling" => row'[run].status = "cancelled"

LEMMA WorkerRows ==
  ASSUME row \in Rows, worker \in Workers, NEW run \in Runs,
         WorkerStep(run) \/ RelayTurn(run) \/ WorkerDies(run)
  PROVE  /\ row' \in Rows /\ SameRun(row'[run], row[run]) /\ RowMoves(run)
         /\ \A k \in Runs : k # run => row'[k] = row[k]
<1>. DEFINE Goal == /\ row' \in Rows /\ SameRun(row'[run], row[run]) /\ RowMoves(run)
                    /\ \A k \in Runs : k # run => row'[k] = row[k]
<1>0. CASE UNCHANGED row BY <1>0 DEF RowMoves, SameRun
<1>1. ASSUME NEW ok \in BOOLEAN, BeginRun(run, ok) PROVE Goal
  BY <1>1 DEF BeginRun, Applied, RowMoves, SameRun, Rows, ActiveStatus
<1>2. ASSUME NEW ok \in BOOLEAN, RecordOwnership(run, ok) PROVE Goal
  BY <1>2 DEF RecordOwnership, Applied, RowMoves, SameRun, Rows, ActiveStatus, Uncleaned
<1>3. ASSUME NEW ok \in BOOLEAN, RecordCleanup(run, ok) PROVE Goal
  BY <1>3 DEF RecordCleanup, Applied, RowMoves, SameRun, Rows, Uncleaned, Cleaned
<1>4. ASSUME NEW ok \in BOOLEAN, SweepCancelling(run, ok) PROVE Goal
  <2>1. worker'[run].at \in Marking /\ worker[run].at \notin Holding
    BY <1>4, GotoEffect DEF SweepCancelling, Marking, Holding, WorkerPoints
  <2>. QED BY <1>4, <2>1 DEF SweepCancelling, Applied, RowMoves, SameRun, Rows, ActiveStatus, TerminalStatus
<1>5. ASSUME NEW ok \in BOOLEAN, MarkAborted(run, ok) PROVE Goal
  <2>1. worker'[run].at \in Marking /\ worker[run].at \notin Holding
    BY <1>5, GotoEffect DEF MarkAborted, Marking, Holding, WorkerPoints
  <2>2. \E t \in {"cancelled", "failed"} : row' = MarkRunFinished(run, t) \/ row' = row
    BY <1>5 DEF MarkAborted, Applied
  <2>. QED BY <1>0, <2>1, <2>2, MarkEffect DEF RowMoves, TerminalStatus
<1>6. ASSUME NEW ok \in BOOLEAN, Settle(run, ok) PROVE Goal
  <2>1. worker[run].at \notin Holding /\ (worker'[run].at \in Marking \/ row' = row)
    BY <1>6, GotoEffect DEF Settle, Marking, Holding, WorkerPoints
  <2>2. \E t \in {"cancelled", "timed_out", "failed"} : row' = MarkRunFinished(run, t) \/ row' = row
    BY <1>6 DEF Settle, Applied
  <2>. QED BY <1>0, <2>1, <2>2, MarkEffect DEF RowMoves, TerminalStatus
<1>7. ASSUME NEW ok \in BOOLEAN, CompleteRun(run, ok) PROVE Goal
  <2>1. worker'[run].at \in Marking /\ worker[run].at \notin Holding
    BY <1>7, GotoEffect DEF CompleteRun, Marking, Holding, WorkerPoints
  <2>2. \/ row' = row
        \/ /\ worker[run].at = "complete" /\ row' = MarkRunFinished(run, "completed")
           /\ artifacts' = artifacts \/ faults' = faults + 1
        \/ row' = MarkRunFinished(run, "failed")
    BY <1>7 DEF CompleteRun, Applied, Call
  <2>. QED BY <1>0, <2>1, <2>2, MarkEffect DEF RowMoves, TerminalStatus
<1>. QED BY <1>0, <1>1, <1>2, <1>3, <1>4, <1>5, <1>6, <1>7
         DEF WorkerStep, CreateSandbox, TearDown, SaveArtifacts, SaveCheckpoint, FinishRun,
             RequireCleanup, LeaveRegistry, ExecutionEnds, RelayTurn, WorkerDies

\* What it does to the reservation and to its workload.
BookMoves(run) ==
  \/ reservation' = reservation
  \/ /\ worker[run].at = "finish" /\ worker'[run].at = "leave"
     /\ \E b \in BOOLEAN : reservation' = FinishReservation(row[run].res, run, b)
     /\ sandboxes' = sandboxes
BoxMoves(run) ==
  \/ sandboxes' = sandboxes /\ worker'[run].at # "record"
  \/ sandboxes' = sandboxes \cup {run} /\ worker[run].at = "create" /\ worker'[run].at \in {"own", "cleanup"}
  \/ sandboxes' = sandboxes \ {run}
  \/ sandboxes' = sandboxes /\ worker'[run].at = "record" /\ run \notin sandboxes

LEMMA WorkerBooks ==
  ASSUME worker \in Workers, NEW run \in Runs, WorkerStep(run) \/ RelayTurn(run) \/ WorkerDies(run)
  PROVE  BookMoves(run) /\ BoxMoves(run)
<1>1. ASSUME NEW ok \in BOOLEAN, FinishRun(run, ok) PROVE BookMoves(run) /\ BoxMoves(run)
  <2>1. worker[run].at = "finish" /\ worker'[run].at = "leave" /\ sandboxes' = sandboxes
    BY <1>1, GotoEffect DEF FinishRun, WorkerPoints
  <2>2. \/ reservation' = reservation
        \/ reservation' = FinishReservation(row[run].res, run, row[run].status = "completed")
    BY <1>1 DEF FinishRun, Applied
  <2>3. (row[run].status = "completed") \in BOOLEAN OBVIOUS
  <2>. QED BY <2>1, <2>2, <2>3 DEF BookMoves, BoxMoves
<1>2. ASSUME NEW ok \in BOOLEAN, CreateSandbox(run, ok) PROVE BookMoves(run) /\ BoxMoves(run)
  BY <1>2, GotoEffect, ReturnEffect DEF CreateSandbox, MayExist, BookMoves, BoxMoves, WorkerPoints, Results
<1>3. ASSUME NEW ok \in BOOLEAN, TearDown(run, ok) PROVE BookMoves(run) /\ BoxMoves(run)
  BY <1>3 DEF TearDown, Terminate, BookMoves, BoxMoves, Workers
<1>4. UNCHANGED <<reservation, sandboxes>> /\ worker'[run].at # "record" => BookMoves(run) /\ BoxMoves(run)
  BY DEF BookMoves, BoxMoves
<1>5. CASE \E ok \in BOOLEAN : \/ BeginRun(run, ok) \/ MarkAborted(run, ok) \/ RecordOwnership(run, ok)
                               \/ RecordCleanup(run, ok) \/ Settle(run, ok) \/ SaveArtifacts(run, ok)
                               \/ SaveCheckpoint(run, ok) \/ CompleteRun(run, ok) \/ SweepCancelling(run, ok)
  <2>1. UNCHANGED <<reservation, sandboxes>>
    BY <1>5 DEF BeginRun, MarkAborted, RecordOwnership, RecordCleanup, Settle, SaveArtifacts, SaveCheckpoint,
                CompleteRun, SweepCancelling
  <2>2. worker[run].at \notin {"teardown", "disown"}
    BY <1>5 DEF BeginRun, MarkAborted, RecordOwnership, RecordCleanup, Settle, SaveArtifacts, SaveCheckpoint,
                CompleteRun, SweepCancelling
  <2>. QED BY <1>4, <2>1, <2>2, WorkerEdges DEF Edges
<1>6. CASE RequireCleanup(run) \/ LeaveRegistry(run) \/ RelayTurn(run) \/ WorkerDies(run)
             \/ \E result \in Results : ExecutionEnds(run, result)
  <2>1. UNCHANGED <<reservation, sandboxes>>
    BY <1>6 DEF RequireCleanup, LeaveRegistry, RelayTurn, WorkerDies, ExecutionEnds
  <2>2. worker[run].at \notin {"teardown", "disown"} \/ worker'[run].at = "done"
    BY <1>6, ReturnEffect DEF RequireCleanup, LeaveRegistry, RelayTurn, WorkerDies, ExecutionEnds, WorkerPoints
  <2>. QED BY <1>4, <2>1, <2>2, WorkerEdges DEF Edges
<1>. QED BY <1>1, <1>2, <1>3, <1>5, <1>6 DEF WorkerStep

\* What it does to the broker's memory, the session and the artifacts.
MemoryMoves(run) ==
  /\ UNCHANGED <<broker, pending, adm, cancelled, stopping, rec, consumed>>
  /\ active' = IF worker'[run].at = "done" THEN active \ {run} ELSE active
  /\ \A k \in Runs : k # run => capability'[k] = capability[k] /\ turns'[k] = turns[k]
  /\ \/ capability'[run] # "active" /\ turns'[run] = turns[run]
     \/ capability'[run] = capability[run] /\ turns'[run] = turns[run]
     \/ capability[run] = "active" /\ capability'[run] = "used" /\ turns'[run] = turns[run] + 1
  /\ \A k \in Runs : k # run => (k \in artifacts' <=> k \in artifacts)
  /\ worker'[run].at = "checkpoint" => run \in artifacts'
  /\ run \in artifacts => run \in artifacts' \/ worker[run].at \in {"complete", "uncheckpointed"}
  /\ \A s \in Sessions : checkpoint[s] # NoRun => checkpoint'[s] # NoRun
  /\ worker'[run].at = "complete" /\ row[run].session \in Sessions => checkpoint'[row[run].session] # NoRun
Memories ==
  /\ worker \in Workers
  /\ capability \in [Runs -> {"none", "active", "used", "revoked"}]
  /\ turns \in [Runs -> Nat]
  /\ checkpoint \in [Sessions -> Runs \cup {NoRun}]
  /\ session \in [Sessions -> {"none", "active", "suspended", "cancelled", "archived"}]
  /\ artifacts \subseteq Runs /\ active \subseteq Runs
  /\ healthy \in BOOLEAN /\ epoch \in Nat /\ faults \in 0 .. MaxFaults

LEMMA WorkerMemory ==
  ASSUME Memories, NEW run \in Runs, WorkerStep(run) \/ RelayTurn(run) \/ WorkerDies(run)
  PROVE  Memories' /\ MemoryMoves(run)
<1>. DEFINE Goal == Memories' /\ MemoryMoves(run)
<1>. USE CodingAssumption DEF Memories, MemoryMoves, WorkerFrame, RevokeRun, Call
<1>0. worker' \in Workers BY WorkerEdges
<1>1. ASSUME NEW ok \in BOOLEAN, BeginRun(run, ok) PROVE Goal
  BY <1>0, <1>1, WorkerEdges, GotoEffect DEF BeginRun, Edges, WorkerPoints
<1>2. ASSUME NEW ok \in BOOLEAN, MarkAborted(run, ok) PROVE Goal
  BY <1>0, <1>2, WorkerEdges, GotoEffect DEF MarkAborted, Edges, WorkerPoints
<1>3. ASSUME NEW ok \in BOOLEAN, CreateSandbox(run, ok) PROVE Goal
  <2>1. worker'[run].at \notin {"done", "checkpoint", "complete"}
    BY <1>3, GotoEffect, ReturnEffect DEF CreateSandbox, WorkerPoints, Results
  <2>2. /\ UNCHANGED <<active, capability, healthy, epoch, session, checkpoint, artifacts, turns>>
        /\ faults' \in 0 .. MaxFaults /\ WorkerFrame
    BY <1>3 DEF CreateSandbox
  <2>. QED BY <1>0, <2>1, <2>2
<1>4. ASSUME NEW ok \in BOOLEAN, RecordOwnership(run, ok) PROVE Goal
  BY <1>0, <1>4, WorkerEdges, GotoEffect DEF RecordOwnership, Edges, WorkerPoints
<1>5. ASSUME NEW ok \in BOOLEAN, TearDown(run, ok) PROVE Goal
  BY <1>0, <1>5, WorkerEdges, GotoEffect DEF TearDown, Edges, WorkerPoints
<1>6. ASSUME NEW ok \in BOOLEAN, RecordCleanup(run, ok) PROVE Goal
  <2>1. worker'[run].at \notin {"done", "checkpoint", "complete"}
    <3>1. worker[run].result \in Results \cup {"none", "disowned"} BY DEF Workers
    <3>. QED BY <1>6, <3>1, GotoEffect, ReturnEffect DEF RecordCleanup, WorkerPoints, Results
  <2>2. /\ UNCHANGED <<active, capability, healthy, epoch, session, checkpoint, artifacts, turns>>
        /\ faults' \in 0 .. MaxFaults /\ WorkerFrame
    BY <1>6 DEF RecordCleanup
  <2>. QED BY <1>0, <2>1, <2>2
<1>7. ASSUME NEW ok \in BOOLEAN, Settle(run, ok) PROVE Goal
  BY <1>0, <1>7, WorkerEdges, GotoEffect DEF Settle, Edges, WorkerPoints
<1>8. ASSUME NEW ok \in BOOLEAN, SaveArtifacts(run, ok) PROVE Goal
  BY <1>0, <1>8, WorkerEdges, GotoEffect DEF SaveArtifacts, Edges, WorkerPoints
<1>9. ASSUME NEW ok \in BOOLEAN, SaveCheckpoint(run, ok) PROVE Goal
  BY <1>0, <1>9, WorkerEdges, GotoEffect DEF SaveCheckpoint, Edges, WorkerPoints
<1>10. ASSUME NEW ok \in BOOLEAN, CompleteRun(run, ok) PROVE Goal
  BY <1>0, <1>10, WorkerEdges, GotoEffect DEF CompleteRun, Edges, WorkerPoints
<1>11. ASSUME NEW ok \in BOOLEAN, SweepCancelling(run, ok) PROVE Goal
  BY <1>0, <1>11, WorkerEdges, GotoEffect DEF SweepCancelling, Edges, WorkerPoints
<1>12. ASSUME NEW ok \in BOOLEAN, FinishRun(run, ok) PROVE Goal
  BY <1>0, <1>12, WorkerEdges, GotoEffect DEF FinishRun, Edges, WorkerPoints
<1>13. CASE RequireCleanup(run)
  <2>1. worker'[run].at = "leave" /\ epoch' \in Nat /\ healthy' \in BOOLEAN
    <3>1. worker'[run].at = "leave" BY <1>13, GotoEffect DEF RequireCleanup, WorkerPoints
    <3>2. epoch' = epoch + 1 /\ healthy' = FALSE BY <1>13 DEF RequireCleanup
    <3>3. healthy' \in BOOLEAN BY <3>2, Zenon
    <3>. QED BY <3>1, <3>2, <3>3
  <2>. QED BY <1>0, <1>13, <2>1 DEF RequireCleanup
<1>14. CASE LeaveRegistry(run)
  BY <1>0, <1>14, GotoEffect, ReturnEffect DEF LeaveRegistry, WorkerPoints
<1>15. CASE RelayTurn(run)
  BY <1>0, <1>15, GotoEffect, ReturnEffect DEF RelayTurn, WorkerPoints
<1>16. CASE WorkerDies(run)
  <2>1. worker'[run].at = "done" /\ epoch' \in Nat /\ healthy' \in BOOLEAN
    <3>1. worker'[run].at = "done" BY <1>16, ReturnEffect DEF WorkerDies, WorkerPoints
    <3>2. epoch' = epoch + 1 /\ healthy' = FALSE BY <1>16 DEF WorkerDies
    <3>3. healthy' \in BOOLEAN BY <3>2, Zenon
    <3>. QED BY <3>1, <3>2, <3>3
  <2>2. faults' \in 0 .. MaxFaults BY <1>16 DEF WorkerDies
  <2>. QED BY <1>0, <1>16, <2>1, <2>2 DEF WorkerDies
<1>17. ASSUME NEW result \in Results, ExecutionEnds(run, result) PROVE Goal
  <2>1. worker'[run].at = "teardown"
    BY <1>17, ReturnEffect DEF ExecutionEnds, WorkerPoints, Results
  <2>. QED BY <1>0, <1>17, <2>1 DEF ExecutionEnds
<1>. QED BY <1>1, <1>2, <1>3, <1>4, <1>5, <1>6, <1>7, <1>8, <1>9, <1>10, <1>11, <1>12, <1>13, <1>14, <1>15, <1>16, <1>17 DEF WorkerStep

\* The shapes that only admission, cancellation and recovery touch.
Control ==
  /\ broker \in {"down", "starting", "up"}
  /\ consumed \subseteq Runs /\ cancelled \subseteq Runs /\ stopping \subseteq Runs
  /\ sandboxes \subseteq Runs /\ pending \subseteq Request
  /\ adm = NoAdm \/ adm \in Admission
  /\ rec \in Reconciliation
  /\ rec.at = "mark" => rec.cur \in Runs

LEMMA ShapesParts == Shapes <=> Memories /\ Control /\ row \in Rows /\ reservation \in Book
BY DEF Shapes, CodingTypeOK, Memories, Control, Rows, Book, Workers, Request, Admission, NoAdm

LEMMA ShapesPartsNext ==
  Memories' /\ Control' /\ row' \in Rows /\ reservation' \in Book => Shapes'
BY DEF Shapes, CodingTypeOK, Memories, Control, Rows, Book, Workers, Request, Admission, NoAdm

-----------------------------------------------------------------------------
\* A worker's step, a relayed turn and the death of a worker keep the invariant.
LEMMA WorkerKeeps ==
  ASSUME CodingInv, NEW run \in Runs, WorkerStep(run) \/ RelayTurn(run) \/ WorkerDies(run)
  PROVE  CodingInv'
<1>1. Memories /\ Control /\ row \in Rows /\ reservation \in Book /\ worker \in Workers
  BY ShapesParts DEF CodingInv, Memories
<1>2. /\ worker' \in Workers /\ Working(run)
      /\ <<worker[run].at, worker'[run].at>> \in Edges \/ worker'[run].at = "done"
      /\ \A k \in Runs : k # run => worker'[k] = worker[k]
  BY <1>1, WorkerEdges
<1>3. /\ row' \in Rows /\ SameRun(row'[run], row[run]) /\ RowMoves(run)
      /\ \A k \in Runs : k # run => row'[k] = row[k]
  BY <1>1, WorkerRows
<1>4. BookMoves(run) /\ BoxMoves(run) BY <1>1, WorkerBooks
<1>5. Memories' /\ MemoryMoves(run) BY <1>1, WorkerMemory
<1>6. /\ row[run].status # "none" /\ row[run].res \in Reservations /\ row[run].session \in Sessions
      /\ reservation[row[run].res].run = run
      /\ worker[run].at # "leave" => LeasedBy(run)
      /\ worker[run].at \notin Marking => row[run].status \in ActiveStatus
  BY <1>2 DEF CodingInv, WorkerInv, BindingInv
<1>7. /\ reservation' \in Book
      /\ \A v \in Reservations :
           /\ reservation'[v].run = reservation[v].run
           /\ \/ reservation'[v] = reservation[v]
              \/ /\ reservation[v].status = "leased" /\ reservation[v].run = run
                 /\ reservation'[v].status \in {"settled", "released"}
                 /\ worker[run].at = "finish" /\ worker'[run].at = "leave"
  BY <1>1, <1>4, <1>6, FinishEffect DEF BookMoves
<1>8. row'[run].status # "none" /\ \A k \in Runs : SameRun(row'[k], row[k])
  BY <1>3, <1>6 DEF RowMoves, SameRun, ActiveStatus, TerminalStatus
<1>9. Shapes'
  <2>1. sandboxes' \subseteq Runs BY <1>1, <1>4 DEF BoxMoves, Control
  <2>2. Control' BY <1>1, <1>5, <2>1 DEF Control, MemoryMoves
  <2>. QED BY <1>3, <1>5, <1>7, <2>2, ShapesPartsNext
<1>10. BindingInv'
  BY <1>3, <1>6, <1>7, <1>8 DEF CodingInv, BindingInv, SameRun
<1>11. AdmissionInv'
  <2>1. UNCHANGED <<pending, adm, rec, consumed>> BY <1>5 DEF MemoryMoves
  <2>2. \A k \in Runs : worker[k].at = "none" =>
          k # run /\ worker'[k] = worker[k] /\ row'[k] = row[k]
    BY <1>2, <1>3 DEF Working
  <2>3. \A k \in Runs : Untouched(k) => Untouched(k)'
    BY <1>7, <2>2 DEF Untouched
  <2>4. adm.at # "idle" => adm.req.run \in Runs /\ adm.req.res \in Reservations
    BY <1>1 DEF Control, Admission, NoAdm, Request
  <2>5. \A p \in pending : p.run \in Runs BY <1>1 DEF Control, Request
  <2>6. adm.at # "idle" => /\ worker'[adm.req.run].at = "none" /\ adm.req.run # run
                           /\ row'[adm.req.run] = row[adm.req.run]
    BY <2>2, <2>4 DEF CodingInv, AdmissionInv
  <2>7. adm.at \in {"row", "register", "release"} =>
          reservation'[adm.req.res] = reservation[adm.req.res]
    BY <1>7, <2>4, <2>6 DEF CodingInv, AdmissionInv
  <2>. QED BY <2>1, <2>3, <2>4, <2>5, <2>6, <2>7 DEF CodingInv, AdmissionInv
<1>12. WorkerInv'
  <2>1. active' = {k \in Runs : Working(k)'}
    <3>1. active' = IF worker'[run].at = "done" THEN active \ {run} ELSE active BY <1>5 DEF MemoryMoves
    <3>2. worker'[run].at # "none" BY <1>2 DEF Edges
    <3>. QED BY <1>2, <3>1, <3>2 DEF CodingInv, WorkerInv, Working
  <2>2. \A k \in Runs : Working(k)' => row'[k].status # "none"
    BY <1>2, <1>3, <1>8 DEF CodingInv, WorkerInv, Working
  <2>3. \A k \in Runs : Working(k)' /\ worker'[k].at \notin Marking => row'[k].status \in ActiveStatus
    <3>1. Working(run)' /\ worker'[run].at \notin Marking => worker[run].at \notin Marking
      BY <1>2 DEF Edges, Marking, Working
    <3>2. Working(run)' /\ worker'[run].at \notin Marking => row'[run].status \in ActiveStatus
      BY <1>3, <1>6, <3>1 DEF RowMoves, ActiveStatus
    <3>. QED BY <1>2, <1>3, <3>2 DEF CodingInv, WorkerInv, Working
  <2>4. \A k \in Runs : Working(k)' /\ worker'[k].at # "leave" => LeasedBy(k)'
    <3>1. ASSUME NEW k \in Runs, Working(k)', worker'[k].at # "leave" PROVE LeasedBy(k)'
      <4>1. Working(k) /\ worker[k].at # "leave" BY <1>2, <3>1 DEF Edges, Working
      <4>2. LeasedBy(k) /\ row[k].status # "none" BY <4>1 DEF CodingInv, WorkerInv
      <4>3. row[k].res \in Reservations /\ reservation[row[k].res].run = k
        BY <4>2 DEF CodingInv, BindingInv
      <4>. QED BY <1>7, <1>8, <3>1, <4>2, <4>3 DEF LeasedBy, SameRun
    <3>. QED BY <3>1
  <2>5. \A k \in Runs : worker'[k].at = "none" => k \notin cancelled' \cup stopping' /\ turns'[k] = 0
    <3>1. worker'[run].at # "none" BY <1>2 DEF Edges
    <3>. QED BY <1>2, <1>5, <3>1 DEF CodingInv, WorkerInv, MemoryMoves
  <2>. QED BY <2>1, <2>2, <2>3, <2>4, <2>5 DEF WorkerInv
<1>13. BoxInv'
  <2>1. ASSUME NEW k \in sandboxes', k # run PROVE worker'[k].at \in Holding /\ row'[k].status \in ActiveStatus /\ LeasedBy(k)'
    <3>1. k \in sandboxes /\ k \in Runs BY <1>1, <1>4, <2>1 DEF BoxMoves, Control
    <3>2. worker[k].at \in Holding /\ row[k].status \in ActiveStatus /\ LeasedBy(k)
      BY <3>1 DEF CodingInv, BoxInv
    <3>3. row[k].res \in Reservations /\ reservation[row[k].res].run = k
      BY <3>1, <3>2 DEF CodingInv, BindingInv, ActiveStatus
    <3>. QED BY <1>2, <1>3, <1>7, <2>1, <3>1, <3>2, <3>3 DEF LeasedBy
  <2>2. ASSUME run \in sandboxes' PROVE worker'[run].at \in Holding /\ row'[run].status \in ActiveStatus /\ LeasedBy(run)'
    <3>1. CASE worker[run].at = "create" /\ worker'[run].at \in {"own", "cleanup"}
      <4>1. row[run].status \in ActiveStatus /\ LeasedBy(run) BY <1>6, <3>1 DEF Marking
      <4>. QED BY <1>3, <1>6, <1>7, <1>8, <3>1, <4>1 DEF RowMoves, Marking, Holding, ActiveStatus, LeasedBy, SameRun
    <3>2. CASE run \in sandboxes /\ worker'[run].at # "record"
      <4>1. worker[run].at \in Holding /\ row[run].status \in ActiveStatus /\ LeasedBy(run)
        BY <3>2 DEF CodingInv, BoxInv
      <4>2. worker'[run].at \in Holding /\ worker[run].at # "finish" BY <1>2, <3>2, <4>1 DEF Edges, Holding
      <4>3. row'[run].status \in ActiveStatus BY <1>3, <4>1 DEF RowMoves, ActiveStatus
      <4>. QED BY <1>6, <1>7, <1>8, <4>1, <4>2, <4>3 DEF LeasedBy, SameRun
    <3>. QED BY <1>4, <2>2, <3>1, <3>2 DEF BoxMoves
  <2>. QED BY <2>1, <2>2 DEF BoxInv
<1>14. RecoveryInv'
  <2>1. UNCHANGED rec /\ active' \subseteq active BY <1>5 DEF MemoryMoves
  <2>2. sandboxes' \subseteq sandboxes \cup {run} BY <1>4 DEF BoxMoves
  <2>3. run \in active BY <1>2 DEF CodingInv, WorkerInv
  <2>4. \A k \in Runs : row[k].status # "none" => row'[k].status # "none" BY <1>3, <1>8
  <2>5. rec.rows \subseteq Runs /\ rec.leases \subseteq Reservations BY <1>1 DEF Control, Reconciliation
  <2>. QED BY <1>7, <2>1, <2>2, <2>3, <2>4, <2>5 DEF CodingInv, RecoveryInv
<1>15. OutcomeInv'
  <2>1. \A k \in Runs : worker'[k].at \in {"checkpoint", "complete"} => k \in artifacts'
    <3>1. worker'[run].at = "complete" => run \in artifacts'
      BY <1>2, <1>5 DEF Edges, MemoryMoves, CodingInv, OutcomeInv
    <3>. QED BY <1>2, <1>5, <3>1 DEF MemoryMoves, CodingInv, OutcomeInv
  <2>2. \A k \in Runs : worker'[k].at = "complete" => checkpoint'[row'[k].session] # NoRun
    <3>1. worker'[run].at = "complete" => checkpoint'[row'[run].session] # NoRun
      BY <1>3, <1>5, <1>6 DEF MemoryMoves, SameRun
    <3>2. ASSUME NEW k \in Runs, k # run, worker'[k].at = "complete" PROVE checkpoint'[row'[k].session] # NoRun
      <4>1. worker[k].at = "complete" /\ row'[k] = row[k] BY <1>2, <1>3, <3>2
      <4>2. row[k].session \in Sessions /\ checkpoint[row[k].session] # NoRun
        BY <4>1 DEF CodingInv, OutcomeInv, WorkerInv, BindingInv, Working
      <4>. QED BY <1>5, <4>1, <4>2 DEF MemoryMoves
    <3>. QED BY <3>1, <3>2
  <2>3. \A k \in Runs : capability'[k] = "active" => turns'[k] = 0 /\ k \notin cancelled'
    BY <1>5 DEF MemoryMoves, CodingInv, OutcomeInv
  <2>4. ASSUME NEW k \in Runs, row'[k].status = "completed"
        PROVE  checkpoint'[row'[k].session] # NoRun /\ k \notin sandboxes'
    <3>1. CASE row[k].status = "completed"
      <4>1. checkpoint[row[k].session] # NoRun /\ k \notin sandboxes
        BY <3>1 DEF CodingInv, OutcomeInv, CompletedIsBacked
      <4>2. row[k].session \in Sessions BY <3>1 DEF CodingInv, BindingInv
      <4>3. k = run => worker[run].at \in Marking BY <1>6, <3>1 DEF ActiveStatus
      <4>4. k \notin sandboxes' BY <1>4, <4>1, <4>3 DEF BoxMoves, Marking
      <4>. QED BY <1>5, <1>8, <4>1, <4>2, <4>4 DEF MemoryMoves, SameRun
    <3>2. CASE row[k].status # "completed"
      <4>1. k = run /\ worker[run].at = "complete" /\ worker'[run].at \in Marking
        BY <1>3, <2>4, <3>2 DEF RowMoves
      <4>2. checkpoint[row[run].session] # NoRun
        BY <4>1 DEF CodingInv, OutcomeInv
      <4>3. run \notin sandboxes BY <4>1 DEF CodingInv, BoxInv, Holding
      <4>. QED BY <1>4, <1>5, <1>6, <1>8, <4>1, <4>2, <4>3 DEF MemoryMoves, SameRun, BoxMoves
    <3>. QED BY <3>1, <3>2
  <2>. QED BY <2>1, <2>2, <2>3, <2>4 DEF OutcomeInv, CompletedIsBacked
<1>. QED BY <1>9, <1>10, <1>11, <1>12, <1>13, <1>14, <1>15 DEF CodingInv

-----------------------------------------------------------------------------
\* What a step of the reconciliation may do to what others rely on: it moves only rows
\* and leases of runs that have neither a worker nor a workload, and destroys workloads.
RecoveryMoves ==
  /\ row' \in Rows /\ reservation' \in Book
  /\ sandboxes' \subseteq sandboxes
  /\ \A k \in Runs :
       /\ SameRun(row'[k], row[k])
       /\ row'[k] = row[k] \/ (row[k].status # "none" /\ row'[k].status # "none")
       /\ k \in active \cup sandboxes' => row'[k].status = row[k].status
       /\ row'[k].status = "completed" => row[k].status = "completed"
  /\ \A v \in Reservations :
       /\ reservation'[v].run = reservation[v].run
       /\ \/ reservation'[v] = reservation[v]
          \/ /\ reservation[v].status = "leased" /\ reservation[v].run \notin active \cup sandboxes'
             /\ reservation'[v].status \in {"settled", "released"}
  /\ adm.at = "idle" \/ (row' = row /\ reservation' = reservation /\ rec'.at \notin Locked)
RecoveryShape ==
  /\ broker \in {"down", "starting", "up"} /\ healthy \in BOOLEAN /\ faults \in 0 .. MaxFaults
  /\ rec \in Reconciliation /\ (rec.at = "mark" => rec.cur \in Runs)

LEMMA RecoveryKeeps ==
  ASSUME CodingInv, RecFrame, RecoveryMoves, RecoveryShape'
  PROVE  Shapes' /\ BindingInv' /\ AdmissionInv' /\ WorkerInv' /\ BoxInv' /\ OutcomeInv'
<1>1. Memories /\ Control BY ShapesParts DEF CodingInv
<1>2. Shapes'
  <2>1. Memories' BY <1>1 DEF Memories, RecFrame, RecoveryShape
  <2>2. Control' BY <1>1 DEF Control, RecFrame, RecoveryShape, RecoveryMoves
  <2>. QED BY <2>1, <2>2, ShapesPartsNext DEF RecoveryMoves
<1>3. BindingInv'
  BY DEF CodingInv, BindingInv, RecoveryMoves, SameRun
<1>4. \A k \in Runs : row[k].status # "none" =>
        row[k].res \in Reservations /\ reservation[row[k].res].run = k
  BY DEF CodingInv, BindingInv
<1>5. \A k \in active \cup sandboxes' : row[k].status # "none" /\ LeasedBy(k) => LeasedBy(k)'
  <2>1. active \cup sandboxes' \subseteq Runs BY <1>1 DEF Memories, Control, RecoveryMoves
  <2>. QED BY <1>4, <2>1 DEF LeasedBy, RecoveryMoves, SameRun
<1>6. AdmissionInv'
  <2>1. UNCHANGED <<worker, pending, adm, consumed>> BY DEF RecFrame
  <2>2. \A k \in Runs : Untouched(k) => Untouched(k)'
    BY <2>1 DEF Untouched, RecoveryMoves, NoRow
  <2>3. \A p \in pending : p.run \in Runs BY <1>1 DEF Control, Request
  <2>4. CASE adm.at = "idle" BY <2>1, <2>2, <2>3, <2>4 DEF CodingInv, AdmissionInv
  <2>5. CASE row' = row /\ reservation' = reservation /\ rec'.at \notin Locked
    BY <2>1, <2>2, <2>3, <2>5 DEF CodingInv, AdmissionInv, Untouched
  <2>. QED BY <2>4, <2>5 DEF RecoveryMoves
<1>7. WorkerInv'
  <2>1. UNCHANGED <<worker, active, cancelled, stopping, turns>> BY DEF RecFrame
  <2>2. \A k \in Runs : Working(k) <=> Working(k)' BY <2>1 DEF Working
  <2>3. \A k \in Runs : Working(k) => k \in active BY DEF CodingInv, WorkerInv
  <2>. QED BY <1>5, <2>1, <2>2, <2>3 DEF CodingInv, WorkerInv, RecoveryMoves
<1>8. BoxInv'
  BY <1>1, <1>5 DEF CodingInv, BoxInv, RecFrame, RecoveryMoves, ActiveStatus, Control
<1>9. OutcomeInv'
  <2>1. UNCHANGED <<worker, cancelled, capability, turns, checkpoint, artifacts>> BY DEF RecFrame
  <2>. QED BY <2>1 DEF CodingInv, OutcomeInv, CompletedIsBacked, RecoveryMoves, SameRun
<1>. QED BY <1>2, <1>3, <1>6, <1>7, <1>8, <1>9

\* Steps that read, or only move the reconciliation itself.
LEMMA ReadingKeeps ==
  ASSUME CodingInv, RecFrame, RecoveryShape', UNCHANGED <<row, reservation, sandboxes>>,
         adm.at = "idle" \/ rec'.at \notin Locked
  PROVE  Shapes' /\ BindingInv' /\ AdmissionInv' /\ WorkerInv' /\ BoxInv' /\ OutcomeInv'
<1>1. row \in Rows /\ reservation \in Book BY ShapesParts DEF CodingInv
<1>2. row' = row /\ reservation' = reservation /\ sandboxes' = sandboxes OBVIOUS
<1>3. row' \in Rows /\ reservation' \in Book /\ sandboxes' \subseteq sandboxes BY <1>1, <1>2
<1>4. \A k \in Runs : SameRun(row'[k], row[k]) /\ row'[k] = row[k] BY <1>2 DEF SameRun
<1>5. \A v \in Reservations : reservation'[v] = reservation[v] BY <1>2
<1>6. adm.at = "idle" \/ (row' = row /\ reservation' = reservation /\ rec'.at \notin Locked) BY <1>2
<1>7. RecoveryMoves BY <1>3, <1>4, <1>5, <1>6, Zenon DEF RecoveryMoves
<1>. QED BY <1>7, RecoveryKeeps

\* The reconciliation excludes admission, and knows the runs it will touch.
LEMMA RecoveryReads ==
  ASSUME CodingInv
  PROVE  /\ RecoveryShape /\ epoch \in Nat /\ active \subseteq Runs /\ sandboxes \subseteq Runs
         /\ row \in Rows /\ reservation \in Book
         /\ rec.at \in Locked => adm.at = "idle"
BY ShapesParts DEF CodingInv, Memories, Control, RecoveryShape, AdmissionInv

LEMMA ReconcileKeeps ==
  ASSUME CodingInv, ReconcileStep \/ MaintenanceTick \/ ReconcileFails \/ Restart
  PROVE  CodingInv'
<1>. DEFINE Rest == Shapes' /\ BindingInv' /\ AdmissionInv' /\ WorkerInv' /\ BoxInv' /\ OutcomeInv'
<1>1. /\ RecoveryShape /\ epoch \in Nat /\ active \subseteq Runs /\ sandboxes \subseteq Runs
      /\ row \in Rows /\ reservation \in Book
      /\ rec.at \in Locked => adm.at = "idle"
  BY RecoveryReads
<1>2. RecoveryInv BY DEF CodingInv
<1>3. \A k \in Runs : row[k].status # "none" =>
        row[k].res \in Reservations /\ reservation[row[k].res].run = k
  BY DEF CodingInv, BindingInv
<1>4. CASE MaintenanceTick
  <2>1. rec' \in Reconciliation /\ rec'.at = "lock"
    BY <1>1, <1>4 DEF MaintenanceTick, RecStep, RecFrame, RecoveryShape, NoRec, Reconciliation, Locked
  <2>2. RecFrame /\ UNCHANGED <<row, reservation, sandboxes>> BY <1>4 DEF MaintenanceTick, RecStep
  <2>3. RecoveryShape' BY <1>1, <1>4, <2>1 DEF MaintenanceTick, RecStep, RecoveryShape
  <2>4. Rest BY <1>1, <1>4, <2>1, <2>2, <2>3, ReadingKeeps DEF MaintenanceTick, RecStep, Locked
  <2>5. RecoveryInv' BY <1>2, <1>4, <2>1, <2>2 DEF MaintenanceTick, RecStep, RecFrame, RecoveryInv
  <2>. QED BY <2>4, <2>5 DEF CodingInv
<1>5. CASE ListOwned
  <2>1. rec' \in Reconciliation /\ rec'.at = "snapshot"
    BY <1>1, <1>5 DEF ListOwned, RecStep, RecFrame, RecoveryShape, NoRec, Reconciliation, Locked, OwnedAtManager
  <2>2. RecFrame /\ UNCHANGED <<row, reservation, sandboxes>> BY <1>5 DEF ListOwned, RecStep
  <2>3. RecoveryShape' BY <1>1, <1>5, <2>1 DEF ListOwned, RecStep, RecoveryShape
  <2>4. Rest BY <1>1, <1>5, <2>1, <2>2, <2>3, ReadingKeeps DEF ListOwned, RecStep, Locked
  <2>5. RecoveryInv' BY <1>2, <1>5, <2>1, <2>2 DEF ListOwned, RecStep, RecFrame, RecoveryInv
  <2>. QED BY <2>4, <2>5 DEF CodingInv
<1>6. CASE SnapshotActive
  <2>1. rec' \in Reconciliation /\ rec'.at = "terminate"
    BY <1>1, <1>6 DEF SnapshotActive, RecStep, RecFrame, RecoveryShape, NoRec, Reconciliation, Locked
  <2>2. RecFrame /\ UNCHANGED <<row, reservation, sandboxes>> BY <1>6 DEF SnapshotActive, RecStep
  <2>3. RecoveryShape' BY <1>1, <1>6, <2>1 DEF SnapshotActive, RecStep, RecoveryShape
  <2>4. Rest BY <1>1, <1>6, <2>1, <2>2, <2>3, ReadingKeeps DEF SnapshotActive, RecStep, Locked
  <2>5. RecoveryInv' BY <1>2, <1>6, <2>1, <2>2 DEF SnapshotActive, RecStep, RecFrame, RecoveryInv
  <2>. QED BY <2>4, <2>5 DEF CodingInv
<1>7. CASE ScanLeases
  <2>1. rec' \in Reconciliation /\ rec'.at = "leases"
    BY <1>1, <1>7 DEF ScanLeases, RecStep, RecFrame, RecoveryShape, NoRec, Reconciliation, Locked
  <2>2. RecFrame /\ UNCHANGED <<row, reservation, sandboxes>> BY <1>7 DEF ScanLeases, RecStep
  <2>3. RecoveryShape' BY <1>1, <1>7, <2>1 DEF ScanLeases, RecStep, RecoveryShape
  <2>4. Rest BY <1>1, <1>7, <2>1, <2>2, <2>3, ReadingKeeps DEF ScanLeases, RecStep, Locked
  <2>5. \A v \in rec'.leases : reservation[v].run \in Runs \ rec.active
    <3>1. \A v \in rec'.leases : /\ v \in Reservations /\ reservation[v].status = "leased"
                                  /\ reservation[v].run \notin rec.active
      BY <1>1, <1>7 DEF ScanLeases, RecoveryShape, Reconciliation
    <3>. QED BY <1>1, <3>1 DEF CodingInv, BindingInv, Book
  <2>6. rec'.active = rec.active /\ rec.at = "rows"
    BY <1>1, <1>7 DEF ScanLeases, RecStep, RecoveryShape, Reconciliation
  <2>7. RecoveryInv' BY <1>2, <2>1, <2>2, <2>5, <2>6 DEF RecFrame, RecoveryInv
  <2>. QED BY <2>4, <2>7 DEF CodingInv
<1>8. CASE PublishHealthy
  <2>1. rec' \in Reconciliation /\ rec'.at = "idle"
    BY <1>1, <1>8 DEF PublishHealthy, RecStep, RecFrame, RecoveryShape, NoRec, Reconciliation, Locked
  <2>2. RecFrame /\ UNCHANGED <<row, reservation, sandboxes>> BY <1>8 DEF PublishHealthy, RecStep
  <2>3. RecoveryShape' BY <1>1, <1>8, <2>1 DEF PublishHealthy, RecStep, RecoveryShape
  <2>4. Rest BY <1>1, <1>8, <2>1, <2>2, <2>3, ReadingKeeps DEF PublishHealthy, RecStep, Locked
  <2>5. RecoveryInv' BY <1>2, <1>8, <2>1, <2>2 DEF PublishHealthy, RecStep, RecFrame, RecoveryInv
  <2>. QED BY <2>4, <2>5 DEF CodingInv
<1>9. CASE Restart
  <2>1. rec' \in Reconciliation /\ rec'.at = "lock"
    BY <1>1, <1>9 DEF Restart, RecStep, RecFrame, RecoveryShape, NoRec, Reconciliation, Locked
  <2>2. RecFrame /\ UNCHANGED <<row, reservation, sandboxes>> BY <1>9 DEF Restart, RecStep
  <2>3. RecoveryShape' BY <1>1, <1>9, <2>1 DEF Restart, RecStep, RecoveryShape
  <2>4. Rest BY <1>1, <1>9, <2>1, <2>2, <2>3, ReadingKeeps DEF Restart, RecStep, Locked
  <2>5. RecoveryInv' BY <1>2, <1>9, <2>1, <2>2 DEF Restart, RecStep, RecFrame, RecoveryInv
  <2>. QED BY <2>4, <2>5 DEF CodingInv
<1>10. CASE ReconcileDone
  <2>1. rec' \in Reconciliation /\ rec'.at \in {"idle", "publish"}
    BY <1>1, <1>10 DEF ReconcileDone, RecStep, RecFrame, RecoveryShape, NoRec, Reconciliation, Locked
  <2>2. RecFrame /\ UNCHANGED <<row, reservation, sandboxes>> BY <1>10 DEF ReconcileDone, RecStep
  <2>3. RecoveryShape' BY <1>1, <1>10, <2>1 DEF ReconcileDone, RecStep, RecoveryShape
  <2>4. Rest BY <2>1, <2>2, <2>3, ReadingKeeps DEF Locked
  <2>5. RecoveryInv' BY <2>1 DEF RecoveryInv
  <2>. QED BY <2>4, <2>5 DEF CodingInv
<1>11. CASE ReconcileFails
  <2>1. rec' \in Reconciliation /\ rec'.at = "idle" BY <1>11 DEF ReconcileFails, NoRec, Reconciliation
  <2>2. RecFrame /\ UNCHANGED <<row, reservation, sandboxes, healthy>> BY <1>11 DEF ReconcileFails
  <2>3. faults' \in 0 .. MaxFaults /\ broker' \in {"down", "starting", "up"}
    BY <1>1, <1>11, CodingAssumption DEF ReconcileFails, Call, RecoveryShape
  <2>4. RecoveryShape' BY <1>1, <2>1, <2>2, <2>3 DEF RecoveryShape
  <2>5. Rest BY <2>1, <2>2, <2>4, ReadingKeeps DEF Locked
  <2>6. RecoveryInv' BY <2>1 DEF RecoveryInv
  <2>. QED BY <2>5, <2>6 DEF CodingInv
<1>12. CASE ScanRows
  <2>1. /\ rec' \in Reconciliation
        /\ \/ rec'.at = "idle"
           \/ /\ rec'.at = "rows" /\ rec'.active = rec.active /\ sandboxes \subseteq rec.active
              /\ \A k \in rec'.rows : k \notin rec.active /\ (row[k].status \in ActiveStatus \/ row[k].box \in Uncleaned)
    BY <1>1, <1>12 DEF ScanRows, RecStep, OwnedAtManager, RecoveryShape, NoRec, Reconciliation, Locked
  <2>2. RecFrame /\ UNCHANGED <<row, reservation, sandboxes>> /\ rec.at = "terminate"
    BY <1>12 DEF ScanRows, RecStep
  <2>3. RecoveryShape' BY <1>1, <1>12, <2>1 DEF ScanRows, RecStep, RecoveryShape
  <2>4. Rest BY <1>1, <2>1, <2>2, <2>3, ReadingKeeps DEF Locked
  <2>5. rec'.at = "rows" => \A k \in rec'.rows : row[k].status # "none"
    <3>1. rec'.rows \subseteq Runs BY <2>1 DEF Reconciliation
    <3>. QED BY <2>1, <3>1 DEF CodingInv, BindingInv, NoRow, ActiveStatus, Uncleaned
  <2>6. RecoveryInv' BY <1>2, <2>1, <2>2, <2>5 DEF RecFrame, RecoveryInv
  <2>. QED BY <2>4, <2>6 DEF CodingInv
<1>13. ASSUME NEW run \in Runs, TerminateOrphan(run) PROVE CodingInv'
  <2>1. /\ rec.at = "terminate" /\ RecFrame /\ run \in rec.owned /\ UNCHANGED reservation
        /\ sandboxes' = sandboxes \ {run}
    BY <1>13 DEF TerminateOrphan, RecStep, Terminate
  <2>2. /\ rec' \in Reconciliation /\ rec'.at = "terminate" /\ rec'.active = rec.active
        /\ rec'.owned \subseteq rec.owned
    BY <1>1, <1>13 DEF TerminateOrphan, RecStep, RecoveryShape, Reconciliation, Locked
  <2>3. RecoveryShape' BY <1>1, <1>13, <2>2 DEF TerminateOrphan, RecStep, RecoveryShape
  <2>4. /\ row' \in Rows
        /\ \A k \in Runs : SameRun(row'[k], row[k]) /\ row'[k].status = row[k].status
                           /\ (row[k].status = "none" => row'[k] = row[k])
    BY <1>1, <1>13 DEF TerminateOrphan, Rows, SameRun, Cleaned
  <2>5. RecoveryMoves BY <1>1, <2>1, <2>2, <2>4 DEF RecoveryMoves, Locked
  <2>6. Rest BY <2>1, <2>3, <2>5, RecoveryKeeps
  <2>7. RecoveryInv' BY <1>2, <2>1, <2>2 DEF RecFrame, RecoveryInv
  <2>. QED BY <2>6, <2>7 DEF CodingInv
<1>14. ASSUME NEW run \in Runs, RecoverReservation(run) PROVE CodingInv'
  <2>1. /\ rec.at = "rows" /\ RecFrame /\ run \in rec.rows /\ UNCHANGED row
        /\ sandboxes' \in {sandboxes, sandboxes \ {run}}
    BY <1>14 DEF RecoverReservation, RecStep
  <2>2. run \notin active \cup sandboxes /\ row[run].status # "none"
    BY <1>2, <2>1 DEF RecoveryInv
  <2>3. /\ rec' \in Reconciliation /\ rec'.at = "mark" /\ rec'.active = rec.active
        /\ rec'.rows = rec.rows /\ rec'.cur = run
    BY <1>1, <1>14 DEF RecoverReservation, RecStep, RecoveryShape, Reconciliation, Locked
  <2>4. RecoveryShape' BY <1>1, <1>14, <2>3 DEF RecoverReservation, RecStep, RecoveryShape
  <2>5. sandboxes' = sandboxes BY <2>1, <2>2
  <2>6. /\ reservation' \in Book
        /\ \A v \in Reservations :
             /\ reservation'[v].run = reservation[v].run
             /\ \/ reservation'[v] = reservation[v]
                \/ /\ reservation[v].status = "leased" /\ reservation[v].run = run
                   /\ reservation'[v].status \in {"settled", "released"}
    <3>1. reservation' = FinishReservation(row[run].res, run, row[run].status = "completed")
      BY <1>14 DEF RecoverReservation
    <3>2. (row[run].status = "completed") \in BOOLEAN OBVIOUS
    <3>3. \E b \in BOOLEAN : reservation' = FinishReservation(row[run].res, run, b) BY <3>1, <3>2
    <3>. QED BY <1>1, <1>3, <2>2, <3>3, FinishEffect
  <2>7. RecoveryMoves BY <1>1, <2>1, <2>2, <2>5, <2>6 DEF RecoveryMoves, Locked, SameRun
  <2>8. Rest BY <2>1, <2>4, <2>7, RecoveryKeeps
  <2>9. RecoveryInv' BY <1>2, <2>1, <2>3, <2>5 DEF RecFrame, RecoveryInv
  <2>. QED BY <2>8, <2>9 DEF CodingInv
<1>15. CASE RecoverRow
  <2>. DEFINE run == rec.cur
  <2>1. rec.at = "mark" /\ RecFrame /\ UNCHANGED <<reservation, sandboxes>>
    BY <1>15 DEF RecoverRow, RecStep
  <2>2. run \in Runs /\ run \in rec.rows /\ run \notin active \cup sandboxes /\ row[run].status # "none"
    BY <1>1, <1>2, <2>1 DEF RecoveryInv, RecoveryShape
  <2>3. /\ rec' \in Reconciliation /\ rec'.at = "rows" /\ rec'.active = rec.active
        /\ rec'.rows \subseteq rec.rows
    BY <1>1, <1>15 DEF RecoverRow, RecStep, RecoveryShape, Reconciliation, Locked
  <2>4. RecoveryShape' BY <1>1, <1>15, <2>3 DEF RecoverRow, RecStep, RecoveryShape
  <2>5. /\ row' \in Rows
        /\ \A k \in Runs : k # run => row'[k] = row[k]
        /\ SameRun(row'[run], row[run])
        /\ row'[run].status = row[run].status \/ row'[run].status = "failed"
    BY <1>1, <1>15, <2>2 DEF RecoverRow, Rows, SameRun, Cleaned, TerminalStatus
  <2>6. RecoveryMoves BY <1>1, <2>1, <2>2, <2>5 DEF RecoveryMoves, Locked, SameRun
  <2>7. Rest BY <2>1, <2>4, <2>6, RecoveryKeeps
  <2>8. \A k \in rec'.rows : row'[k].status # "none"
    <3>1. rec'.rows \subseteq Runs BY <2>3 DEF Reconciliation
    <3>. QED BY <1>2, <2>1, <2>2, <2>3, <2>5, <3>1 DEF RecoveryInv
  <2>9. RecoveryInv' BY <1>2, <2>1, <2>3, <2>8 DEF RecFrame, RecoveryInv
  <2>. QED BY <2>7, <2>9 DEF CodingInv
<1>16. ASSUME NEW v \in Reservations, RecoverLease(v) PROVE CodingInv'
  <2>. DEFINE run == reservation[v].run
  <2>1. rec.at = "leases" /\ RecFrame /\ v \in rec.leases /\ UNCHANGED <<row, sandboxes>>
    BY <1>16 DEF RecoverLease, RecStep
  <2>2. run \in Runs /\ run \notin active \cup sandboxes BY <1>2, <2>1 DEF RecoveryInv
  <2>3. /\ rec' \in Reconciliation /\ rec'.at = "leases" /\ rec'.active = rec.active
        /\ rec'.leases \subseteq rec.leases
    BY <1>1, <1>16 DEF RecoverLease, RecStep, RecoveryShape, Reconciliation, Locked
  <2>4. RecoveryShape' BY <1>1, <1>16, <2>3 DEF RecoverLease, RecStep, RecoveryShape
  <2>5. /\ reservation' \in Book
        /\ \A w \in Reservations :
             /\ reservation'[w].run = reservation[w].run
             /\ \/ reservation'[w] = reservation[w]
                \/ /\ reservation[w].status = "leased" /\ reservation[w].run = run
                   /\ reservation'[w].status \in {"settled", "released"}
    <3>1. \/ reservation' = reservation
          \/ reservation' = FinishReservation(v, run, row[run].status = "completed")
      BY <1>16 DEF RecoverLease
    <3>2. (row[run].status = "completed") \in BOOLEAN OBVIOUS
    <3>3. reservation' = reservation \/ \E b \in BOOLEAN : reservation' = FinishReservation(v, run, b)
      BY <3>1, <3>2
    <3>. QED BY <1>1, <3>3, FinishEffect
  <2>6. RecoveryMoves BY <1>1, <2>1, <2>2, <2>5 DEF RecoveryMoves, Locked, SameRun
  <2>7. Rest BY <2>1, <2>4, <2>6, RecoveryKeeps
  <2>8. rec'.leases \subseteq Reservations BY <2>3 DEF Reconciliation
  <2>9. RecoveryInv' BY <1>2, <2>1, <2>3, <2>5, <2>8 DEF RecFrame, RecoveryInv
  <2>. QED BY <2>7, <2>9 DEF CodingInv
<1>. QED BY <1>4, <1>5, <1>6, <1>7, <1>8, <1>9, <1>10, <1>11, <1>12, <1>13, <1>14, <1>15, <1>16 DEF ReconcileStep

-----------------------------------------------------------------------------
\* The API process: sessions and reservations.
LEMMA ApiKeeps ==
  ASSUME CodingInv, NEW s \in Sessions,
         \/ CreateSession(s)
         \/ \E state \in {"suspended", "cancelled", "archived"} : Lifecycle(s, state)
         \/ \E v \in Reservations : ReserveRun(s, v)
  PROVE  CodingInv'
<1>1. Memories /\ Control /\ row \in Rows /\ reservation \in Book BY ShapesParts DEF CodingInv
<1>2. CASE CreateSession(s) \/ \E state \in {"suspended", "cancelled", "archived"} : Lifecycle(s, state)
  <2>1. /\ UNCHANGED <<broker, memory, consumed, row, reservation, checkpoint, artifacts, sandboxes, turns, faults>>
        /\ \E state \in {"active", "suspended", "cancelled", "archived"} : session' = [session EXCEPT ![s] = state]
    BY <1>2 DEF CreateSession, Lifecycle
  <2>2. Shapes'
    <3>1. Memories' BY <1>1, <2>1 DEF Memories, memory
    <3>2. Control' BY <1>1, <2>1 DEF Control, memory
    <3>. QED BY <1>1, <2>1, <3>1, <3>2, ShapesPartsNext
  <2>3. BindingInv' /\ AdmissionInv' BY <2>1 DEF CodingInv, BindingInv, AdmissionInv, Untouched, memory
  <2>4. WorkerInv' /\ BoxInv' BY <2>1 DEF CodingInv, WorkerInv, BoxInv, Working, LeasedBy, memory
  <2>5. RecoveryInv' /\ OutcomeInv' BY <2>1 DEF CodingInv, RecoveryInv, OutcomeInv, CompletedIsBacked, memory
  <2>. QED BY <2>2, <2>3, <2>4, <2>5 DEF CodingInv
<1>3. ASSUME NEW v \in Reservations, ReserveRun(s, v) PROVE CodingInv'
  <2>1. UNCHANGED <<broker, memory, consumed, row, session, checkpoint, artifacts, sandboxes, turns, faults>>
    BY <1>3 DEF ReserveRun
  <2>2. /\ reservation' \in Book /\ reservation[v].status = "none" /\ reservation'[v].status = "reserved"
        /\ \A w \in Reservations : reservation'[w].run = reservation[w].run
        /\ \A w \in Reservations : w # v => reservation'[w] = reservation[w]
    BY <1>1, <1>3 DEF ReserveRun, Book
  <2>3. Shapes'
    <3>1. Memories' BY <1>1, <2>1 DEF Memories, memory
    <3>2. Control' BY <1>1, <2>1 DEF Control, memory
    <3>. QED BY <1>1, <2>1, <2>2, <3>1, <3>2, ShapesPartsNext
  <2>4. BindingInv' BY <2>1, <2>2 DEF CodingInv, BindingInv
  <2>5. AdmissionInv'
    <3>1. adm.at # "idle" => adm.req.res \in Reservations BY <1>1 DEF Control, Admission, NoAdm, Request
    <3>. QED BY <2>1, <2>2, <3>1 DEF CodingInv, AdmissionInv, Untouched, memory
  <2>6. WorkerInv' /\ BoxInv'
    <3>1. \A k \in Runs : row[k].status # "none" /\ LeasedBy(k) => LeasedBy(k)'
      BY <2>1, <2>2 DEF CodingInv, BindingInv, LeasedBy
    <3>2. \A k \in Runs : k \in sandboxes => row[k].status # "none" BY DEF CodingInv, BoxInv, ActiveStatus
    <3>3. WorkerInv' BY <2>1, <3>1 DEF CodingInv, WorkerInv, Working, memory
    <3>4. BoxInv' BY <1>1, <2>1, <3>1, <3>2 DEF CodingInv, BoxInv, Control, memory
    <3>. QED BY <3>3, <3>4
  <2>7. RecoveryInv' /\ OutcomeInv'
    <3>1. rec.leases \subseteq Reservations BY <1>1 DEF Control, Reconciliation
    <3>. QED BY <2>1, <2>2, <3>1 DEF CodingInv, RecoveryInv, OutcomeInv, CompletedIsBacked, memory
  <2>. QED BY <2>3, <2>4, <2>5, <2>6, <2>7 DEF CodingInv
<1>. QED BY <1>2, <1>3

\* A signed request takes its replay marker.
LEMMA AuthorizeKeeps ==
  ASSUME CodingInv, NEW run \in Runs, NEW s \in Sessions, NEW v \in Reservations, NEW b \in BOOLEAN,
         Authorize(run, s, v, b)
  PROVE  CodingInv'
<1>1. Memories /\ Control /\ row \in Rows /\ reservation \in Book BY ShapesParts DEF CodingInv
<1>. DEFINE p == [run |-> run, session |-> s, res |-> v, resume |-> b, seen |-> checkpoint[s]]
<1>2. /\ UNCHANGED <<broker, adm, worker, active, cancelled, stopping, capability, healthy, epoch, rec, row,
                     reservation, session, checkpoint, artifacts, sandboxes, turns, faults>>
      /\ run \notin consumed /\ consumed' = consumed \cup {run} /\ pending' = pending \cup {p}
  BY DEF Authorize, Approved
<1>3. p \in Request /\ p.run = run BY <1>1 DEF Memories, Request
<1>4. Shapes'
  <2>1. Memories' BY <1>1, <1>2 DEF Memories
  <2>2. Control' BY <1>1, <1>2, <1>3 DEF Control
  <2>. QED BY <1>1, <1>2, <2>1, <2>2, ShapesPartsNext
<1>5. AdmissionInv'
  <2>1. \A k : Untouched(k)' <=> Untouched(k) BY <1>2 DEF Untouched
  <2>2. Untouched(run) /\ (\A q \in pending : q.run # run) /\ (adm.at # "idle" => adm.req.run # run)
    BY <1>2 DEF CodingInv, AdmissionInv
  <2>. HIDE DEF p
  <2>. QED BY <1>2, <1>3, <2>1, <2>2 DEF CodingInv, AdmissionInv
<1>6. BindingInv' /\ WorkerInv' /\ BoxInv'
  BY <1>2 DEF CodingInv, BindingInv, WorkerInv, BoxInv, Working, LeasedBy
<1>7. RecoveryInv' /\ OutcomeInv' BY <1>2 DEF CodingInv, RecoveryInv, OutcomeInv, CompletedIsBacked
<1>. QED BY <1>4, <1>5, <1>6, <1>7 DEF CodingInv

\* A cancellation: the row, then the capability and the signal.
LEMMA CancelKeeps ==
  ASSUME CodingInv, NEW run \in Runs, CancelSignal(run) \/ \E ok \in BOOLEAN : CancelRow(run, ok)
  PROVE  CodingInv'
<1>1. Memories /\ Control /\ row \in Rows /\ reservation \in Book BY ShapesParts DEF CodingInv
<1>2. ASSUME NEW ok \in BOOLEAN, CancelRow(run, ok) PROVE CodingInv'
  <2>1. /\ UNCHANGED <<broker, pending, adm, worker, active, cancelled, capability, healthy, epoch, rec, consumed,
                       reservation, session, checkpoint, artifacts, sandboxes, turns>>
        /\ run \in active /\ row[run].status \in ActiveStatus
        /\ stopping' = stopping \/ stopping' = stopping \cup {run}
    BY <1>2 DEF CancelRow
  <2>2. /\ row' \in Rows /\ row'[run].status \in ActiveStatus /\ SameRun(row'[run], row[run])
        /\ \A k \in Runs : k # run => row'[k] = row[k]
    BY <1>1, <1>2 DEF CancelRow, Applied, Rows, SameRun, ActiveStatus
  <2>3. worker[run].at # "none" BY <2>1 DEF CodingInv, WorkerInv, Working
  <2>4. Shapes'
    <3>0. faults' \in 0 .. MaxFaults BY <1>1, <1>2, CodingAssumption DEF CancelRow, Call, Memories
    <3>1. Memories' BY <1>1, <2>1, <3>0 DEF Memories
    <3>2. Control' BY <1>1, <2>1 DEF Control
    <3>. QED BY <1>1, <2>1, <2>2, <3>1, <3>2, ShapesPartsNext
  <2>5. BindingInv' BY <2>1, <2>2 DEF CodingInv, BindingInv, SameRun, ActiveStatus
  <2>6. AdmissionInv'
    <3>1. \A k \in Runs : Untouched(k) => Untouched(k)' BY <2>1, <2>2, <2>3 DEF Untouched
    <3>2. adm.at # "idle" => adm.req.run \in Runs BY <1>1 DEF Control, Admission, NoAdm, Request
    <3>3. \A p \in pending : p.run \in Runs BY <1>1 DEF Control, Request
    <3>4. adm.at # "idle" => row'[adm.req.run] = row[adm.req.run]
      BY <2>2, <2>3, <3>2 DEF CodingInv, AdmissionInv
    <3>. QED BY <2>1, <3>1, <3>2, <3>3, <3>4 DEF CodingInv, AdmissionInv
  <2>7. WorkerInv'
    BY <2>1, <2>2, <2>3 DEF CodingInv, WorkerInv, Working, LeasedBy, SameRun, ActiveStatus
  <2>8. BoxInv'
    BY <1>1, <2>1, <2>2 DEF CodingInv, BoxInv, LeasedBy, SameRun, ActiveStatus, Control
  <2>9. RecoveryInv'
    <3>1. rec.rows \subseteq Runs BY <1>1 DEF Control, Reconciliation
    <3>. QED BY <2>1, <2>2, <3>1 DEF CodingInv, RecoveryInv
  <2>10. OutcomeInv' BY <2>1, <2>2 DEF CodingInv, OutcomeInv, CompletedIsBacked, SameRun, ActiveStatus
  <2>. QED BY <2>4, <2>5, <2>6, <2>7, <2>8, <2>9, <2>10 DEF CodingInv
<1>3. CASE CancelSignal(run)
  <2>1. /\ UNCHANGED <<broker, pending, adm, worker, active, healthy, epoch, rec, consumed, row, reservation,
                       session, checkpoint, artifacts, sandboxes, turns, faults>>
        /\ run \in stopping /\ stopping' = stopping \ {run} /\ cancelled' = cancelled \cup {run}
    BY <1>3 DEF CancelSignal, durable
  <2>2. /\ capability' \in [Runs -> {"none", "active", "used", "revoked"}] /\ capability'[run] # "active"
        /\ \A k \in Runs : k # run => capability'[k] = capability[k]
    BY <1>1, <1>3 DEF CancelSignal, RevokeRun, Memories
  <2>3. worker[run].at # "none" BY <2>1 DEF CodingInv, WorkerInv
  <2>4. Shapes'
    <3>1. Memories' BY <1>1, <2>1, <2>2 DEF Memories
    <3>2. Control' BY <1>1, <2>1 DEF Control
    <3>. QED BY <1>1, <2>1, <3>1, <3>2, ShapesPartsNext
  <2>5. BindingInv' /\ AdmissionInv' BY <2>1 DEF CodingInv, BindingInv, AdmissionInv, Untouched
  <2>6. WorkerInv' BY <2>1, <2>3 DEF CodingInv, WorkerInv, Working, LeasedBy
  <2>7. BoxInv' /\ RecoveryInv' BY <2>1 DEF CodingInv, BoxInv, RecoveryInv, LeasedBy
  <2>8. OutcomeInv' BY <2>1, <2>2 DEF CodingInv, OutcomeInv, CompletedIsBacked
  <2>. QED BY <2>4, <2>5, <2>6, <2>7, <2>8 DEF CodingInv
<1>. QED BY <1>2, <1>3

\* The process dies: workers are gone, what is durable stays, workloads live on.
LEMMA CrashKeeps ==
  ASSUME CodingInv, Crash PROVE CodingInv'
<1>1. Memories /\ Control /\ row \in Rows /\ reservation \in Book BY ShapesParts DEF CodingInv
<1>2. /\ UNCHANGED <<consumed, row, reservation, session, checkpoint, artifacts, sandboxes, turns>>
      /\ pending' = {} /\ adm' = NoAdm /\ rec' = NoRec
      /\ active' = {} /\ cancelled' = {} /\ stopping' = {}
      /\ capability' = [r \in Runs |-> "none"]
  BY DEF Crash, durable
<1>3. /\ worker' \in Workers
      /\ \A k \in Runs : IF worker[k].at = "none" THEN worker'[k].at = "none" ELSE worker'[k].at = "done"
  BY DEF Crash, Workers, WorkerPoints, Asleep
<1>4. broker' = "down" /\ healthy' \in BOOLEAN /\ epoch' \in Nat /\ faults' \in 0 .. MaxFaults
  <2>1. healthy' = FALSE BY DEF Crash
  <2>2. healthy' \in BOOLEAN BY <2>1, Zenon
  <2>3. broker' = "down" /\ epoch' \in Nat BY DEF Crash
  <2>4. faults' \in 0 .. MaxFaults BY <1>1, CodingAssumption DEF Crash, Call, Memories
  <2>. QED BY <2>2, <2>3, <2>4
<1>5. Shapes'
  <2>1. Memories' BY <1>1, <1>2, <1>3, <1>4 DEF Memories
  <2>2. Control' BY <1>1, <1>2, <1>4 DEF Control, NoRec, Reconciliation, Locked
  <2>. QED BY <1>1, <1>2, <2>1, <2>2, ShapesPartsNext
<1>6. BindingInv' BY <1>2 DEF CodingInv, BindingInv
<1>7. AdmissionInv' BY <1>2, <1>3 DEF CodingInv, AdmissionInv, Untouched, NoAdm
<1>8. WorkerInv' BY <1>2, <1>3 DEF CodingInv, WorkerInv, Working
<1>9. BoxInv' BY <1>1, <1>2, <1>3 DEF CodingInv, BoxInv, LeasedBy, Holding, Control
<1>10. RecoveryInv' BY <1>2 DEF RecoveryInv, NoRec
<1>11. OutcomeInv' BY <1>2, <1>3 DEF CodingInv, OutcomeInv, CompletedIsBacked
<1>. QED BY <1>5, <1>6, <1>7, <1>8, <1>9, <1>10, <1>11 DEF CodingInv

-----------------------------------------------------------------------------
\* Admission: one request at a time, under the reconcile lock, for a run without a worker.
LEMMA AdmissionFacts ==
  ASSUME CodingInv
  PROVE  /\ Memories /\ Control /\ row \in Rows /\ reservation \in Book
         /\ adm.at = "idle" => adm = NoAdm
         /\ adm.at # "idle" =>
              /\ adm \in Admission /\ adm.req \in Request
              /\ adm.req.run \in Runs /\ adm.req.res \in Reservations
              /\ rec.at \notin Locked
              /\ adm.req.run \notin active \cup sandboxes
BY ShapesParts DEF CodingInv, Memories, Control, Admission, NoAdm, Request, AdmissionInv, WorkerInv, Working,
                   BoxInv, Holding

LEMMA StartKeeps ==
  ASSUME CodingInv, NEW p \in pending, NEW ok \in BOOLEAN, StartRun(p, ok)
  PROVE  CodingInv'
<1>1. Memories /\ Control /\ row \in Rows /\ reservation \in Book BY AdmissionFacts
<1>2. /\ UNCHANGED <<broker, worker, active, cancelled, stopping, capability, healthy, epoch, rec, consumed, row,
                     reservation, session, checkpoint, artifacts, sandboxes, turns>>
      /\ pending' = pending \ {p} /\ adm.at = "idle" /\ rec.at \notin Locked
      /\ adm' = NoAdm \/ adm' = [at |-> "lease", req |-> p]
  BY DEF StartRun, durable, LockFree, Locked
<1>3. faults' \in 0 .. MaxFaults BY <1>1, CodingAssumption DEF StartRun, Call, Memories
<1>4. p \in Request /\ p.run \in Runs BY <1>1 DEF Control, Request
<1>5. Shapes'
  <2>1. Memories' BY <1>1, <1>2, <1>3 DEF Memories
  <2>2. Control' BY <1>1, <1>2, <1>4 DEF Control, Admission
  <2>. QED BY <1>1, <1>2, <2>1, <2>2, ShapesPartsNext
<1>6. AdmissionInv'
  <2>1. \A k : Untouched(k)' <=> Untouched(k) BY <1>2 DEF Untouched
  <2>2. Untouched(p.run) /\ p.run \in consumed /\ worker[p.run].at = "none"
        /\ \A q \in pending' : q.run # p.run
    BY <1>2 DEF CodingInv, AdmissionInv, Untouched
  <2>3. CASE adm' = NoAdm BY <1>2, <2>1, <2>3 DEF CodingInv, AdmissionInv, NoAdm
  <2>4. CASE adm' = [at |-> "lease", req |-> p]
    <3>1. adm'.at = "lease" /\ adm'.req = p BY <2>4
    <3>. QED BY <1>2, <2>1, <2>2, <3>1 DEF CodingInv, AdmissionInv
  <2>. QED BY <1>2, <2>3, <2>4
<1>7. BindingInv' /\ WorkerInv' /\ BoxInv'
  BY <1>2 DEF CodingInv, BindingInv, WorkerInv, BoxInv, Working, LeasedBy
<1>8. RecoveryInv' /\ OutcomeInv' BY <1>2 DEF CodingInv, RecoveryInv, OutcomeInv, CompletedIsBacked
<1>. QED BY <1>5, <1>6, <1>7, <1>8 DEF CodingInv

LEMMA LeaseKeeps ==
  ASSUME CodingInv, NEW expired \in BOOLEAN, NEW ok \in BOOLEAN, AdmitLease(expired, ok)
  PROVE  CodingInv'
<1>. DEFINE p == adm.req
<1>1. /\ Memories /\ Control /\ row \in Rows /\ reservation \in Book /\ adm.at = "lease"
      /\ p \in Request /\ p.run \in Runs /\ p.res \in Reservations /\ rec.at \notin Locked
  BY AdmissionFacts DEF AdmitLease
<1>2. UNCHANGED <<broker, pending, worker, active, cancelled, stopping, capability, healthy, epoch, rec, consumed,
                  row, session, checkpoint, artifacts, sandboxes, turns>>
  BY DEF AdmitLease
<1>0. faults' \in 0 .. MaxFaults BY <1>1, CodingAssumption DEF AdmitLease, Call, Memories
<1>3. \/ reservation' = reservation /\ adm' = NoAdm
      \/ /\ adm' = NoAdm \/ adm' = [at |-> "row", req |-> p]
         /\ reservation[p.res].status = "reserved"
         /\ reservation' = [reservation EXCEPT ![p.res].status = "leased", ![p.res].run = p.run]
  <2>1. adm = [at |-> adm.at, req |-> p] BY AdmissionFacts DEF AdmitLease, Admission
  <2>2. [adm EXCEPT !.at = "row"] = [at |-> "row", req |-> p] BY <2>1
  <2>. QED BY <2>2 DEF AdmitLease, Applied, LeaseReservation
<1>4. CASE reservation' = reservation /\ adm' = NoAdm
  <2>1. Shapes'
    <3>1. Memories' BY <1>0, <1>1, <1>2 DEF Memories
    <3>2. Control' BY <1>1, <1>2, <1>4 DEF Control
    <3>. QED BY <1>1, <1>2, <1>4, <3>1, <3>2, ShapesPartsNext
  <2>2. AdmissionInv' BY <1>2, <1>4 DEF CodingInv, AdmissionInv, Untouched, NoAdm
  <2>3. BindingInv' /\ WorkerInv' /\ BoxInv'
    BY <1>2, <1>4 DEF CodingInv, BindingInv, WorkerInv, BoxInv, Working, LeasedBy
  <2>4. RecoveryInv' /\ OutcomeInv' BY <1>2, <1>4 DEF CodingInv, RecoveryInv, OutcomeInv, CompletedIsBacked
  <2>. QED BY <2>1, <2>2, <2>3, <2>4 DEF CodingInv
<1>5. CASE /\ adm' = NoAdm \/ adm' = [at |-> "row", req |-> p]
           /\ reservation[p.res].status = "reserved"
           /\ reservation' = [reservation EXCEPT ![p.res].status = "leased", ![p.res].run = p.run]
  <2>1. /\ reservation' \in Book
        /\ reservation'[p.res].status = "leased" /\ reservation'[p.res].run = p.run
        /\ \A v \in Reservations : v # p.res => reservation'[v] = reservation[v]
    BY <1>1, <1>5 DEF Book
  <2>2. adm' = NoAdm \/ (adm'.at = "row" /\ adm'.req = p)
    <3>1. [at |-> "row", req |-> p].at = "row" /\ [at |-> "row", req |-> p].req = p OBVIOUS
    <3>. QED BY <1>5, <3>1, Zenon
  <2>3. Untouched(p.run) /\ p.run \in consumed /\ worker[p.run].at = "none" /\ \A q \in pending : q.run # p.run
    BY <1>1 DEF CodingInv, AdmissionInv
  <2>4. Shapes'
    <3>1. Memories' BY <1>0, <1>1, <1>2 DEF Memories
    <3>2. adm' = NoAdm \/ adm' \in Admission BY <1>1, <1>5 DEF Admission
    <3>3. Control' BY <1>1, <1>2, <3>2 DEF Control
    <3>. QED BY <1>1, <1>2, <2>1, <3>1, <3>3, ShapesPartsNext
  <2>12. \A k \in Runs : row[k].status # "none" =>
           row[k].res \in Reservations /\ reservation[row[k].res].run = k /\ row[k].res # p.res
    <3>1. reservation[p.res].run = NoRun BY <1>1, <1>5 DEF CodingInv, BindingInv
    <3>. QED BY <3>1, CodingAssumption DEF CodingInv, BindingInv
  <2>5. BindingInv'
    <3>1. p.run # NoRun BY <1>1, CodingAssumption
    <3>2. \A v \in Reservations :
            reservation'[v].run = NoRun <=> reservation'[v].status \in {"none", "reserved"}
      BY <2>1, <3>1 DEF CodingInv, BindingInv
    <3>3. \A v, w \in Reservations :
            reservation'[v].run = reservation'[w].run /\ reservation'[v].run # NoRun => v = w
      BY <2>1, <2>3 DEF CodingInv, BindingInv, Untouched
    <3>4. \A k \in Runs : row[k].status # "none" =>
            row[k].res \in Reservations /\ reservation'[row[k].res].run = k
      BY <2>1, <2>12
    <3>. QED BY <1>2, <3>2, <3>3, <3>4 DEF CodingInv, BindingInv
  <2>6. AdmissionInv'
    <3>1. \A k \in Runs : k # p.run /\ Untouched(k) => Untouched(k)' BY <1>2, <2>1 DEF Untouched
    <3>2. \A q \in pending : q.run \in Runs BY <1>1 DEF Control, Request
    <3>3. row[p.run] = NoRow BY <2>3 DEF Untouched
    <3>. QED BY <1>1, <1>2, <2>1, <2>2, <2>3, <3>1, <3>2, <3>3 DEF CodingInv, AdmissionInv, NoAdm
  <2>7. \A k \in Runs : row[k].status # "none" /\ LeasedBy(k) => LeasedBy(k)'
    BY <1>2, <2>1, <2>12 DEF LeasedBy
  <2>8. WorkerInv' BY <1>2, <2>7 DEF CodingInv, WorkerInv, Working
  <2>9. BoxInv' BY <1>1, <1>2, <2>7 DEF CodingInv, BoxInv, Control, ActiveStatus
  <2>10. RecoveryInv' BY <1>1, <1>2 DEF RecoveryInv, Locked
  <2>11. OutcomeInv' BY <1>2 DEF CodingInv, OutcomeInv, CompletedIsBacked
  <2>. QED BY <2>4, <2>5, <2>6, <2>8, <2>9, <2>10, <2>11 DEF CodingInv
<1>. QED BY <1>3, <1>4, <1>5

LEMMA CreateRowKeeps ==
  ASSUME CodingInv, NEW ok \in BOOLEAN, AdmitCreateRow(ok)
  PROVE  CodingInv'
<1>. DEFINE p == adm.req
<1>1. /\ Memories /\ Control /\ row \in Rows /\ reservation \in Book /\ adm.at = "row"
      /\ p \in Request /\ p.run \in Runs /\ p.res \in Reservations /\ rec.at \notin Locked
      /\ p.run \notin active \cup sandboxes
  BY AdmissionFacts DEF AdmitCreateRow
<1>2. UNCHANGED <<broker, pending, worker, active, cancelled, stopping, capability, healthy, epoch, rec, consumed,
                  reservation, session, checkpoint, artifacts, sandboxes, turns>>
  BY DEF AdmitCreateRow
<1>3. /\ p.run \in consumed /\ worker[p.run].at = "none" /\ row[p.run] = NoRow
      /\ reservation[p.res].run = p.run /\ reservation[p.res].status = "leased"
      /\ \A q \in pending : q.run # p.run
  BY <1>1 DEF CodingInv, AdmissionInv
<1>4. faults' \in 0 .. MaxFaults BY <1>1, CodingAssumption DEF AdmitCreateRow, Call, Memories
<1>5. /\ row' \in Rows /\ \A k \in Runs : k # p.run => row'[k] = row[k]
      /\ \/ row' = row
         \/ row'[p.run].status = "queued" /\ row'[p.run].res = p.res /\ row'[p.run].session \in Sessions
  <2>1. \/ row' = row
        \/ row' = [row EXCEPT ![p.run] = [NoRow EXCEPT !.status = "queued", !.res = p.res, !.session = p.session]]
    BY DEF AdmitCreateRow, Applied
  <2>2. PICK q : q = [NoRow EXCEPT !.status = "queued", !.res = p.res, !.session = p.session] OBVIOUS
  <2>3. /\ q.status = "queued" /\ q.res = p.res /\ q.session \in Sessions
        /\ q \in [status : ActiveStatus \cup TerminalStatus \cup {"none"}, box : Uncleaned \cup Cleaned,
                   named : BOOLEAN, res : Reservations \cup {NoRun}, session : Sessions \cup {NoRun}]
    BY <1>1, <2>2 DEF NoRow, Request, ActiveStatus, Cleaned
  <2>4. row' = row \/ row' = [row EXCEPT ![p.run] = q] BY <2>1, <2>2
  <2>. QED BY <1>1, <2>3, <2>4 DEF Rows
<1>6. adm' \in Admission /\ adm'.req = p /\ adm'.at \in {"register", "release"}
      /\ (adm'.at = "register" => row'[p.run].status = "queued" /\ row'[p.run].res = p.res)
  <2>1. adm = [at |-> adm.at, req |-> p] BY <1>1, AdmissionFacts DEF Admission
  <2>2. \A x : [adm EXCEPT !.at = x] = [at |-> x, req |-> p] BY <2>1
  <2>3. \/ ok /\ adm' = [at |-> "register", req |-> p]
        \/ ~ok /\ adm' = [at |-> "release", req |-> p]
    BY <2>2 DEF AdmitCreateRow
  <2>4. ok => row'[p.run].status = "queued" /\ row'[p.run].res = p.res
    BY <1>1 DEF AdmitCreateRow, Applied, Rows, NoRow
  <2>. QED BY <1>1, <2>3, <2>4 DEF Admission
<1>7. Shapes'
  <2>1. Memories' BY <1>1, <1>2, <1>4 DEF Memories
  <2>2. Control' BY <1>1, <1>2, <1>6 DEF Control
  <2>. QED BY <1>1, <1>2, <1>5, <2>1, <2>2, ShapesPartsNext
<1>8. BindingInv' BY <1>1, <1>2, <1>3, <1>5 DEF CodingInv, BindingInv, NoRow
<1>9. AdmissionInv'
  <2>1. \A k \in Runs : k # p.run /\ Untouched(k) => Untouched(k)' BY <1>2, <1>5 DEF Untouched
  <2>2. \A q \in pending : q.run \in Runs BY <1>1 DEF Control, Request
  <2>. QED BY <1>1, <1>2, <1>3, <1>6, <2>1, <2>2 DEF CodingInv, AdmissionInv
<1>10. WorkerInv'
  <2>1. \A k \in Runs : Working(k)' => k # p.run /\ Working(k) BY <1>2, <1>3 DEF Working
  <2>. QED BY <1>2, <1>5, <2>1 DEF CodingInv, WorkerInv, LeasedBy, Working
<1>11. BoxInv' BY <1>1, <1>2, <1>5 DEF CodingInv, BoxInv, LeasedBy, Control
<1>12. RecoveryInv' BY <1>1, <1>2 DEF RecoveryInv, Locked
<1>13. OutcomeInv' BY <1>2, <1>3, <1>5 DEF CodingInv, OutcomeInv, CompletedIsBacked
<1>. QED BY <1>7, <1>8, <1>9, <1>10, <1>11, <1>12, <1>13 DEF CodingInv

LEMMA RegisterKeeps ==
  ASSUME CodingInv, NEW expired \in BOOLEAN, NEW ok \in BOOLEAN, AdmitRegister(expired, ok)
  PROVE  CodingInv'
<1>. DEFINE p == adm.req
<1>1. /\ Memories /\ Control /\ row \in Rows /\ reservation \in Book /\ adm.at = "register"
      /\ adm \in Admission /\ p.run \in Runs /\ p.res \in Reservations /\ rec.at \notin Locked
      /\ p.run \notin active \cup sandboxes
  BY AdmissionFacts DEF AdmitRegister
<1>2. UNCHANGED <<broker, pending, cancelled, stopping, healthy, epoch, rec, consumed, reservation, session,
                  checkpoint, artifacts, sandboxes, turns>>
  BY DEF AdmitRegister
<1>3. /\ p.run \in consumed /\ worker[p.run].at = "none"
      /\ row[p.run].status = "queued" /\ row[p.run].res = p.res
      /\ reservation[p.res].run = p.run /\ reservation[p.res].status = "leased"
      /\ \A q \in pending : q.run # p.run
  BY <1>1 DEF CodingInv, AdmissionInv
<1>0. faults' \in 0 .. MaxFaults BY <1>1, CodingAssumption DEF AdmitRegister, Call, Memories
<1>4. \A q \in pending : q.run \in Runs BY <1>1 DEF Control, Request
<1>5. CASE expired
  <2>1. UNCHANGED <<capability, active, worker>> /\ (row' = row \/ row' = MarkRunFinished(p.run, "failed"))
    BY <1>5 DEF AdmitRegister, Applied
  <2>2. adm' = NoAdm \/ (adm' \in Admission /\ adm'.req = p /\ adm'.at = "release")
    BY <1>1, <1>5 DEF AdmitRegister, Admission
  <2>3. /\ row' \in Rows /\ \A k \in Runs : k # p.run => row'[k] = row[k]
        /\ SameRun(row'[p.run], row[p.run]) /\ row'[p.run].status \in {"queued", "failed"}
    BY <1>1, <1>3, <2>1, MarkEffect DEF TerminalStatus, SameRun
  <2>4. Shapes'
    <3>1. Memories' BY <1>0, <1>1, <1>2, <2>1 DEF Memories
    <3>2. Control' BY <1>1, <1>2, <2>2 DEF Control
    <3>. QED BY <1>1, <1>2, <2>3, <3>1, <3>2, ShapesPartsNext
  <2>5. BindingInv' BY <1>1, <1>2, <1>3, <2>3 DEF CodingInv, BindingInv, SameRun
  <2>6. AdmissionInv'
    <3>1. \A k \in Runs : k # p.run /\ Untouched(k) => Untouched(k)' BY <1>2, <2>1, <2>3 DEF Untouched
    <3>. QED BY <1>1, <1>2, <1>3, <1>4, <2>1, <2>2, <3>1 DEF CodingInv, AdmissionInv, NoAdm
  <2>7. WorkerInv'
    <3>1. \A k \in Runs : Working(k)' => k # p.run /\ Working(k) BY <1>3, <2>1 DEF Working
    <3>. QED BY <1>2, <2>1, <2>3, <3>1 DEF CodingInv, WorkerInv, LeasedBy, Working
  <2>8. BoxInv' BY <1>1, <1>2, <2>1, <2>3 DEF CodingInv, BoxInv, LeasedBy, Control
  <2>9. RecoveryInv' BY <1>1, <1>2 DEF RecoveryInv, Locked
  <2>10. OutcomeInv' BY <1>2, <1>3, <2>1, <2>3 DEF CodingInv, OutcomeInv, CompletedIsBacked
  <2>. QED BY <2>4, <2>5, <2>6, <2>7, <2>8, <2>9, <2>10 DEF CodingInv
<1>6. CASE ~expired
  <2>1. row' = row /\ adm' = NoAdm /\ active' = active \cup {p.run} BY <1>6 DEF AdmitRegister
  <2>2. /\ capability' \in [Runs -> {"none", "active", "used", "revoked"}]
        /\ \A k \in Runs : k # p.run => capability'[k] = capability[k]
    BY <1>1, <1>6 DEF AdmitRegister, Memories
  <2>3. /\ worker' \in Workers /\ worker'[p.run].at = "begin"
        /\ \A k \in Runs : k # p.run => worker'[k] = worker[k]
    BY <1>1, <1>6 DEF AdmitRegister, Memories, Workers, WorkerPoints
  <2>4. Shapes'
    <3>1. Memories' BY <1>0, <1>1, <1>2, <2>1, <2>2, <2>3 DEF Memories
    <3>2. Control' BY <1>1, <1>2, <2>1 DEF Control
    <3>. QED BY <1>1, <1>2, <2>1, <3>1, <3>2, ShapesPartsNext
  <2>5. BindingInv' BY <1>2, <2>1 DEF CodingInv, BindingInv
  <2>6. AdmissionInv'
    <3>1. \A k \in Runs : k # p.run /\ Untouched(k) => Untouched(k)' BY <1>2, <2>1, <2>3 DEF Untouched
    <3>. QED BY <1>1, <1>2, <1>3, <1>4, <2>1, <3>1 DEF CodingInv, AdmissionInv, NoAdm
  <2>7. WorkerInv'
    <3>1. LeasedBy(p.run) BY <1>3 DEF LeasedBy
    <3>2. \A k \in Runs : Working(k)' <=> k = p.run \/ Working(k) BY <1>3, <2>3 DEF Working
    <3>3. active' = {k \in Runs : Working(k)'} BY <1>1, <2>1, <3>2 DEF CodingInv, WorkerInv
    <3>4. \A k \in Runs : LeasedBy(k)' <=> LeasedBy(k) BY <1>2, <2>1 DEF LeasedBy
    <3>5. \A k \in Runs : Working(k)' => /\ row'[k].status # "none"
                                         /\ worker'[k].at \notin Marking => row'[k].status \in ActiveStatus
                                         /\ worker'[k].at # "leave" => LeasedBy(k)'
      BY <1>3, <2>1, <2>3, <3>1, <3>2, <3>4 DEF CodingInv, WorkerInv, ActiveStatus
    <3>6. \A k \in Runs : worker'[k].at = "none" => k \notin cancelled' \cup stopping' /\ turns'[k] = 0
      BY <1>2, <2>3 DEF CodingInv, WorkerInv
    <3>. QED BY <3>3, <3>5, <3>6 DEF WorkerInv
  <2>8. BoxInv' BY <1>1, <1>2, <2>1, <2>3 DEF CodingInv, BoxInv, LeasedBy, Control
  <2>9. RecoveryInv' BY <1>1, <1>2 DEF RecoveryInv, Locked
  <2>10. OutcomeInv'
    <3>1. turns[p.run] = 0 /\ p.run \notin cancelled BY <1>1, <1>3 DEF CodingInv, WorkerInv
    <3>. QED BY <1>2, <1>3, <2>1, <2>2, <2>3, <3>1 DEF CodingInv, OutcomeInv, CompletedIsBacked
  <2>. QED BY <2>4, <2>5, <2>6, <2>7, <2>8, <2>9, <2>10 DEF CodingInv
<1>. QED BY <1>5, <1>6

LEMMA ReleaseKeeps ==
  ASSUME CodingInv, NEW ok \in BOOLEAN, AdmitRelease(ok)
  PROVE  CodingInv'
<1>. DEFINE p == adm.req
<1>1. /\ Memories /\ Control /\ row \in Rows /\ reservation \in Book /\ adm.at = "release"
      /\ p.run \in Runs /\ p.res \in Reservations /\ rec.at \notin Locked
      /\ p.run \notin active \cup sandboxes
  BY AdmissionFacts DEF AdmitRelease
<1>2. /\ UNCHANGED <<broker, pending, worker, active, cancelled, stopping, capability, healthy, epoch, rec, consumed,
                     row, session, checkpoint, artifacts, sandboxes, turns>>
      /\ adm' = NoAdm
  BY DEF AdmitRelease
<1>3. faults' \in 0 .. MaxFaults BY <1>1, CodingAssumption DEF AdmitRelease, Call, Memories
<1>4. /\ reservation' \in Book
      /\ \A v \in Reservations :
           /\ reservation'[v].run = reservation[v].run
           /\ \/ reservation'[v] = reservation[v]
              \/ /\ reservation[v].status = "leased" /\ reservation[v].run = p.run
                 /\ reservation'[v].status \in {"settled", "released"}
  <2>1. reservation' = reservation \/ \E b \in BOOLEAN : reservation' = FinishReservation(p.res, p.run, b)
    BY DEF AdmitRelease, Applied
  <2>. QED BY <1>1, <2>1, FinishEffect
<1>5. Shapes'
  <2>1. Memories' BY <1>1, <1>2, <1>3 DEF Memories
  <2>2. Control' BY <1>1, <1>2 DEF Control
  <2>. QED BY <1>1, <1>2, <1>4, <2>1, <2>2, ShapesPartsNext
<1>6. BindingInv' BY <1>2, <1>4 DEF CodingInv, BindingInv
<1>7. AdmissionInv' BY <1>2, <1>4 DEF CodingInv, AdmissionInv, Untouched, NoAdm
<1>8. \A k \in active \cup sandboxes : row[k].status # "none" /\ LeasedBy(k) => LeasedBy(k)'
  <2>1. \A k \in Runs : row[k].status # "none" => row[k].res \in Reservations /\ reservation[row[k].res].run = k
    BY DEF CodingInv, BindingInv
  <2>. QED BY <1>1, <1>2, <1>4, <2>1 DEF LeasedBy, Memories, Control
<1>9. WorkerInv'
  <2>1. \A k \in Runs : Working(k) => k \in active BY DEF CodingInv, WorkerInv
  <2>. QED BY <1>2, <1>8, <2>1 DEF CodingInv, WorkerInv, Working
<1>10. BoxInv' BY <1>1, <1>2, <1>8 DEF CodingInv, BoxInv, Control, ActiveStatus
<1>11. RecoveryInv' BY <1>1, <1>2 DEF RecoveryInv, Locked
<1>12. OutcomeInv' BY <1>2 DEF CodingInv, OutcomeInv, CompletedIsBacked
<1>. QED BY <1>5, <1>6, <1>7, <1>9, <1>10, <1>11, <1>12 DEF CodingInv

-----------------------------------------------------------------------------
\* The initial states satisfy the invariant and every step keeps it.
LEMMA CodingInvInit == CodingInit => CodingInv
<1>. SUFFICES ASSUME CodingInit PROVE CodingInv OBVIOUS
<1>1. Shapes
  <2>1. worker \in Workers BY DEF CodingInit, Workers, Asleep, WorkerPoints
  <2>2. Memories
    <3>1. healthy \in BOOLEAN BY Zenon DEF CodingInit
    <3>. QED BY <2>1, <3>1, CodingAssumption DEF CodingInit, Memories
  <2>3. Control BY DEF CodingInit, Control, NoRec, Reconciliation, Locked
  <2>4. row \in Rows BY DEF CodingInit, Rows, NoRow, Cleaned
  <2>5. reservation \in Book BY DEF CodingInit, Book
  <2>. QED BY <2>2, <2>3, <2>4, <2>5, ShapesParts
<1>2. BindingInv BY DEF CodingInit, BindingInv, NoRow
<1>3. AdmissionInv BY CodingAssumption DEF CodingInit, AdmissionInv, Untouched, Asleep, NoAdm
<1>4. WorkerInv BY DEF CodingInit, WorkerInv, Working, Asleep
<1>5. BoxInv /\ RecoveryInv BY DEF CodingInit, BoxInv, RecoveryInv, NoRec
<1>6. OutcomeInv BY DEF CodingInit, OutcomeInv, CompletedIsBacked, NoRow, Asleep
<1>. QED BY <1>1, <1>2, <1>3, <1>4, <1>5, <1>6 DEF CodingInv

LEMMA CodingInvStep == CodingInv /\ [CodingNext]_vars => CodingInv'
<1>1. ASSUME CodingInv, CodingNext PROVE CodingInv'
  BY <1>1, WorkerKeeps, ReconcileKeeps, ApiKeeps, AuthorizeKeeps, CancelKeeps, CrashKeeps, StartKeeps, LeaseKeeps,
     CreateRowKeeps, RegisterKeeps, ReleaseKeeps
  DEF CodingNext, AdmissionStep
<1>2. ASSUME CodingInv, UNCHANGED vars PROVE CodingInv'
  <2>1. Shapes' BY <1>2 DEF CodingInv, Shapes, CodingTypeOK, vars, memory, durable
  <2>2. BindingInv' /\ AdmissionInv'
    BY <1>2 DEF CodingInv, BindingInv, AdmissionInv, Untouched, vars, memory, durable
  <2>3. WorkerInv' /\ BoxInv'
    BY <1>2 DEF CodingInv, WorkerInv, BoxInv, Working, LeasedBy, vars, memory, durable
  <2>4. RecoveryInv' /\ OutcomeInv'
    BY <1>2 DEF CodingInv, RecoveryInv, OutcomeInv, CompletedIsBacked, vars, memory, durable
  <2>. QED BY <2>1, <2>2, <2>3, <2>4 DEF CodingInv
<1>. QED BY <1>1, <1>2

LEMMA CodingInvAlways == CodingSpec => []CodingInv
BY CodingInvInit, CodingInvStep, PTL DEF CodingSpec

\* Every record, registry and program counter has its shape.
THEOREM TypeCorrect == CodingSpec => []CodingTypeOK
<1>1. CodingInv => CodingTypeOK BY DEF CodingInv, Shapes
<1>. QED BY <1>1, CodingInvAlways, PTL

\* Every live workload can be found again, whatever crashed, failed or was cancelled on the
\* way: it has a lease, and a row that recovery visits (run_worker, DurableSandboxOwnership,
\* reconcile_owned_sandboxes).
THEOREM WorkloadIsRecoverableAlways == CodingSpec => []WorkloadIsRecoverable
<1>1. CodingInv => WorkloadIsRecoverable
  <2>. SUFFICES ASSUME CodingInv, NEW run \in sandboxes
                PROVE  /\ \E v \in Reservations : reservation[v].status = "leased" /\ reservation[v].run = run
                       /\ run \in active \/ row[run].status \in ActiveStatus
    BY DEF WorkloadIsRecoverable
  <2>1. run \in Runs BY ShapesParts DEF CodingInv, Control
  <2>2. row[run].status \in ActiveStatus /\ LeasedBy(run) BY DEF CodingInv, BoxInv
  <2>3. row[run].res \in Reservations /\ reservation[row[run].res].run = run
    BY <2>1, <2>2 DEF CodingInv, BindingInv, ActiveStatus
  <2>. QED BY <2>2, <2>3 DEF LeasedBy
<1>. QED BY <1>1, CodingInvAlways, PTL

-----------------------------------------------------------------------------
\* A turn starts once and before any cancellation, and an ending stays.
LEMMA CancelWinsStep == CodingInv /\ CodingNext => CancelWins
<1>. SUFFICES ASSUME CodingInv, CodingNext PROVE CancelWins OBVIOUS
<1>1. Memories /\ Control /\ row \in Rows /\ reservation \in Book BY AdmissionFacts
<1>2. UNCHANGED <<row, turns>> => CancelWins BY DEF CancelWins
<1>3. ASSUME NEW run \in Runs, WorkerStep(run) \/ RelayTurn(run) \/ WorkerDies(run) PROVE CancelWins
  <2>1. /\ RowMoves(run) /\ \A k \in Runs : k # run => row'[k] = row[k]
    BY <1>1, <1>3, WorkerRows DEF Memories
  <2>2. MemoryMoves(run) BY <1>1, <1>3, WorkerMemory
  <2>3. \A k \in Runs : turns'[k] # turns[k] => k \notin cancelled /\ turns[k] = 0
    BY <2>2 DEF MemoryMoves, CodingInv, OutcomeInv
  <2>4. \A k \in Runs :
          /\ row[k].status = "cancelling" => row'[k].status \in {"cancelling", "cancelled", "failed"}
          /\ row[k].status \in TerminalStatus => row'[k].status = row[k].status
    BY <2>1 DEF RowMoves, ActiveStatus, TerminalStatus
  <2>. QED BY <2>3, <2>4 DEF CancelWins
<1>4. CASE ReconcileStep
  <2>1. CASE RecoverRow
    <3>1. rec.cur \in Runs BY <1>1, <2>1 DEF RecoverRow, RecStep, Control
    <3>2. UNCHANGED turns BY <2>1 DEF RecoverRow, RecStep, RecFrame
    <3>3. \A k \in Runs : \/ row'[k].status = row[k].status
                          \/ row[k].status \in ActiveStatus /\ row'[k].status = "failed"
      BY <1>1, <2>1, <3>1 DEF RecoverRow, Rows
    <3>. QED BY <3>2, <3>3 DEF CancelWins, ActiveStatus, TerminalStatus
  <2>2. ASSUME NEW run \in Runs, TerminateOrphan(run) PROVE CancelWins
    <3>1. UNCHANGED turns BY <2>2 DEF TerminateOrphan, RecStep, RecFrame
    <3>2. \A k \in Runs : row'[k].status = row[k].status BY <1>1, <2>2 DEF TerminateOrphan, Rows
    <3>. QED BY <3>1, <3>2 DEF CancelWins
  <2>. QED BY <1>2, <1>4, <2>1, <2>2
           DEF ReconcileStep, ListOwned, SnapshotActive, ScanRows, ScanLeases, ReconcileDone, PublishHealthy,
               RecoverReservation, RecoverLease, RecStep, RecFrame
<1>5. CASE AdmissionStep
  <2>1. UNCHANGED turns BY <1>5 DEF AdmissionStep, StartRun, AdmitLease, AdmitCreateRow, AdmitRegister, AdmitRelease
  <2>2. ASSUME NEW b \in BOOLEAN, AdmitCreateRow(b) PROVE CancelWins
    <3>1. adm.req.run \in Runs /\ row[adm.req.run].status = "none"
      BY <2>2, AdmissionFacts DEF AdmitCreateRow, CodingInv, AdmissionInv, NoRow
    <3>2. \A k \in Runs : k # adm.req.run => row'[k] = row[k]
      <4>1. \/ row' = row
            \/ row' = [row EXCEPT ![adm.req.run] = [NoRow EXCEPT !.status = "queued", !.res = adm.req.res,
                                                                !.session = adm.req.session]]
        BY <2>2 DEF AdmitCreateRow, Applied
      <4>. QED BY <1>1, <3>1, <4>1 DEF Rows
    <3>. QED BY <2>1, <3>1, <3>2 DEF CancelWins, TerminalStatus
  <2>3. ASSUME NEW b \in BOOLEAN, NEW ok \in BOOLEAN, AdmitRegister(b, ok) PROVE CancelWins
    <3>1. adm.req.run \in Runs /\ row[adm.req.run].status = "queued"
      BY <2>3, AdmissionFacts DEF AdmitRegister, CodingInv, AdmissionInv
    <3>2. row' = row \/ row' = MarkRunFinished(adm.req.run, "failed") BY <2>3 DEF AdmitRegister, Applied
    <3>3. \A k \in Runs : k # adm.req.run => row'[k] = row[k]
      BY <1>1, <3>1, <3>2, MarkEffect DEF TerminalStatus
    <3>. QED BY <2>1, <3>1, <3>3 DEF CancelWins, TerminalStatus
  <2>4. ASSUME NEW b \in BOOLEAN, NEW ok \in BOOLEAN, AdmitLease(b, ok) \/ AdmitRelease(ok) PROVE CancelWins
    BY <1>2, <2>1, <2>4 DEF AdmitLease, AdmitRelease
  <2>5. ASSUME NEW p \in pending, NEW ok \in BOOLEAN, StartRun(p, ok) PROVE CancelWins
    BY <1>2, <2>1, <2>5 DEF StartRun, durable
  <2>. QED BY <1>5, <2>2, <2>3, <2>4, <2>5 DEF AdmissionStep
<1>6. ASSUME NEW run \in Runs, NEW ok \in BOOLEAN, CancelRow(run, ok) PROVE CancelWins
  <2>1. UNCHANGED turns /\ row[run].status \in ActiveStatus
        /\ (row' = row \/ row'[run].status = "cancelling")
        /\ \A k \in Runs : k # run => row'[k] = row[k]
    BY <1>1, <1>6 DEF CancelRow, Applied, Rows
  <2>. QED BY <2>1 DEF CancelWins, ActiveStatus, TerminalStatus
<1>7. ASSUME NEW run \in Runs, CancelSignal(run) PROVE CancelWins BY <1>2, <1>7 DEF CancelSignal, durable
<1>8. CASE MaintenanceTick \/ ReconcileFails \/ Crash \/ Restart
  BY <1>2, <1>8 DEF MaintenanceTick, ReconcileFails, Crash, Restart, RecFrame, durable
<1>9. ASSUME NEW s \in Sessions,
             \/ CreateSession(s)
             \/ \E v \in Reservations : ReserveRun(s, v)
             \/ \E state \in {"suspended", "cancelled", "archived"} : Lifecycle(s, state)
      PROVE  CancelWins
  BY <1>2, <1>9 DEF CreateSession, ReserveRun, Lifecycle
<1>10. ASSUME NEW run \in Runs, NEW s \in Sessions, NEW v \in Reservations, NEW b \in BOOLEAN, Authorize(run, s, v, b)
       PROVE  CancelWins
  BY <1>2, <1>10 DEF Authorize
<1>. QED BY <1>3, <1>4, <1>5, <1>6, <1>7, <1>8, <1>9, <1>10 DEF CodingNext

\* Artifacts go with the step that fails to show their run as completed, and no other.
LEMMA ArtifactsStep == CodingInv /\ CodingNext => ArtifactsAreKept
<1>. SUFFICES ASSUME CodingInv, CodingNext PROVE ArtifactsAreKept OBVIOUS
<1>1. Memories /\ Control /\ row \in Rows /\ reservation \in Book BY AdmissionFacts
<1>2. artifacts' = artifacts /\ (\A k \in Runs : row'[k].status = "completed" => row[k].status = "completed")
        => ArtifactsAreKept
  BY DEF ArtifactsAreKept
<1>0. UNCHANGED <<row, artifacts>> => ArtifactsAreKept BY <1>2
<1>3. ASSUME NEW run \in Runs, WorkerStep(run) \/ RelayTurn(run) \/ WorkerDies(run) PROVE ArtifactsAreKept
  <2>1. /\ RowMoves(run) /\ \A k \in Runs : k # run => row'[k] = row[k]
    BY <1>1, <1>3, WorkerRows DEF Memories
  <2>2. MemoryMoves(run) BY <1>1, <1>3, WorkerMemory
  <2>3. Working(run) BY <1>1, <1>3, WorkerEdges DEF Memories
  <2>4. worker[run].at \in {"complete", "uncheckpointed"} => row[run].status \in ActiveStatus
    BY <2>3 DEF CodingInv, WorkerInv, Marking
  <2>5. worker[run].at = "complete" => run \in artifacts BY DEF CodingInv, OutcomeInv
  <2>6. ASSUME row'[run].status = "completed", row[run].status # "completed"
        PROVE  run \in artifacts' \/ faults' = faults + 1
    BY <2>1, <2>5, <2>6 DEF RowMoves
  <2>7. ASSUME row'[run].status = "completed", row[run].status = "completed", run \in artifacts
        PROVE  run \in artifacts'
    BY <2>2, <2>4, <2>7 DEF MemoryMoves, ActiveStatus
  <2>8. \A k \in Runs : k # run => (k \in artifacts' <=> k \in artifacts) BY <2>2 DEF MemoryMoves
  <2>. QED BY <2>1, <2>6, <2>7, <2>8 DEF ArtifactsAreKept
<1>4. CASE ReconcileStep
  <2>1. CASE RecoverRow
    <3>1. rec.cur \in Runs BY <1>1, <2>1 DEF RecoverRow, RecStep, Control
    <3>2. UNCHANGED artifacts BY <2>1 DEF RecoverRow, RecStep, RecFrame
    <3>. QED BY <1>1, <1>2, <2>1, <3>1, <3>2 DEF RecoverRow, Rows
  <2>2. ASSUME NEW run \in Runs, TerminateOrphan(run) PROVE ArtifactsAreKept
    <3>1. UNCHANGED artifacts BY <2>2 DEF TerminateOrphan, RecStep, RecFrame
    <3>. QED BY <1>1, <1>2, <2>2, <3>1 DEF TerminateOrphan, Rows
  <2>. QED BY <1>0, <1>4, <2>1, <2>2
           DEF ReconcileStep, ListOwned, SnapshotActive, ScanRows, ScanLeases, ReconcileDone, PublishHealthy,
               RecoverReservation, RecoverLease, RecStep, RecFrame
<1>5. CASE AdmissionStep
  <2>1. UNCHANGED artifacts
    BY <1>5 DEF AdmissionStep, StartRun, AdmitLease, AdmitCreateRow, AdmitRegister, AdmitRelease, durable
  <2>2. ASSUME NEW b \in BOOLEAN, AdmitCreateRow(b) PROVE ArtifactsAreKept
    <3>1. \A k \in Runs : row'[k] = row[k] \/ row'[k].status = "queued"
      BY <1>1, <2>2 DEF AdmitCreateRow, Applied, NoRow, Rows
    <3>. QED BY <1>2, <2>1, <3>1
  <2>3. ASSUME NEW b \in BOOLEAN, NEW ok \in BOOLEAN, AdmitRegister(b, ok) PROVE ArtifactsAreKept
    <3>1. adm.req.run \in Runs BY <2>3, AdmissionFacts DEF AdmitRegister
    <3>2. row' = row \/ row' = MarkRunFinished(adm.req.run, "failed") BY <2>3 DEF AdmitRegister, Applied
    <3>3. \A k \in Runs : row'[k] = row[k] \/ row'[k].status = "failed"
      BY <1>1, <3>1, <3>2, MarkEffect DEF TerminalStatus
    <3>. QED BY <1>2, <2>1, <3>3
  <2>4. ASSUME NEW b \in BOOLEAN, NEW ok \in BOOLEAN, AdmitLease(b, ok) \/ AdmitRelease(ok) PROVE ArtifactsAreKept
    BY <1>0, <2>1, <2>4 DEF AdmitLease, AdmitRelease
  <2>5. ASSUME NEW p \in pending, NEW ok \in BOOLEAN, StartRun(p, ok) PROVE ArtifactsAreKept
    BY <1>0, <2>1, <2>5 DEF StartRun, durable
  <2>. QED BY <1>5, <2>2, <2>3, <2>4, <2>5 DEF AdmissionStep
<1>6. ASSUME NEW run \in Runs, NEW ok \in BOOLEAN, CancelRow(run, ok) PROVE ArtifactsAreKept
  <2>1. UNCHANGED artifacts BY <1>6 DEF CancelRow
  <2>2. \A k \in Runs : row'[k] = row[k] \/ row'[k].status = "cancelling"
    BY <1>1, <1>6 DEF CancelRow, Applied, Rows
  <2>. QED BY <1>2, <2>1, <2>2
<1>7. ASSUME NEW run \in Runs, CancelSignal(run) PROVE ArtifactsAreKept BY <1>0, <1>7 DEF CancelSignal, durable
<1>8. CASE MaintenanceTick \/ ReconcileFails \/ Crash \/ Restart
  BY <1>0, <1>8 DEF MaintenanceTick, ReconcileFails, Crash, Restart, RecFrame, durable
<1>9. ASSUME NEW s \in Sessions,
             \/ CreateSession(s)
             \/ \E v \in Reservations : ReserveRun(s, v)
             \/ \E state \in {"suspended", "cancelled", "archived"} : Lifecycle(s, state)
      PROVE  ArtifactsAreKept
  BY <1>0, <1>9 DEF CreateSession, ReserveRun, Lifecycle
<1>10. ASSUME NEW run \in Runs, NEW s \in Sessions, NEW v \in Reservations, NEW b \in BOOLEAN, Authorize(run, s, v, b)
       PROVE  ArtifactsAreKept
  BY <1>0, <1>10 DEF Authorize
<1>. QED BY <1>3, <1>4, <1>5, <1>6, <1>7, <1>8, <1>9, <1>10 DEF CodingNext

\* A run shown as completed has its checkpoint and no workload; its artifacts are on disk
\* and stay there, unless the reply to its own completion was lost; no turn starts after a
\* cancellation was answered, none twice; a cancellation is not overtaken by a completion
\* and an ending is final (run_worker, cancel_run, mark_run_finished).
THEOREM RunsAreSettledAlways == CodingSpec => RunsAreSettled
<1>1. CodingInv => CompletedIsBacked BY DEF CodingInv, OutcomeInv
<1>2. CodingInv /\ CodingInv' /\ [CodingNext]_vars
        => [CompletedIsBacked' /\ ArtifactsAreKept /\ CancelWins]_vars
  <2>1. CodingInv' => CompletedIsBacked' BY DEF CodingInv, OutcomeInv
  <2>. QED BY <2>1, ArtifactsStep, CancelWinsStep
<1>. QED BY <1>2, CodingInvAlways, PTL DEF CodingSpec, RunsAreSettled

-----------------------------------------------------------------------------
(* The refinement: what each kind of step is in CodingLedger.               *)

LEMMA LedgerStutters ==
  ASSUME reservation' = reservation, sandboxes' = sandboxes
  PROVE  UNCHANGED Ledger!vars
BY DEF Ledger!vars

LEMMA LedgerIssues ==
  ASSUME reservation \in Book, NEW s \in Sessions, NEW v \in Reservations, ReserveRun(s, v)
  PROVE  Ledger!Next
<1>1. Ledger!Issue(v) BY DEF ReserveRun, Ledger!Issue, Book
<1>. QED BY <1>1 DEF Ledger!Next

LEMMA LedgerLeases ==
  ASSUME reservation \in Book, NEW v \in Reservations, NEW run \in Runs, sandboxes' = sandboxes,
         reservation[v].status = "reserved", \A w \in Reservations : reservation[w].run # run,
         reservation' = [reservation EXCEPT ![v].status = "leased", ![v].run = run]
  PROVE  Ledger!Next
<1>1. Ledger!Lease(v, run) BY DEF Ledger!Lease, Book
<1>. QED BY <1>1 DEF Ledger!Next

LEMMA LedgerFinishes ==
  ASSUME reservation \in Book, NEW v \in Reservations, NEW run \in Runs \ sandboxes, NEW b \in BOOLEAN,
         reservation' = FinishReservation(v, run, b), sandboxes' = sandboxes
  PROVE  [Ledger!Next]_(Ledger!vars)
<1>1. CASE reservation' = reservation BY <1>1, LedgerStutters
<1>2. CASE /\ reservation[v].status = "leased" /\ reservation[v].run = run
           /\ reservation' = [reservation EXCEPT ![v].status = IF b THEN "settled" ELSE "released"]
  <2>. DEFINE e == IF b THEN "settled" ELSE "released"
  <2>1. e \in {"settled", "released"} /\ reservation' = [reservation EXCEPT ![v].status = e] BY <1>2
  <2>. HIDE DEF e
  <2>2. \A w \in Reservations : /\ reservation'[w].status = IF w = v THEN e ELSE reservation[w].status
                                /\ reservation'[w].run = reservation[w].run
    BY <2>1 DEF Book
  <2>3. [w \in Reservations |-> reservation'[w].status]
          = [[w \in Reservations |-> reservation[w].status] EXCEPT ![v] = e]
    BY <2>2
  <2>4. [w \in Reservations |-> reservation'[w].run] = [w \in Reservations |-> reservation[w].run] BY <2>2
  <2>5. Ledger!Finish(v) BY <1>2, <2>1, <2>3, <2>4 DEF Ledger!Finish
  <2>. QED BY <2>5 DEF Ledger!Next
<1>. QED BY <1>1, <1>2 DEF FinishReservation

LEMMA LedgerBoxes ==
  ASSUME reservation' = reservation, NEW run \in Runs,
         \/ /\ sandboxes' = sandboxes \cup {run}
            /\ \E v \in Reservations : reservation[v].status = "leased" /\ reservation[v].run = run
         \/ sandboxes' = sandboxes \ {run}
  PROVE  Ledger!Next
<1>1. Ledger!Launch(run) \/ Ledger!Destroy(run) BY DEF Ledger!Launch, Ledger!Destroy
<1>. QED BY <1>1 DEF Ledger!Next

LEMMA LedgerStep == CodingInv /\ [CodingNext]_vars => [Ledger!Next]_(Ledger!vars)
<1>. DEFINE Goal == [Ledger!Next]_(Ledger!vars)
<1>. SUFFICES ASSUME CodingInv, [CodingNext]_vars PROVE Goal OBVIOUS
<1>1. Memories /\ Control /\ row \in Rows /\ reservation \in Book /\ worker \in Workers
  BY AdmissionFacts DEF Memories
<1>2. UNCHANGED <<reservation, sandboxes>> => Goal BY LedgerStutters
<1>. HIDE DEF Goal
<1>3. \A k \in Runs : row[k].status # "none" => row[k].res \in Reservations /\ reservation[row[k].res].run = k
  BY DEF CodingInv, BindingInv
<1>4. ASSUME NEW run \in Runs, WorkerStep(run) \/ RelayTurn(run) \/ WorkerDies(run) PROVE Goal
  <2>1. BookMoves(run) /\ BoxMoves(run) /\ Working(run) BY <1>1, <1>4, WorkerBooks, WorkerEdges
  <2>2. row[run].status # "none" BY <2>1 DEF CodingInv, WorkerInv
  <2>3. CASE reservation' = reservation
    <3>1. worker[run].at = "create" => \E v \in Reservations : reservation[v].status = "leased" /\ reservation[v].run = run
      BY <1>3, <2>1, <2>2 DEF CodingInv, WorkerInv, LeasedBy
    <3>. QED BY <1>2, <2>1, <2>3, <3>1, LedgerBoxes DEF BoxMoves, Goal
  <2>4. CASE /\ worker[run].at = "finish" /\ sandboxes' = sandboxes
             /\ \E b \in BOOLEAN : reservation' = FinishReservation(row[run].res, run, b)
    <3>1. run \notin sandboxes BY <2>4 DEF CodingInv, BoxInv, Holding
    <3>. QED BY <1>1, <1>3, <2>2, <2>4, <3>1, LedgerFinishes DEF Goal
  <2>. QED BY <2>1, <2>3, <2>4 DEF BookMoves
<1>5. CASE AdmissionStep
  <2>1. ASSUME NEW p \in pending, NEW ok \in BOOLEAN, StartRun(p, ok) PROVE Goal
    BY <1>2, <2>1 DEF StartRun, durable
  <2>2. ASSUME NEW b \in BOOLEAN, NEW ok \in BOOLEAN, AdmitCreateRow(ok) \/ AdmitRegister(b, ok) PROVE Goal
    BY <1>2, <2>2 DEF AdmitCreateRow, AdmitRegister
  <2>3. ASSUME NEW b \in BOOLEAN, AdmitRelease(b) PROVE Goal
    <3>1. adm.req.run \in Runs \ sandboxes /\ adm.req.res \in Reservations
      BY <2>3, AdmissionFacts DEF AdmitRelease
    <3>2. sandboxes' = sandboxes /\ (reservation' = reservation
                                      \/ reservation' = FinishReservation(adm.req.res, adm.req.run, FALSE))
      BY <2>3 DEF AdmitRelease, Applied
    <3>3. \/ UNCHANGED <<reservation, sandboxes>>
          \/ \E c \in BOOLEAN : reservation' = FinishReservation(adm.req.res, adm.req.run, c)
      BY <3>2
    <3>. QED BY <1>1, <1>2, <3>1, <3>2, <3>3, LedgerFinishes DEF Goal
  <2>4. ASSUME NEW b \in BOOLEAN, NEW ok \in BOOLEAN, AdmitLease(b, ok) PROVE Goal
    <3>. DEFINE p == adm.req
    <3>1. p.run \in Runs /\ p.res \in Reservations BY <2>4, AdmissionFacts DEF AdmitLease
    <3>2. \A w \in Reservations : reservation[w].run # p.run
      BY <2>4 DEF AdmitLease, CodingInv, AdmissionInv, Untouched
    <3>3. /\ sandboxes' = sandboxes
          /\ \/ reservation' = reservation
             \/ /\ reservation[p.res].status = "reserved"
                /\ reservation' = [reservation EXCEPT ![p.res].status = "leased", ![p.res].run = p.run]
      BY <2>4 DEF AdmitLease, Applied, LeaseReservation
    <3>. QED BY <1>1, <1>2, <3>1, <3>2, <3>3, LedgerLeases DEF Goal
  <2>. QED BY <1>5, <2>1, <2>2, <2>3, <2>4 DEF AdmissionStep
<1>6. CASE ReconcileStep
  <2>1. ASSUME NEW run \in Runs, TerminateOrphan(run) PROVE Goal
    BY <2>1, LedgerBoxes DEF TerminateOrphan, Terminate, Goal
  <2>2. ASSUME NEW run \in Runs, RecoverReservation(run) PROVE Goal
    <3>1. run \notin sandboxes /\ row[run].status # "none"
      BY <2>2 DEF RecoverReservation, RecStep, CodingInv, RecoveryInv
    <3>2. sandboxes' = sandboxes BY <2>2, <3>1 DEF RecoverReservation
    <3>3. reservation' = FinishReservation(row[run].res, run, row[run].status = "completed")
      BY <2>2 DEF RecoverReservation
    <3>4. (row[run].status = "completed") \in BOOLEAN OBVIOUS
    <3>5. \E b \in BOOLEAN : reservation' = FinishReservation(row[run].res, run, b) BY <3>3, <3>4
    <3>. QED BY <1>1, <1>3, <3>1, <3>2, <3>5, LedgerFinishes DEF Goal
  <2>3. ASSUME NEW v \in Reservations, RecoverLease(v) PROVE Goal
    <3>. DEFINE run == reservation[v].run
    <3>1. run \in Runs /\ run \notin sandboxes
      BY <2>3 DEF RecoverLease, RecStep, CodingInv, RecoveryInv
    <3>2. sandboxes' = sandboxes
          /\ (reservation' = reservation
                \/ reservation' = FinishReservation(v, run, row[run].status = "completed"))
      BY <2>3 DEF RecoverLease
    <3>3. (row[run].status = "completed") \in BOOLEAN OBVIOUS
    <3>4. \/ UNCHANGED <<reservation, sandboxes>>
          \/ \E b \in BOOLEAN : reservation' = FinishReservation(v, run, b)
      BY <3>2, <3>3
    <3>. QED BY <1>1, <1>2, <3>1, <3>2, <3>4, LedgerFinishes DEF Goal
  <2>. QED BY <1>2, <1>6, <2>1, <2>2, <2>3
           DEF ReconcileStep, ListOwned, SnapshotActive, ScanRows, RecoverRow, ScanLeases, ReconcileDone, PublishHealthy
<1>7. ASSUME NEW s \in Sessions, NEW v \in Reservations, ReserveRun(s, v) PROVE Goal
  BY <1>1, <1>7, LedgerIssues DEF Goal
<1>8. ASSUME NEW s \in Sessions,
             CreateSession(s) \/ \E state \in {"suspended", "cancelled", "archived"} : Lifecycle(s, state)
      PROVE  Goal
  BY <1>2, <1>8 DEF CreateSession, Lifecycle
<1>9. ASSUME NEW run \in Runs, NEW s \in Sessions, NEW v \in Reservations, NEW b \in BOOLEAN, Authorize(run, s, v, b)
      PROVE  Goal
  BY <1>2, <1>9 DEF Authorize
<1>10. ASSUME NEW run \in Runs, CancelSignal(run) \/ \E ok \in BOOLEAN : CancelRow(run, ok) PROVE Goal
  BY <1>2, <1>10 DEF CancelRow, CancelSignal, durable
<1>11. CASE MaintenanceTick \/ ReconcileFails \/ Crash \/ Restart
  BY <1>2, <1>11 DEF MaintenanceTick, ReconcileFails, Crash, Restart, durable
<1>12. CASE UNCHANGED vars BY <1>2, <1>12 DEF vars, durable
<1>. QED BY <1>4, <1>5, <1>6, <1>7, <1>8, <1>9, <1>10, <1>11, <1>12 DEF CodingNext

\* The coding subsystem implements CodingLedger: under every interleaving of workers,
\* cancellations, recovery and crashes a reservation is leased once and finished once, and
\* a workload lives only under a lease (coding_reservations.rs, run_worker,
\* reconcile_owned_sandboxes).
THEOREM ImplementsLedgerAlways == CodingSpec => ImplementsLedger
<1>1. CodingInit => Ledger!Init BY DEF CodingInit, Ledger!Init
<1>. QED BY <1>1, LedgerStep, CodingInvAlways, PTL DEF CodingSpec, ImplementsLedger, Ledger!Spec

-----------------------------------------------------------------------------
(* The IBKR broker.                                                         *)

Stations ==
    {"idle", "brokerage", "token", "reserve_mint", "mint_slot", "mint", "minting", "reserve",
     "slot", "sent", "close", "tickle"}
Stages == {"check", "init", "accounts", "data"}
TaskRecord ==
    [at : Stations, job : {"none", "accounts", "market"}, stage : Stages, slot : Nat, gen : Nat,
     seen : Nat, noted : Nat]

IbkrTypes ==
    /\ token \in [gen : Nat, life : Nat]
    /\ token.gen = 0 => token.life = 0
    /\ minting \in [wait : Nat, by : Tasks \cup {NoRead}]
    /\ brokerage \in [for : Nat, by : Reads \cup {NoRead}]
    /\ pacer \in [next : Nat, accounts : Nat, blocked : Nat]
    /\ read \in [Tasks -> TaskRecord]
    /\ sends \in {0, 1} /\ atIbkr \in Nat

\* The lock is held by the task in the handshake, and its cooldown outlasts it.
MintLockInv ==
    /\ \A t \in Tasks : read[t].at = "minting" <=> minting.by = t
    /\ minting.by # NoRead => minting.wait > 0

WaitsForSlot(t) == read[t].at \in {"slot", "mint_slot"}
NoneIsDue == pacer.next > 0 /\ \A t \in Tasks : WaitsForSlot(t) => read[t].slot # 0
MintIsFree == minting.by = NoRead /\ minting.wait = 0

\* Slots are reserved once, and what was sent has used the slot of this tick; so has a
\* task that is about to mint.
PaceInv ==
    /\ \A t \in Tasks : WaitsForSlot(t) => read[t].slot < pacer.next
    /\ \A t, u \in Tasks :
         WaitsForSlot(t) /\ WaitsForSlot(u) /\ read[t].slot = read[u].slot => t = u
    /\ sends # 0 => NoneIsDue
    /\ \A t \in Tasks : read[t].at = "mint" /\ MintIsFree =>
         /\ sends = 0 /\ NoneIsDue
         /\ \A u \in Tasks : read[u].at = "mint" => u = t

\* What a task knows of the brokerage session: it holds the lock, the generation it
\* looked up is not newer than the one that signs, and that one opens the session.
TaskOpen(t) ==
    /\ read[t].stage # "data" => brokerage.by = t
    /\ read[t].stage \in {"init", "accounts"} => read[t].seen <= token.gen
    /\ read[t].stage = "accounts" => read[t].seen <= atIbkr
    /\ read[t].stage = "init" /\ read[t].at \in {"reserve", "slot", "sent"} =>
         /\ read[t].seen <= read[t].gen /\ read[t].gen <= token.gen
         /\ brokerage.for <= read[t].gen

OpenInv ==
    /\ brokerage.for <= atIbkr /\ atIbkr <= token.gen
    /\ \A t \in Tasks : TaskOpen(t)

IbkrInv == IbkrTypes /\ MintLockInv /\ PaceInv /\ OpenInv

\* What one step may do.
StepIsPaced == IsPaced /\ RejectsItsOwn

LEMMA IbkrFacts ==
  /\ AccountsGap \in Nat /\ MintCooldown \in Nat /\ MintLimit \in Nat /\ TokenLife \in Nat
  /\ Backoff \in Nat /\ MintLimit < MintCooldown /\ MintCooldown # 0
  /\ NoRead \notin Tasks /\ Keeper \in Tasks /\ Reads \subseteq Tasks
BY IbkrAssumption DEF Tasks

OthersStay(t) == \A u \in Tasks : u # t => read'[u] = read[u]

\* The record of one task is replaced.
LEMMA OneTask ==
  ASSUME IbkrTypes, NEW t \in Tasks, NEW r \in TaskRecord, read' = [read EXCEPT ![t] = r]
  PROVE  read' \in [Tasks -> TaskRecord] /\ read'[t] = r /\ OthersStay(t)
BY DEF IbkrTypes, OthersStay

LEMMA TaskTyped ==
  ASSUME IbkrTypes, NEW t \in Tasks
  PROVE  /\ read[t] \in TaskRecord /\ read[t].at \in Stations /\ read[t].stage \in Stages
         /\ read[t].slot \in Nat /\ read[t].gen \in Nat /\ read[t].seen \in Nat
         /\ read[t].noted \in Nat
BY DEF IbkrTypes, TaskRecord

LEMMA NotReadingTyped ==
  /\ NotReading \in TaskRecord /\ NotReading.at = "idle" /\ NotReading.stage = "data"
  /\ NotReading.seen = 0
BY DEF NotReading, TaskRecord, Stations, Stages

LEMMA OnToEffect ==
  ASSUME IbkrTypes, NEW t \in Tasks, NEW at \in Stations, OnTo(t, at)
  PROVE  /\ read' \in [Tasks -> TaskRecord] /\ OthersStay(t) /\ read'[t].at = at
         /\ read'[t].stage = read[t].stage /\ read'[t].slot = read[t].slot
         /\ read'[t].gen = read[t].gen /\ read'[t].seen = read[t].seen
<1>1. read[t] \in TaskRecord BY TaskTyped
<1>2. PICK r : r = [read[t] EXCEPT !.at = at] OBVIOUS
<1>3. /\ r \in TaskRecord /\ r.at = at /\ r.stage = read[t].stage /\ r.slot = read[t].slot
      /\ r.gen = read[t].gen /\ r.seen = read[t].seen
  BY <1>1, <1>2 DEF TaskRecord
<1>4. read' = [read EXCEPT ![t] = r] BY <1>2 DEF OnTo
<1>. QED BY <1>3, <1>4, OneTask

\* The three ways of going on with a token.
TokenChecked(t, gen) ==
    /\ read[t].stage = "check" /\ brokerage.for = gen
    /\ brokerage' = [brokerage EXCEPT !.by = NoRead]
    /\ read'[t].at = "token" /\ read'[t].stage = "data"
SessionStale(t, gen) ==
    /\ read[t].stage = "check" /\ brokerage' = brokerage
    /\ read'[t].at = "token" /\ read'[t].stage = "init" /\ read'[t].seen = gen
TokenTaken(t, gen) ==
    /\ read[t].stage # "check" /\ brokerage' = brokerage
    /\ read'[t].at = "reserve" /\ read'[t].stage = read[t].stage
    /\ read'[t].seen = read[t].seen /\ read'[t].gen = gen

LEMMA WithTokenEffect ==
  ASSUME IbkrTypes, NEW t \in Tasks, NEW gen \in Nat, WithToken(t, gen)
  PROVE  /\ read' \in [Tasks -> TaskRecord] /\ OthersStay(t)
         /\ read'[t].at \in {"token", "reserve"}
         /\ TokenChecked(t, gen) \/ SessionStale(t, gen) \/ TokenTaken(t, gen)
<1>1. read[t] \in TaskRecord BY TaskTyped
<1>2. CASE read[t].stage = "check" /\ brokerage.for = gen
  <2>1. PICK r : r = [read[t] EXCEPT !.stage = "data", !.at = "token"] OBVIOUS
  <2>2. r \in TaskRecord /\ r.at = "token" /\ r.stage = "data"
    BY <1>1, <2>1 DEF TaskRecord, Stations, Stages
  <2>3. read' = [read EXCEPT ![t] = r] /\ brokerage' = [brokerage EXCEPT !.by = NoRead]
    BY <1>2, <2>1 DEF WithToken
  <2>. QED BY <1>2, <2>2, <2>3, OneTask DEF TokenChecked
<1>3. CASE read[t].stage = "check" /\ brokerage.for # gen
  <2>1. PICK r : r = [read[t] EXCEPT !.stage = "init", !.at = "token", !.seen = gen] OBVIOUS
  <2>2. r \in TaskRecord /\ r.at = "token" /\ r.stage = "init" /\ r.seen = gen
    BY <1>1, <2>1 DEF TaskRecord, Stations, Stages
  <2>3. read' = [read EXCEPT ![t] = r] /\ brokerage' = brokerage
    BY <1>3, <2>1 DEF WithToken
  <2>. QED BY <1>3, <2>2, <2>3, OneTask DEF SessionStale
<1>4. CASE read[t].stage # "check"
  <2>1. PICK r : r = [read[t] EXCEPT !.at = "reserve", !.gen = gen] OBVIOUS
  <2>2. r \in TaskRecord /\ r.at = "reserve" /\ r.stage = read[t].stage
        /\ r.seen = read[t].seen /\ r.gen = gen
    BY <1>1, <2>1 DEF TaskRecord, Stations
  <2>3. read' = [read EXCEPT ![t] = r] /\ brokerage' = brokerage
    BY <1>4, <2>1 DEF WithToken
  <2>. QED BY <1>4, <2>2, <2>3, OneTask DEF TokenTaken
<1>. QED BY <1>2, <1>3, <1>4

\* A task ends: the keep-alive closes and keeps its locks, a read drops them.
TaskStops(t) ==
    /\ read' \in [Tasks -> TaskRecord] /\ OthersStay(t) /\ read'[t].at \in {"idle", "close"}
    /\ \/ /\ brokerage' = brokerage
          /\ read'[t].stage = read[t].stage /\ read'[t].seen = read[t].seen
       \/ /\ brokerage' = [brokerage EXCEPT !.by = IF @ = t THEN NoRead ELSE @]
          /\ read'[t].stage = "data"

LEMMA ReleasedEffect ==
  ASSUME IbkrTypes, NEW t \in Tasks, Released(t)
  PROVE  TaskStops(t) /\ minting' = [minting EXCEPT !.by = IF @ = t THEN NoRead ELSE @]
BY OneTask, NotReadingTyped DEF Released, TaskStops

LEMMA FailsEffect ==
  ASSUME IbkrTypes, MintLockInv, NEW t \in Tasks, read[t].at # "minting", Fails(t)
  PROVE  TaskStops(t) /\ minting' = minting
<1>1. CASE t = Keeper
  <2>1. "close" \in Stations BY DEF Stations
  <2>. QED BY <1>1, <2>1, OnToEffect DEF Fails, TaskStops
<1>2. CASE t # Keeper
  <2>1. Released(t) BY <1>2 DEF Fails
  <2>2. minting.by # t BY DEF MintLockInv
  <2>3. minting' = minting BY <2>1, <2>2, ReleasedEffect DEF IbkrTypes
  <2>. QED BY <2>1, <2>3, ReleasedEffect
<1>. QED BY <1>1, <1>2

LEMMA BrokerageTyped ==
  ASSUME IbkrTypes, NEW t \in Tasks,
         \/ brokerage' = brokerage
         \/ brokerage' = [brokerage EXCEPT !.by = NoRead]
         \/ brokerage' = [brokerage EXCEPT !.by = IF @ = t THEN NoRead ELSE @]
  PROVE  /\ brokerage' \in [for : Nat, by : Reads \cup {NoRead}]
         /\ brokerage'.for = brokerage.for
BY DEF IbkrTypes

\* The lock of the mint: a step of a task that is neither in the handshake nor enters it.
LEMMA MintLockStays ==
  ASSUME MintLockInv, NEW t \in Tasks, OthersStay(t), minting' = minting,
         read[t].at # "minting", read'[t].at # "minting"
  PROVE  MintLockInv'
BY DEF MintLockInv, OthersStay

\* The lock is dropped by the task that held it.
LEMMA MintLockDropped ==
  ASSUME IbkrTypes, MintLockInv, NEW t \in Tasks, OthersStay(t), read'[t].at # "minting",
         minting' = [minting EXCEPT !.by = IF @ = t THEN NoRead ELSE @]
  PROVE  MintLockInv' /\ minting'.wait = minting.wait
         /\ minting' \in [wait : Nat, by : Tasks \cup {NoRead}]
         /\ (MintIsFree' => MintIsFree)
<1>1. /\ minting'.wait = minting.wait /\ minting' \in [wait : Nat, by : Tasks \cup {NoRead}]
      /\ minting'.by = IF minting.by = t THEN NoRead ELSE minting.by
  BY DEF IbkrTypes
<1>2. MintLockInv'
  <2>1. ASSUME NEW u \in Tasks PROVE read'[u].at = "minting" <=> minting'.by = u
    <3>1. CASE u = t BY <1>1, <3>1, IbkrFacts
    <3>2. CASE u # t BY <1>1, <3>2, IbkrFacts DEF MintLockInv, OthersStay
    <3>. QED BY <3>1, <3>2
  <2>2. minting'.by # NoRead => minting'.wait > 0 BY <1>1 DEF MintLockInv
  <2>. QED BY <2>1, <2>2 DEF MintLockInv
<1>3. MintIsFree' => MintIsFree
  <2>1. minting.wait \in Nat BY DEF IbkrTypes
  <2>. QED BY <1>1, <2>1 DEF MintIsFree, MintLockInv
<1>. QED BY <1>1, <1>2, <1>3

\* A step that reserves, sends and mints nothing.
LEMMA PaceStays ==
  ASSUME PaceInv, NEW t \in Tasks, OthersStay(t), pacer'.next = pacer.next, sends' = sends,
         read'[t].at \notin {"slot", "mint_slot", "mint"}, MintIsFree' => MintIsFree
  PROVE  PaceInv'
<1>1. \A u \in Tasks : WaitsForSlot(u)' => u # t /\ WaitsForSlot(u) /\ read'[u].slot = read[u].slot
  BY DEF WaitsForSlot, OthersStay
<1>2. \A u \in Tasks : read'[u].at = "mint" => u # t /\ read[u].at = "mint"
  BY DEF OthersStay
<1>3. NoneIsDue => NoneIsDue' BY <1>1 DEF NoneIsDue
<1>. QED BY <1>1, <1>2, <1>3 DEF PaceInv

\* The other tasks' knowledge outlives a step that leaves the session to them, or that
\* the holder of its lock, or anybody while it is free, takes.
LEMMA OthersOpen ==
  ASSUME IbkrTypes, OpenInv, NEW t \in Tasks, OthersStay(t),
         token'.gen \in Nat, token.gen <= token'.gen,
         \/ brokerage' = brokerage /\ atIbkr' = atIbkr
         \/ brokerage.by \in {t, NoRead}
  PROVE  \A u \in Tasks : u # t => TaskOpen(u)'
<1>1. SUFFICES ASSUME NEW u \in Tasks, u # t PROVE TaskOpen(u)' OBVIOUS
<1>2. TaskOpen(u) /\ read'[u] = read[u] /\ u # NoRead
  BY <1>1, IbkrFacts DEF OpenInv, OthersStay
<1>3. read[u].seen \in Nat /\ read[u].gen \in Nat /\ token.gen \in Nat
  BY <1>1, TaskTyped DEF IbkrTypes
<1>4. CASE brokerage' = brokerage /\ atIbkr' = atIbkr
  BY <1>2, <1>3, <1>4 DEF TaskOpen
<1>5. CASE brokerage.by \in {t, NoRead}
  <2>1. read[u].stage = "data" BY <1>1, <1>2, <1>5 DEF TaskOpen
  <2>. QED BY <1>2, <2>1 DEF TaskOpen
<1>. QED BY <1>4, <1>5

LEMMA OpenByParts ==
  ASSUME NEW t \in Tasks, TaskOpen(t)', \A u \in Tasks : u # t => TaskOpen(u)',
         brokerage'.for <= atIbkr', atIbkr' <= token'.gen
  PROVE  OpenInv'
BY DEF OpenInv

LEMMA OpenStops ==
  ASSUME IbkrTypes, OpenInv, NEW t \in Tasks, TaskStops(t), atIbkr' = atIbkr,
         token'.gen = token.gen
  PROVE  OpenInv'
<1>1. OthersStay(t) /\ read'[t].at \in {"idle", "close"} BY DEF TaskStops
<1>2. token.gen \in Nat /\ TaskOpen(t) BY DEF IbkrTypes, OpenInv
<1>3. brokerage'.for = brokerage.for BY BrokerageTyped DEF TaskStops
<1>4. brokerage' = brokerage \/ brokerage.by = t
  <2>1. brokerage.by # t => [brokerage EXCEPT !.by = IF @ = t THEN NoRead ELSE @] = brokerage
    BY DEF IbkrTypes
  <2>. QED BY <2>1 DEF TaskStops
<1>5. \A u \in Tasks : u # t => TaskOpen(u)' BY <1>1, <1>2, <1>4, OthersOpen
<1>6. TaskOpen(t)'
  <2>1. CASE read'[t].stage = "data" BY <2>1 DEF TaskOpen
  <2>2. CASE brokerage' = brokerage /\ read'[t].stage = read[t].stage
             /\ read'[t].seen = read[t].seen
    BY <1>1, <1>2, <2>2 DEF TaskOpen
  <2>. QED BY <2>1, <2>2 DEF TaskStops
<1>. QED BY <1>3, <1>5, <1>6, OpenByParts DEF OpenInv

\* A task only goes from one station to another.
LEMMA OpenMoves ==
  ASSUME IbkrTypes, OpenInv, NEW t \in Tasks, OthersStay(t), atIbkr' = atIbkr,
         token'.gen = token.gen, brokerage' = brokerage,
         read'[t].stage = read[t].stage, read'[t].seen = read[t].seen,
         read'[t].gen = read[t].gen,
         read'[t].at \in {"reserve", "slot", "sent"} => read[t].at \in {"reserve", "slot", "sent"}
  PROVE  OpenInv'
<1>1. token.gen \in Nat /\ TaskOpen(t) BY DEF IbkrTypes, OpenInv
<1>2. \A u \in Tasks : u # t => TaskOpen(u)' BY <1>1, OthersOpen
<1>3. TaskOpen(t)' BY <1>1 DEF TaskOpen
<1>. QED BY <1>2, <1>3, OpenByParts DEF OpenInv

\* A task goes on with the current token.
LEMMA OpenWithToken ==
  ASSUME IbkrTypes, OpenInv, NEW t \in Tasks, OthersStay(t), atIbkr' = atIbkr,
         token'.gen \in Nat, token.gen <= token'.gen, NEW gen, gen = token'.gen,
         TokenChecked(t, gen) \/ SessionStale(t, gen) \/ TokenTaken(t, gen)
  PROVE  OpenInv'
<1>1. /\ token.gen \in Nat /\ atIbkr \in Nat /\ brokerage.for \in Nat /\ TaskOpen(t)
      /\ brokerage.for <= atIbkr /\ atIbkr <= token.gen /\ read[t].seen \in Nat
  BY TaskTyped DEF IbkrTypes, OpenInv
<1>2. brokerage'.for = brokerage.for
  BY BrokerageTyped DEF TokenChecked, SessionStale, TokenTaken
<1>3. brokerage' = brokerage \/ brokerage.by = t
  BY <1>1 DEF TokenChecked, SessionStale, TokenTaken, TaskOpen
<1>4. \A u \in Tasks : u # t => TaskOpen(u)' BY <1>3, OthersOpen
<1>5. TaskOpen(t)'
  <2>1. CASE TokenChecked(t, gen) BY <2>1 DEF TokenChecked, TaskOpen
  <2>2. CASE SessionStale(t, gen) BY <1>1, <2>2 DEF SessionStale, TaskOpen
  <2>3. CASE TokenTaken(t, gen)
    <3>1. /\ brokerage' = brokerage /\ read'[t].at = "reserve" /\ read'[t].gen = gen
          /\ read'[t].stage = read[t].stage /\ read'[t].seen = read[t].seen
      BY <2>3 DEF TokenTaken
    <3>2. read[t].stage \in {"init", "accounts"} => read[t].seen <= gen
      BY <1>1 DEF TaskOpen
    <3>3. brokerage.for <= gen BY <1>1
    <3>. QED BY <1>1, <3>1, <3>2, <3>3 DEF TaskOpen
  <2>. QED BY <2>1, <2>2, <2>3
<1>6. brokerage'.for <= atIbkr' /\ atIbkr' <= token'.gen BY <1>1, <1>2
<1>. QED BY <1>4, <1>5, <1>6, OpenByParts

\* Nothing is sent and no token ends.
LEMMA QuietTask ==
  ASSUME IbkrTypes, NEW t \in Tasks, OthersStay(t), read'[t].at # "minting", sends' = sends,
         token' = token
  PROVE  StepIsPaced
<1>1. \A u \in Tasks : read'[u].at = "minting" => read[u].at = "minting" BY DEF OthersStay
<1>2. ~(sends' > sends) BY DEF IbkrTypes
<1>3. IsPaced BY <1>1, <1>2 DEF IsPaced, ReadAt
<1>4. token.life \in Nat BY DEF IbkrTypes
<1>5. RejectsItsOwn BY <1>4 DEF RejectsItsOwn
<1>. QED BY <1>3, <1>5 DEF StepIsPaced

LockDropped(t) == minting' = [minting EXCEPT !.by = IF @ = t THEN NoRead ELSE @]

LEMMA NothingDropped ==
  ASSUME IbkrTypes, MintLockInv, NEW t \in Tasks, minting' = minting, read[t].at # "minting"
  PROVE  LockDropped(t)
<1>1. minting.by # t BY DEF MintLockInv
<1>. QED BY <1>1 DEF IbkrTypes, LockDropped

LEMMA AllDropped ==
  ASSUME IbkrTypes, MintLockInv, NEW t \in Tasks, minting' = [minting EXCEPT !.by = NoRead],
         read[t].at = "minting"
  PROVE  LockDropped(t)
<1>1. minting.by = t BY DEF MintLockInv
<1>. QED BY <1>1 DEF IbkrTypes, LockDropped

\* The token and the pacer after a step of a task that reserves nothing.
TokenTyped ==
    /\ token' \in [gen : Nat, life : Nat] /\ token.gen <= token'.gen
    /\ token'.gen = 0 => token'.life = 0
PacerBlocked ==
    /\ pacer' \in [next : Nat, accounts : Nat, blocked : Nat]
    /\ pacer'.next = pacer.next

LEMMA SameToken ==
  ASSUME IbkrTypes, token' = token
  PROVE  TokenTyped /\ token'.gen = token.gen
BY DEF IbkrTypes, TokenTyped

LEMMA PacerEffect ==
  ASSUME IbkrTypes, NEW limited,
         pacer' = IF limited THEN [pacer EXCEPT !.blocked = Backoff] ELSE pacer
  PROVE  PacerBlocked
<1>1. Backoff \in Nat BY IbkrFacts
<1>. QED BY <1>1 DEF IbkrTypes, PacerBlocked

LEMMA SamePacer ==
  ASSUME IbkrTypes, pacer' = pacer
  PROVE  PacerBlocked
BY DEF IbkrTypes, PacerBlocked

LEMMA StopStep ==
  ASSUME IbkrInv, NEW t \in Tasks, TaskStops(t), LockDropped(t), TokenTyped,
         token'.gen = token.gen, PacerBlocked, sends' = sends, atIbkr' = atIbkr
  PROVE  IbkrInv'
<1>0. IbkrTypes /\ MintLockInv /\ PaceInv /\ OpenInv BY DEF IbkrInv
<1>1. /\ OthersStay(t) /\ read'[t].at \in {"idle", "close"}
      /\ read' \in [Tasks -> TaskRecord]
  BY DEF TaskStops
<1>2. /\ MintLockInv' /\ minting' \in [wait : Nat, by : Tasks \cup {NoRead}]
      /\ (MintIsFree' => MintIsFree)
  BY <1>0, <1>1, MintLockDropped DEF LockDropped
<1>3. PaceInv' BY <1>0, <1>1, <1>2, PaceStays DEF PacerBlocked
<1>4. OpenInv' BY <1>0, OpenStops
<1>5. brokerage' \in [for : Nat, by : Reads \cup {NoRead}]
  BY <1>0, BrokerageTyped DEF TaskStops
<1>6. IbkrTypes' BY <1>0, <1>1, <1>2, <1>5 DEF IbkrTypes, TokenTyped, PacerBlocked
<1>. QED BY <1>2, <1>3, <1>4, <1>6 DEF IbkrInv

LEMMA TokenStep ==
  ASSUME IbkrInv, NEW t \in Tasks, NEW gen, gen = token'.gen, WithToken(t, gen), LockDropped(t),
         TokenTyped, PacerBlocked, sends' = sends, atIbkr' = atIbkr
  PROVE  IbkrInv' /\ OthersStay(t) /\ read'[t].at # "minting"
<1>0. IbkrTypes /\ MintLockInv /\ PaceInv /\ OpenInv BY DEF IbkrInv
<1>1. gen \in Nat /\ token'.gen \in Nat BY DEF TokenTyped
<1>2. /\ read' \in [Tasks -> TaskRecord] /\ OthersStay(t) /\ read'[t].at \in {"token", "reserve"}
      /\ TokenChecked(t, gen) \/ SessionStale(t, gen) \/ TokenTaken(t, gen)
  BY <1>0, <1>1, WithTokenEffect
<1>3. /\ MintLockInv' /\ minting' \in [wait : Nat, by : Tasks \cup {NoRead}]
      /\ (MintIsFree' => MintIsFree)
  BY <1>0, <1>2, MintLockDropped DEF LockDropped
<1>4. PaceInv' BY <1>0, <1>2, <1>3, PaceStays DEF PacerBlocked
<1>5. OpenInv' BY <1>0, <1>1, <1>2, OpenWithToken DEF TokenTyped
<1>6. brokerage' \in [for : Nat, by : Reads \cup {NoRead}]
  BY <1>0, <1>2, BrokerageTyped DEF TokenChecked, SessionStale, TokenTaken
<1>7. IbkrTypes' BY <1>0, <1>2, <1>3, <1>6 DEF IbkrTypes, TokenTyped, PacerBlocked
<1>. QED BY <1>2, <1>3, <1>4, <1>5, <1>7 DEF IbkrInv

\* A task that cannot go on.
LEMMA FailStep ==
  ASSUME IbkrInv, NEW t \in Tasks, read[t].at # "minting", Fails(t), token' = token,
         PacerBlocked, sends' = sends, atIbkr' = atIbkr
  PROVE  IbkrInv' /\ StepIsPaced
<1>0. IbkrTypes /\ MintLockInv BY DEF IbkrInv
<1>1. TaskStops(t) /\ minting' = minting BY <1>0, FailsEffect
<1>2. LockDropped(t) BY <1>0, <1>1, NothingDropped
<1>3. TokenTyped /\ token'.gen = token.gen BY <1>0, SameToken
<1>4. IbkrInv' BY <1>1, <1>2, <1>3, StopStep
<1>. QED BY <1>0, <1>1, <1>4, QuietTask DEF TaskStops

\* A task that goes on with the cached token.
LEMMA CachedStep ==
  ASSUME IbkrInv, NEW t \in Tasks, read[t].at # "minting", WithToken(t, token.gen),
         token' = token, minting' = minting, pacer' = pacer, sends' = sends, atIbkr' = atIbkr
  PROVE  IbkrInv' /\ StepIsPaced
<1>0. IbkrTypes /\ MintLockInv BY DEF IbkrInv
<1>1. LockDropped(t) BY <1>0, NothingDropped
<1>2. TokenTyped /\ token'.gen = token.gen BY <1>0, SameToken
<1>3. PacerBlocked BY <1>0, SamePacer
<1>4. IbkrInv' /\ OthersStay(t) /\ read'[t].at # "minting" BY <1>1, <1>2, <1>3, TokenStep
<1>. QED BY <1>0, <1>4, QuietTask

LEMMA TokenIsTaken ==
  ASSUME IbkrInv, NEW t \in Tasks, TakeToken(t)
  PROVE  IbkrInv' /\ StepIsPaced
<1>0. IbkrTypes /\ MintLockInv /\ PaceInv /\ OpenInv BY DEF IbkrInv
<1>1. read[t].at = "token" /\ UNCHANGED <<token, pacer, sends, atIbkr>>
  BY DEF TakeToken, ReadAt
<1>2. CASE WithToken(t, token.gen) /\ minting' = minting BY <1>1, <1>2, CachedStep
<1>3. CASE Fails(t) BY <1>0, <1>1, <1>3, SamePacer, FailStep
<1>4. CASE OnTo(t, "reserve_mint") /\ UNCHANGED <<minting, brokerage>>
  <2>1. "reserve_mint" \in Stations BY DEF Stations
  <2>2. /\ read' \in [Tasks -> TaskRecord] /\ OthersStay(t) /\ read'[t].at = "reserve_mint"
        /\ read'[t].stage = read[t].stage /\ read'[t].gen = read[t].gen
        /\ read'[t].seen = read[t].seen
    BY <1>0, <1>4, <2>1, OnToEffect
  <2>3. MintLockInv' BY <1>0, <1>1, <1>4, <2>2, MintLockStays
  <2>4. PaceInv' BY <1>0, <1>1, <1>4, <2>2, PaceStays DEF MintIsFree
  <2>5. OpenInv' BY <1>0, <1>1, <1>4, <2>2, OpenMoves
  <2>6. IbkrTypes' BY <1>0, <1>1, <1>4, <2>2 DEF IbkrTypes
  <2>7. StepIsPaced BY <1>0, <1>1, <2>2, QuietTask
  <2>. QED BY <2>3, <2>4, <2>5, <2>6, <2>7 DEF IbkrInv
<1>. QED BY <1>2, <1>3, <1>4 DEF TakeToken

LEMMA MintStarts ==
  ASSUME IbkrInv, NEW t \in Tasks, StartMint(t)
  PROVE  IbkrInv' /\ StepIsPaced
<1>0. IbkrTypes /\ MintLockInv /\ PaceInv /\ OpenInv BY DEF IbkrInv
<1>1. /\ read[t].at = "mint" /\ minting.by = NoRead /\ UNCHANGED <<token, pacer, atIbkr>>
  BY DEF StartMint, ReadAt
<1>2. CASE ~MintDueStill /\ TokenUsable
  BY <1>1, <1>2, CachedStep DEF StartMint
<1>3. CASE ~MintDueStill /\ ~TokenUsable
  BY <1>0, <1>1, <1>3, SamePacer, FailStep DEF StartMint
<1>4. CASE MintDueStill
  <2>1. /\ minting' = [minting EXCEPT !.by = t, !.wait = MintCooldown]
        /\ OnTo(t, "minting") /\ sends' = sends + 1 /\ brokerage' = brokerage
    BY <1>4 DEF StartMint, OnTo
  <2>2. MintIsFree BY <1>1, <1>4 DEF MintDueStill, MintDue, MintIsFree
  <2>3. sends = 0 /\ NoneIsDue BY <1>0, <1>1, <2>2 DEF PaceInv
  <2>4. "minting" \in Stations BY DEF Stations
  <2>5. /\ read' \in [Tasks -> TaskRecord] /\ OthersStay(t) /\ read'[t].at = "minting"
        /\ read'[t].stage = read[t].stage /\ read'[t].slot = read[t].slot
        /\ read'[t].gen = read[t].gen /\ read'[t].seen = read[t].seen
    BY <1>0, <2>1, <2>4, OnToEffect
  <2>6. /\ minting'.by = t /\ minting'.wait = MintCooldown
        /\ minting' \in [wait : Nat, by : Tasks \cup {NoRead}]
    BY <1>0, <2>1, IbkrFacts DEF IbkrTypes
  <2>7. MintLockInv'
    <3>1. minting'.wait > 0 BY <2>6, IbkrFacts
    <3>2. \A u \in Tasks : u # t => read[u].at # "minting"
      BY <1>0, <1>1, IbkrFacts DEF MintLockInv
    <3>. QED BY <2>5, <2>6, <3>1, <3>2 DEF MintLockInv, OthersStay
  <2>8. PaceInv'
    <3>1. ~MintIsFree' BY <2>6, IbkrFacts DEF MintIsFree
    <3>2. \A u \in Tasks :
            WaitsForSlot(u)' => WaitsForSlot(u) /\ read'[u].slot = read[u].slot
      BY <2>5 DEF WaitsForSlot, OthersStay
    <3>3. NoneIsDue' BY <1>1, <2>3, <3>2 DEF NoneIsDue
    <3>. QED BY <1>0, <1>1, <3>1, <3>2, <3>3 DEF PaceInv
  <2>9. OpenInv' BY <1>0, <1>1, <2>1, <2>5, OpenMoves
  <2>10. IbkrTypes' BY <1>0, <1>1, <2>1, <2>3, <2>5, <2>6 DEF IbkrTypes
  <2>11. StepIsPaced
    <3>1. ~ReadAt(t, "minting") /\ read'[t].at = "minting" BY <1>1, <2>5 DEF ReadAt
    <3>2. IsPaced BY <2>2, <2>3, <3>1 DEF IsPaced, MintIsFree
    <3>3. token.life \in Nat BY <1>0 DEF IbkrTypes
    <3>4. RejectsItsOwn BY <1>1, <3>3 DEF RejectsItsOwn
    <3>. QED BY <3>2, <3>4 DEF StepIsPaced
  <2>. QED BY <2>7, <2>8, <2>9, <2>10, <2>11 DEF IbkrInv
<1>. QED BY <1>2, <1>3, <1>4

LEMMA MintEnds ==
  ASSUME IbkrInv, NEW t \in Tasks, MintSucceeds(t)
  PROVE  IbkrInv' /\ StepIsPaced
<1>0. IbkrTypes /\ MintLockInv BY DEF IbkrInv
<1>1. /\ read[t].at = "minting" /\ token' = [gen |-> token.gen + 1, life |-> TokenLife]
      /\ minting' = [minting EXCEPT !.by = NoRead] /\ WithToken(t, token.gen + 1)
      /\ UNCHANGED <<pacer, sends, atIbkr>>
  BY DEF MintSucceeds, ReadAt
<1>2. /\ token'.gen = token.gen + 1 /\ token.gen \in Nat /\ TokenTyped
  BY <1>0, <1>1, IbkrFacts DEF IbkrTypes, TokenTyped
<1>3. LockDropped(t) BY <1>0, <1>1, AllDropped
<1>4. PacerBlocked BY <1>0, <1>1, SamePacer
<1>5. IbkrInv' /\ OthersStay(t) /\ read'[t].at # "minting"
  BY <1>1, <1>2, <1>3, <1>4, TokenStep
<1>6. IsPaced
  <2>1. \A u \in Tasks : read'[u].at = "minting" => read[u].at = "minting"
    BY <1>5 DEF OthersStay
  <2>2. ~(sends' > sends) BY <1>0, <1>1 DEF IbkrTypes
  <2>. QED BY <2>1, <2>2 DEF IsPaced, ReadAt
<1>7. RejectsItsOwn BY <1>2 DEF RejectsItsOwn
<1>. QED BY <1>5, <1>6, <1>7 DEF StepIsPaced

LEMMA MintIsRefused ==
  ASSUME IbkrInv, NEW t \in Tasks, NEW limited \in BOOLEAN, MintFails(t, limited)
  PROVE  IbkrInv' /\ StepIsPaced
<1>0. IbkrTypes /\ MintLockInv BY DEF IbkrInv
<1>1. /\ read[t].at = "minting" /\ UNCHANGED <<token, sends, atIbkr>>
      /\ pacer' = IF limited THEN [pacer EXCEPT !.blocked = Backoff] ELSE pacer
  BY DEF MintFails, ReadAt
<1>2. PacerBlocked BY <1>0, <1>1, PacerEffect
<1>3. TokenTyped /\ token'.gen = token.gen BY <1>0, <1>1, SameToken
<1>4. CASE token.life > 0
  <2>1. WithToken(t, token.gen) /\ minting' = [minting EXCEPT !.by = NoRead]
    BY <1>4 DEF MintFails
  <2>2. LockDropped(t) BY <1>0, <1>1, <2>1, AllDropped
  <2>3. IbkrInv' /\ OthersStay(t) /\ read'[t].at # "minting"
    BY <1>1, <1>2, <1>3, <2>1, <2>2, TokenStep
  <2>. QED BY <1>0, <1>1, <2>3, QuietTask
<1>5. CASE ~(token.life > 0)
  <2>1. TaskStops(t) /\ LockDropped(t)
    <3>1. CASE t = Keeper
      <4>1. OnTo(t, "close") /\ brokerage' = brokerage
            /\ minting' = [minting EXCEPT !.by = NoRead]
        BY <1>5, <3>1 DEF MintFails
      <4>2. "close" \in Stations BY DEF Stations
      <4>3. TaskStops(t) BY <1>0, <4>1, <4>2, OnToEffect DEF TaskStops
      <4>. QED BY <1>0, <1>1, <4>1, <4>3, AllDropped
    <3>2. CASE t # Keeper
      <4>1. Released(t) BY <1>5, <3>2 DEF MintFails
      <4>. QED BY <1>0, <4>1, ReleasedEffect DEF LockDropped
    <3>. QED BY <3>1, <3>2
  <2>2. IbkrInv' BY <1>1, <1>2, <1>3, <2>1, StopStep
  <2>. QED BY <1>0, <1>1, <2>1, <2>2, QuietTask DEF TaskStops
<1>. QED BY <1>4, <1>5

LEMMA SlotIsReserved ==
  ASSUME IbkrInv, NEW t \in Tasks, Reserve(t)
  PROVE  IbkrInv' /\ StepIsPaced
<1>0. IbkrTypes /\ MintLockInv /\ PaceInv /\ OpenInv BY DEF IbkrInv
<1>1. read[t].at \in {"reserve", "reserve_mint"} /\ UNCHANGED <<token, sends, atIbkr>>
  BY DEF Reserve
<1>2. CASE pacer.blocked > 0 \/ SlotAt(t) > QueueLimit
  <2>1. Fails(t) /\ pacer' = pacer BY <1>2 DEF Reserve
  <2>. QED BY <1>0, <1>1, <2>1, SamePacer, FailStep
<1>3. CASE ~(pacer.blocked > 0 \/ SlotAt(t) > QueueLimit)
  <2>1. PICK at \in {"slot", "mint_slot"} :
          at = (IF ReadAt(t, "reserve") THEN "slot" ELSE "mint_slot")
    OBVIOUS
  <2>gap. PICK a : a = (IF read[t].job = "accounts" /\ ReadAt(t, "reserve")
                       THEN SlotAt(t) + AccountsGap ELSE pacer.accounts)
    OBVIOUS
  <2>2. SlotAt(t) \in Nat /\ SlotAt(t) >= pacer.next /\ pacer.next \in Nat
    BY <1>0 DEF SlotAt, Later, IbkrTypes
  <2>3. a \in Nat BY <1>0, <2>2, <2>gap, IbkrFacts DEF IbkrTypes
  <2>4. PICK r : r = [read[t] EXCEPT !.slot = SlotAt(t), !.at = at] OBVIOUS
  <2>5. /\ r \in TaskRecord /\ r.at = at /\ r.slot = SlotAt(t) /\ r.stage = read[t].stage
        /\ r.gen = read[t].gen /\ r.seen = read[t].seen
    <3>1. read[t] \in TaskRecord /\ at \in Stations BY <1>0, <2>1, TaskTyped DEF Stations
    <3>. QED BY <2>2, <2>4, <3>1 DEF TaskRecord
  <2>6. read' = [read EXCEPT ![t] = r] BY <1>3, <2>1, <2>4 DEF Reserve
  <2>7. read' \in [Tasks -> TaskRecord] /\ read'[t] = r /\ OthersStay(t)
    BY <1>0, <2>5, <2>6, OneTask
  <2>8. /\ pacer'.next = SlotAt(t) + 1 /\ pacer' \in [next : Nat, accounts : Nat, blocked : Nat]
    <3>1. pacer' = [pacer EXCEPT !.next = SlotAt(t) + 1, !.accounts = a]
      BY <1>3, <2>gap DEF Reserve
    <3>2. pacer \in [next : Nat, accounts : Nat, blocked : Nat] BY <1>0 DEF IbkrTypes
    <3>3. PICK n \in Nat : n = SlotAt(t) + 1 BY <2>2
    <3>4. pacer' = [pacer EXCEPT !.next = n, !.accounts = a] BY <3>1, <3>3
    <3>5. pacer'.next = n /\ pacer' \in [next : Nat, accounts : Nat, blocked : Nat]
      BY ONLY <2>3, <3>2, <3>4, n \in Nat
    <3>. QED BY <3>3, <3>5
  <2>9. UNCHANGED <<minting, brokerage>> BY <1>3 DEF Reserve
  <2>10. MintLockInv' BY <1>0, <1>1, <2>1, <2>5, <2>7, <2>9, MintLockStays
  <2>11. \A u \in Tasks : u # t => read'[u] = read[u] /\ read[u].slot \in Nat
    BY <1>0, <2>7, TaskTyped DEF OthersStay
  <2>12. PaceInv'
    <3>1. \A u \in Tasks : WaitsForSlot(u)' => read'[u].slot < pacer'.next
      BY <1>0, <2>2, <2>5, <2>7, <2>8, <2>11 DEF PaceInv, WaitsForSlot
    <3>2. \A u, v \in Tasks : WaitsForSlot(u)' /\ WaitsForSlot(v)'
            /\ read'[u].slot = read'[v].slot => u = v
      BY <1>0, <2>2, <2>5, <2>7, <2>11 DEF PaceInv, WaitsForSlot
    <3>3. NoneIsDue => NoneIsDue'
      BY <2>2, <2>5, <2>7, <2>8, <2>11 DEF NoneIsDue, WaitsForSlot
    <3>4. \A u \in Tasks : read'[u].at = "mint" => u # t /\ read[u].at = "mint"
      BY <2>1, <2>5, <2>7, <2>11
    <3>5. MintIsFree' => MintIsFree BY <2>9 DEF MintIsFree
    <3>. QED BY <1>0, <1>1, <3>1, <3>2, <3>3, <3>4, <3>5 DEF PaceInv
  <2>13. OpenInv'
    <3>1. at = "slot" => read[t].at = "reserve" BY <2>1 DEF ReadAt
    <3>. QED BY <1>0, <1>1, <2>1, <2>5, <2>7, <2>9, <3>1, OpenMoves
  <2>14. IbkrTypes' BY <1>0, <1>1, <2>7, <2>8, <2>9 DEF IbkrTypes
  <2>15. StepIsPaced BY <1>0, <1>1, <2>1, <2>5, <2>7, QuietTask
  <2>. QED BY <2>10, <2>12, <2>13, <2>14, <2>15 DEF IbkrInv
<1>. QED BY <1>2, <1>3

LEMMA SlotHasCome ==
  ASSUME IbkrInv, NEW t \in Tasks, SlotComes(t)
  PROVE  IbkrInv' /\ StepIsPaced
<1>0. IbkrTypes /\ MintLockInv /\ PaceInv /\ OpenInv BY DEF IbkrInv
<1>1. WaitsForSlot(t) /\ read[t].slot = 0 /\ UNCHANGED <<token, pacer, atIbkr>>
  BY DEF SlotComes, SlotDue, WaitsForSlot
<1>2. CASE pacer.blocked > 0
  BY <1>0, <1>1, <1>2, SamePacer, FailStep DEF SlotComes, WaitsForSlot
<1>3. CASE ~(pacer.blocked > 0)
  <2>1. PICK at \in {"sent", "mint"} :
          /\ OnTo(t, at)
          /\ at = "sent" => sends' = sends + 1 /\ read[t].at = "slot"
          /\ at = "mint" => sends' = sends /\ read[t].at # "slot"
    <3>1. sends \in {0, 1} BY <1>0 DEF IbkrTypes
    <3>. QED BY <1>3, <3>1 DEF SlotComes, ReadAt
  <2>2. UNCHANGED <<minting, brokerage>> BY <1>3 DEF SlotComes
  <2>3. at \in Stations BY <2>1 DEF Stations
  <2>4. /\ read' \in [Tasks -> TaskRecord] /\ OthersStay(t) /\ read'[t].at = at
        /\ read'[t].stage = read[t].stage /\ read'[t].gen = read[t].gen
        /\ read'[t].seen = read[t].seen
    BY <1>0, <2>1, <2>3, OnToEffect
  <2>5. sends = 0 /\ pacer.next > 0
    <3>1. read[t].slot < pacer.next /\ (sends # 0 => NoneIsDue) BY <1>0, <1>1 DEF PaceInv
    <3>. QED BY <1>1, <3>1 DEF NoneIsDue
  <2>6. \A u \in Tasks : WaitsForSlot(u)' =>
          u # t /\ WaitsForSlot(u) /\ read'[u].slot = read[u].slot
    BY <2>1, <2>4 DEF WaitsForSlot, OthersStay
  <2>7. NoneIsDue'
    <3>1. \A u \in Tasks : WaitsForSlot(u)' => read'[u].slot # 0
      BY <1>0, <1>1, <2>6 DEF PaceInv
    <3>. QED BY <1>1, <2>5, <3>1 DEF NoneIsDue
  <2>8. PaceInv'
    <3>1. MintIsFree => \A u \in Tasks : read[u].at # "mint"
      BY <1>0, <1>1 DEF PaceInv, NoneIsDue
    <3>2. MintIsFree' => MintIsFree BY <2>2 DEF MintIsFree
    <3>3. \A u \in Tasks : read'[u].at = "mint" /\ MintIsFree' =>
            sends' = 0 /\ \A v \in Tasks : read'[v].at = "mint" => v = u
      BY <2>1, <2>4, <2>5, <3>1, <3>2 DEF OthersStay
    <3>. QED BY <1>0, <1>1, <2>6, <2>7, <3>3 DEF PaceInv
  <2>9. MintLockInv'
    BY <1>0, <1>1, <2>1, <2>2, <2>4, MintLockStays DEF WaitsForSlot
  <2>10. OpenInv'
    <3>1. read'[t].at \in {"reserve", "slot", "sent"} => read[t].at = "slot" BY <2>1, <2>4
    <3>. QED BY <1>0, <1>1, <2>2, <2>4, <3>1, OpenMoves
  <2>11. sends' \in {0, 1} BY <2>1, <2>5
  <2>12. IbkrTypes' BY <1>0, <1>1, <2>2, <2>4, <2>11 DEF IbkrTypes
  <2>13. StepIsPaced
    <3>1. pacer.blocked = 0
      <4>1. pacer.blocked \in Nat BY <1>0 DEF IbkrTypes
      <4>. QED BY <1>3, <4>1
    <3>2. \A u \in Tasks : read'[u].at = "minting" => read[u].at = "minting"
      BY <2>1, <2>4 DEF OthersStay
    <3>3. IsPaced BY <2>5, <3>1, <3>2 DEF IsPaced, ReadAt
    <3>4. token.life \in Nat BY <1>0 DEF IbkrTypes
    <3>5. RejectsItsOwn BY <1>1, <3>4 DEF RejectsItsOwn
    <3>. QED BY <3>3, <3>5 DEF StepIsPaced
  <2>. QED BY <2>8, <2>9, <2>10, <2>12, <2>13 DEF IbkrInv
<1>. QED BY <1>2, <1>3

LEMMA RequestIsRefused ==
  ASSUME IbkrInv, NEW t \in Tasks, NEW limited \in BOOLEAN, Refused(t, limited)
  PROVE  IbkrInv' /\ StepIsPaced
<1>0. IbkrTypes BY DEF IbkrInv
<1>1. /\ read[t].at # "minting" /\ Fails(t) /\ UNCHANGED <<token, sends, atIbkr>>
      /\ pacer' = IF limited THEN [pacer EXCEPT !.blocked = Backoff] ELSE pacer
  BY DEF Refused, ReadAt
<1>. QED BY <1>0, <1>1, PacerEffect, FailStep

\* 401: the token that signed the request ends, if it is still the current one.
LEMMA TokenIsRefused ==
  ASSUME IbkrInv, NEW t \in Tasks, Unauthorized(t)
  PROVE  IbkrInv' /\ StepIsPaced
<1>0. IbkrTypes /\ MintLockInv BY DEF IbkrInv
<1>1. /\ read[t].at = "sent" /\ Fails(t) /\ UNCHANGED <<pacer, sends, atIbkr>>
      /\ token' = IF token.gen = read[t].gen THEN [token EXCEPT !.life = 0] ELSE token
  BY DEF Unauthorized, ReadAt
<1>2. TaskStops(t) /\ minting' = minting BY <1>0, <1>1, FailsEffect
<1>3. LockDropped(t) BY <1>0, <1>1, <1>2, NothingDropped
<1>4. TokenTyped /\ token'.gen = token.gen BY <1>0, <1>1 DEF IbkrTypes, TokenTyped
<1>5. PacerBlocked BY <1>0, <1>1, SamePacer
<1>6. IbkrInv' BY <1>1, <1>2, <1>3, <1>4, <1>5, StopStep
<1>7. IsPaced
  <2>1. \A u \in Tasks : read'[u].at = "minting" => read[u].at = "minting"
    BY <1>2 DEF TaskStops, OthersStay
  <2>2. ~(sends' > sends) BY <1>0, <1>1 DEF IbkrTypes
  <2>. QED BY <2>1, <2>2 DEF IsPaced, ReadAt
<1>8. RejectsItsOwn
  <2>1. CASE token.gen = read[t].gen BY <1>1, <2>1 DEF RejectsItsOwn
  <2>2. CASE token.gen # read[t].gen
    <3>1. token' = token /\ token.life \in Nat BY <1>0, <1>1, <2>2 DEF IbkrTypes
    <3>. QED BY <3>1 DEF RejectsItsOwn
  <2>. QED BY <2>1, <2>2
<1>. QED BY <1>6, <1>7, <1>8 DEF StepIsPaced

LEMMA DeadlinePasses ==
  ASSUME IbkrInv, NEW t \in Tasks, Released(t), UNCHANGED <<token, pacer, sends, atIbkr>>
  PROVE  IbkrInv' /\ StepIsPaced
<1>0. IbkrTypes BY DEF IbkrInv
<1>1. TaskStops(t) /\ LockDropped(t) BY <1>0, ReleasedEffect DEF LockDropped
<1>2. TokenTyped /\ token'.gen = token.gen BY <1>0, SameToken
<1>3. PacerBlocked BY <1>0, SamePacer
<1>4. IbkrInv' BY <1>1, <1>2, <1>3, StopStep
<1>. QED BY <1>0, <1>1, <1>4, QuietTask DEF TaskStops

\* A task that is not at the pacer or the mint, before and after the step.
LEMMA TaskGoesOn ==
  ASSUME IbkrInv, NEW t \in Tasks, NEW r \in TaskRecord, read' = [read EXCEPT ![t] = r],
         read[t].at # "minting", r.at \notin {"slot", "mint_slot", "mint", "minting"},
         UNCHANGED <<token, minting, pacer, sends>>,
         brokerage' \in [for : Nat, by : Reads \cup {NoRead}], atIbkr' \in Nat,
         \/ brokerage' = brokerage /\ atIbkr' = atIbkr
         \/ brokerage.by \in {t, NoRead},
         brokerage'.for <= atIbkr', atIbkr' <= token.gen,
         read'[t] = r => TaskOpen(t)'
  PROVE  IbkrInv' /\ StepIsPaced
<1>0. IbkrTypes /\ MintLockInv /\ PaceInv /\ OpenInv BY DEF IbkrInv
<1>1. read' \in [Tasks -> TaskRecord] /\ read'[t] = r /\ OthersStay(t) BY <1>0, OneTask
<1>2. MintLockInv' BY <1>0, <1>1, MintLockStays
<1>3. PaceInv' BY <1>0, <1>1, PaceStays DEF MintIsFree
<1>4. token.gen \in Nat BY <1>0 DEF IbkrTypes
<1>5. \A u \in Tasks : u # t => TaskOpen(u)' BY <1>0, <1>1, <1>4, OthersOpen
<1>6. OpenInv' BY <1>1, <1>5, OpenByParts
<1>7. IbkrTypes' BY <1>0, <1>1 DEF IbkrTypes
<1>8. StepIsPaced BY <1>0, <1>1, QuietTask
<1>. QED BY <1>2, <1>3, <1>6, <1>7, <1>8 DEF IbkrInv

\* The knowledge a task has, as far as these steps need it.
LEMMA TaskKnows ==
  ASSUME IbkrInv, NEW t \in Tasks
  PROVE  /\ TaskOpen(t) /\ read[t] \in TaskRecord /\ token.gen \in Nat /\ atIbkr \in Nat
         /\ brokerage \in [for : Nat, by : Reads \cup {NoRead}]
         /\ brokerage.for <= atIbkr /\ atIbkr <= token.gen
BY TaskTyped DEF IbkrInv, IbkrTypes, OpenInv

LEMMA AnswerComes ==
  ASSUME IbkrInv, NEW t \in Tasks, IbkrAnswers(t)
  PROVE  IbkrInv' /\ StepIsPaced
<1>0. /\ TaskOpen(t) /\ read[t] \in TaskRecord /\ token.gen \in Nat /\ atIbkr \in Nat
      /\ brokerage \in [for : Nat, by : Reads \cup {NoRead}]
      /\ brokerage.for <= atIbkr /\ atIbkr <= token.gen
  BY TaskKnows
<1>1. read[t].at = "sent" /\ UNCHANGED <<token, pacer, sends>> BY DEF IbkrAnswers, ReadAt
<1>2. CASE /\ read[t].stage = "init" /\ atIbkr' = read[t].gen /\ brokerage' = brokerage
           /\ minting' = minting
           /\ read' = [read EXCEPT ![t].at = "token", ![t].stage = "accounts", ![t].gen = 0]
  <2>1. /\ brokerage.by = t /\ read[t].seen <= read[t].gen /\ read[t].gen <= token.gen
        /\ brokerage.for <= read[t].gen /\ read[t].seen <= token.gen
    BY <1>0, <1>1, <1>2 DEF TaskOpen
  <2>2. PICK r : r = [read[t] EXCEPT !.at = "token", !.stage = "accounts", !.gen = 0] OBVIOUS
  <2>3. /\ r \in TaskRecord /\ r.at = "token" /\ r.stage = "accounts" /\ r.seen = read[t].seen
        /\ read[t].gen \in Nat
    BY <1>0, <2>2 DEF TaskRecord, Stations, Stages
  <2>4. read' = [read EXCEPT ![t] = r] BY <1>2, <2>2
  <2>5. ASSUME read'[t] = r PROVE TaskOpen(t)' BY <1>1, <1>2, <2>1, <2>3, <2>5 DEF TaskOpen
  <2>6. brokerage'.for <= atIbkr' /\ atIbkr' <= token.gen /\ atIbkr' \in Nat BY <1>2, <2>1, <2>3
  <2>. QED BY <1>0, <1>1, <1>2, <2>1, <2>3, <2>4, <2>5, <2>6, TaskGoesOn
<1>3. CASE /\ read[t].stage = "accounts" /\ atIbkr' = atIbkr /\ minting' = minting
           /\ brokerage' = [for |-> read[t].seen, by |-> NoRead]
           /\ read' = [read EXCEPT ![t].at = "token", ![t].stage = "data", ![t].gen = 0,
                                   ![t].seen = 0]
  <2>1. brokerage.by = t /\ read[t].seen <= atIbkr BY <1>0, <1>3 DEF TaskOpen
  <2>2. PICK r : r = [read[t] EXCEPT !.at = "token", !.stage = "data", !.gen = 0, !.seen = 0]
    OBVIOUS
  <2>3. /\ r \in TaskRecord /\ r.at = "token" /\ r.stage = "data" /\ read[t].seen \in Nat
    BY <1>0, <2>2 DEF TaskRecord, Stations, Stages
  <2>4. read' = [read EXCEPT ![t] = r] BY <1>3, <2>2
  <2>5. ASSUME read'[t] = r PROVE TaskOpen(t)' BY <2>3, <2>5 DEF TaskOpen
  <2>6. /\ brokerage'.for = read[t].seen
        /\ brokerage' \in [for : Nat, by : Reads \cup {NoRead}]
    BY <1>3, <2>3
  <2>7. /\ UNCHANGED <<token, minting, pacer, sends>> /\ read[t].at # "minting"
        /\ r.at \notin {"slot", "mint_slot", "mint", "minting"} /\ brokerage.by \in {t, NoRead}
    BY <1>1, <1>3, <2>1, <2>3
  <2>8. atIbkr' \in Nat /\ brokerage'.for <= atIbkr' /\ atIbkr' <= token.gen
    BY <1>0, <1>3, <2>1, <2>6
  <2>. QED BY <2>3, <2>4, <2>5, <2>6, <2>7, <2>8, TaskGoesOn
<1>4. CASE /\ atIbkr' = atIbkr /\ UNCHANGED <<minting, brokerage>> /\ read[t].stage = "data"
           /\ read' = [read EXCEPT ![t].at = "token", ![t].gen = 0]
  <2>1. PICK r : r = [read[t] EXCEPT !.at = "token", !.gen = 0] OBVIOUS
  <2>2. r \in TaskRecord /\ r.at = "token" /\ r.stage = read[t].stage
    BY <1>0, <2>1 DEF TaskRecord, Stations
  <2>3. read' = [read EXCEPT ![t] = r] BY <1>4, <2>1
  <2>4. ASSUME read'[t] = r PROVE TaskOpen(t)' BY <1>4, <2>2, <2>4 DEF TaskOpen
  <2>. QED BY <1>0, <1>1, <1>4, <2>2, <2>3, <2>4, TaskGoesOn
<1>5. CASE Released(t) /\ atIbkr' = atIbkr BY <1>1, <1>5, DeadlinePasses
<1>. QED BY <1>2, <1>3, <1>4, <1>5 DEF IbkrAnswers

\* The keep-alive, before and after its request.
LEMMA KeeperGoesOn ==
  ASSUME IbkrInv, KeepAlive \/ Tickle \/ \E alive \in BOOLEAN : Tickled(alive)
  PROVE  IbkrInv' /\ StepIsPaced
<1>0. /\ Keeper \in Tasks /\ TaskOpen(Keeper) /\ read[Keeper] \in TaskRecord
      /\ token.gen \in Nat /\ atIbkr \in Nat
      /\ brokerage \in [for : Nat, by : Reads \cup {NoRead}]
      /\ brokerage.for <= atIbkr /\ atIbkr <= token.gen
  BY TaskKnows, IbkrFacts
<1>1. UNCHANGED <<token, minting, brokerage, pacer, sends, atIbkr>>
  BY DEF KeepAlive, Tickle, Tickled
<1>2. read[Keeper].at # "minting" BY DEF KeepAlive, Tickle, Tickled, ReadAt
<1>stage. read[Keeper].stage = "data"
  <2>1. brokerage.by \in Reads \cup {NoRead} BY <1>0
  <2>2. brokerage.by # Keeper BY <2>1, IbkrAssumption
  <2>. QED BY <1>0, <2>2 DEF TaskOpen
<1>3. PICK r \in TaskRecord :
        /\ read' = [read EXCEPT ![Keeper] = r] /\ r.at \in {"tickle", "token", "idle", "close"}
        /\ r.stage = "data"
  <2>1. CASE KeepAlive
    <3>1. PICK r : r = [NotReading EXCEPT !.at = "tickle", !.seen = brokerage.for] OBVIOUS
    <3>2. r \in TaskRecord /\ r.at = "tickle" /\ r.stage = "data"
      BY <1>0, <3>1 DEF NotReading, TaskRecord, Stations, Stages
    <3>. QED BY <2>1, <3>1, <3>2 DEF KeepAlive
  <2>2. CASE Tickle
    <3>1. PICK r : r = [read[Keeper] EXCEPT !.at = "token", !.noted = brokerage.for] OBVIOUS
    <3>2. r \in TaskRecord /\ r.at = "token" /\ r.stage = "data"
      BY <1>0, <1>stage, <3>1 DEF TaskRecord, Stations
    <3>. QED BY <2>2, <3>1, <3>2 DEF Tickle
  <2>3. CASE Tickled(TRUE)
    <3>1. read' = [read EXCEPT ![Keeper] = NotReading] BY <2>3 DEF Tickled
    <3>. QED BY <3>1, NotReadingTyped
  <2>4. CASE Tickled(FALSE)
    <3>1. PICK r : r = [read[Keeper] EXCEPT !.at = "close", !.seen = read[Keeper].noted] OBVIOUS
    <3>2. r \in TaskRecord /\ r.at = "close" /\ r.stage = "data"
      BY <1>0, <1>stage, <3>1 DEF TaskRecord, Stations
    <3>. QED BY <2>4, <3>1, <3>2 DEF Tickled
  <2>. QED BY <2>1, <2>2, <2>3, <2>4
<1>4. ASSUME read'[Keeper] = r PROVE TaskOpen(Keeper)' BY <1>3, <1>4 DEF TaskOpen
<1>. QED BY <1>0, <1>1, <1>2, <1>3, <1>4, TaskGoesOn

LEMMA BrokerageIsClosed ==
  ASSUME IbkrInv, CloseBrokerage
  PROVE  IbkrInv' /\ StepIsPaced
<1>0. /\ Keeper \in Tasks /\ token.gen \in Nat /\ atIbkr \in Nat
      /\ brokerage \in [for : Nat, by : Reads \cup {NoRead}]
      /\ brokerage.for <= atIbkr /\ atIbkr <= token.gen
  BY TaskKnows, IbkrFacts
<1>1. /\ read[Keeper].at = "close" /\ brokerage.by = NoRead
      /\ read' = [read EXCEPT ![Keeper] = NotReading]
      /\ UNCHANGED <<token, minting, pacer, sends, atIbkr>>
  BY DEF CloseBrokerage, BrokerageClosed, ReadAt
<1>2. PICK n : n = (IF brokerage.for = read[Keeper].seen THEN 0 ELSE brokerage.for) OBVIOUS
<1>3. n \in Nat /\ n <= atIbkr BY <1>0, <1>2
<1>4. brokerage' = [brokerage EXCEPT !.for = n]
  BY <1>2 DEF CloseBrokerage, BrokerageClosed
<1>5. brokerage'.for = n /\ brokerage' \in [for : Nat, by : Reads \cup {NoRead}]
  BY <1>0, <1>3, <1>4
<1>6. ASSUME read'[Keeper] = NotReading PROVE TaskOpen(Keeper)'
  BY <1>6, NotReadingTyped DEF TaskOpen
<1>. QED BY <1>0, <1>1, <1>3, <1>5, <1>6, NotReadingTyped, TaskGoesOn

LEMMA ReadBegins ==
  ASSUME IbkrInv, NEW t \in Reads, NEW job \in {"accounts", "market"}, ReadConnects(t, job)
  PROVE  IbkrInv' /\ StepIsPaced
<1>0. /\ t \in Tasks /\ token.gen \in Nat /\ atIbkr \in Nat
      /\ brokerage \in [for : Nat, by : Reads \cup {NoRead}]
      /\ brokerage.for <= atIbkr /\ atIbkr <= token.gen
  BY TaskKnows, IbkrFacts
<1>1. /\ read[t].at = "idle" /\ UNCHANGED <<token, minting, brokerage, pacer, sends, atIbkr>>
  BY DEF ReadConnects, ReadAt
<1>2. PICK at \in {"brokerage", "token"} : at = (IF job = "market" THEN "brokerage" ELSE "token")
  OBVIOUS
<1>3. PICK r : r = [NotReading EXCEPT !.job = job, !.at = at] OBVIOUS
<1>4. r \in TaskRecord /\ r.at = at /\ r.stage = "data"
  BY <1>2, <1>3 DEF NotReading, TaskRecord, Stations, Stages
<1>5. read' = [read EXCEPT ![t] = r] BY <1>2, <1>3 DEF ReadConnects
<1>6. ASSUME read'[t] = r PROVE TaskOpen(t)' BY <1>4, <1>6 DEF TaskOpen
<1>. QED BY <1>0, <1>1, <1>2, <1>4, <1>5, <1>6, TaskGoesOn

LEMMA BrokerageIsLocked ==
  ASSUME IbkrInv, NEW t \in Reads, LockBrokerage(t)
  PROVE  IbkrInv' /\ StepIsPaced
<1>0. /\ t \in Tasks /\ read[t] \in TaskRecord /\ token.gen \in Nat /\ atIbkr \in Nat
      /\ brokerage \in [for : Nat, by : Reads \cup {NoRead}]
      /\ brokerage.for <= atIbkr /\ atIbkr <= token.gen
  BY TaskKnows, IbkrFacts
<1>1. /\ read[t].at = "brokerage" /\ brokerage.by = NoRead
      /\ brokerage' = [brokerage EXCEPT !.by = t]
      /\ UNCHANGED <<token, minting, pacer, sends, atIbkr>>
  BY DEF LockBrokerage, ReadAt
<1>2. /\ brokerage'.for = brokerage.for /\ brokerage'.by = t
      /\ brokerage' \in [for : Nat, by : Reads \cup {NoRead}]
  BY <1>0, <1>1
<1>3. PICK r : r = [read[t] EXCEPT !.at = "token", !.stage = "check"] OBVIOUS
<1>4. r \in TaskRecord /\ r.at = "token" /\ r.stage = "check"
  BY <1>0, <1>3 DEF TaskRecord, Stations, Stages
<1>5. read' = [read EXCEPT ![t] = r] BY <1>3 DEF LockBrokerage
<1>6. ASSUME read'[t] = r PROVE TaskOpen(t)' BY <1>2, <1>4, <1>6 DEF TaskOpen
<1>. QED BY <1>0, <1>1, <1>2, <1>4, <1>5, <1>6, TaskGoesOn

LEMMA IbkrInvStarts == IbkrStart /\ sends = 0 /\ atIbkr = 0 => IbkrInv
<1>1. SUFFICES ASSUME IbkrStart, sends = 0, atIbkr = 0 PROVE IbkrInv OBVIOUS
<1>2. \A t \in Tasks : read[t] = NotReading BY <1>1 DEF IbkrStart
<1>3. /\ token.gen = 0 /\ token.life = 0 /\ minting.wait = 0 /\ minting.by = NoRead
      /\ brokerage.for = 0 /\ brokerage.by = NoRead
  BY <1>1 DEF IbkrStart
<1>4. IbkrTypes BY <1>1, <1>3, NotReadingTyped DEF IbkrStart, IbkrTypes
<1>5. MintLockInv BY <1>2, <1>3, NotReadingTyped, IbkrFacts DEF MintLockInv
<1>6. PaceInv BY <1>1, <1>2, NotReadingTyped DEF PaceInv, WaitsForSlot
<1>7. OpenInv BY <1>1, <1>2, <1>3, NotReadingTyped DEF OpenInv, TaskOpen
<1>. QED BY <1>4, <1>5, <1>6, <1>7 DEF IbkrInv

\* A restart is a beginning.
LEMMA BrokerStartsAgain ==
  ASSUME IbkrInv, BrokerRestarts
  PROVE  IbkrInv' /\ StepIsPaced
<1>0. IbkrTypes BY DEF IbkrInv
<1>1. \A t \in Tasks : read'[t] = NotReading BY DEF BrokerRestarts
<1>2. /\ token'.gen = 0 /\ token'.life = 0 /\ minting'.wait = 0 /\ minting'.by = NoRead
      /\ brokerage'.for = 0 /\ brokerage'.by = NoRead /\ sends' = 0 /\ atIbkr' = 0
  BY DEF BrokerRestarts
<1>3. IbkrTypes' BY <1>2, NotReadingTyped DEF BrokerRestarts, IbkrTypes
<1>4. MintLockInv' BY <1>1, <1>2, NotReadingTyped, IbkrFacts DEF MintLockInv
<1>5. PaceInv' BY <1>1, <1>2, NotReadingTyped DEF PaceInv, WaitsForSlot
<1>6. OpenInv' BY <1>1, <1>2, NotReadingTyped DEF OpenInv, TaskOpen
<1>7. IsPaced
  <2>1. ~(sends' > sends) BY <1>0, <1>2 DEF IbkrTypes
  <2>. QED BY <1>1, <2>1, NotReadingTyped DEF IsPaced
<1>8. RejectsItsOwn
  <2>1. token.gen = 0 => token.life = 0 BY <1>0 DEF IbkrTypes
  <2>. QED BY <1>2, <2>1 DEF RejectsItsOwn
<1>. QED BY <1>3, <1>4, <1>5, <1>6, <1>7, <1>8 DEF IbkrInv, StepIsPaced

LEMMA LessFacts ==
  ASSUME NEW n \in Nat
  PROVE  /\ Less(n) \in Nat /\ Less(n) <= n /\ (n # 0 => Less(n) = n - 1)
         /\ (n > 1 => Less(n) > 0)
BY DEF Less

\* A tick: nobody's slot is due, no mint can start, and a handshake ends before its
\* cooldown does.
LEMMA TimeGoesOn ==
  ASSUME IbkrInv, GapPasses
  PROVE  IbkrInv' /\ StepIsPaced
<1>0. IbkrTypes /\ MintLockInv /\ PaceInv /\ OpenInv BY DEF IbkrInv
<1>1. /\ \A t \in Tasks : WaitsForSlot(t) => read[t].slot # 0
      /\ \A t \in Tasks : ~(read[t].at = "mint" /\ minting.by = NoRead)
      /\ minting.by # NoRead => minting.wait > MintCooldown - MintLimit
      /\ sends' = 0 /\ brokerage' = brokerage /\ atIbkr' = atIbkr
  BY DEF GapPasses, SlotDue, WaitsForSlot, ReadAt
<1>2. /\ token' \in [gen : Nat, life : Nat] /\ token'.gen = token.gen
      /\ token'.life = Less(token.life) /\ token.life \in Nat /\ token.gen \in Nat
  <2>1. token \in [gen : Nat, life : Nat] /\ token.life \in Nat BY <1>0 DEF IbkrTypes
  <2>2. PICK n \in Nat : n = Less(token.life) BY <2>1, LessFacts
  <2>3. token' = [token EXCEPT !.life = n] BY <2>2 DEF GapPasses
  <2>. QED BY <2>1, <2>2, <2>3
<1>3. /\ minting' \in [wait : Nat, by : Tasks \cup {NoRead}] /\ minting'.by = minting.by
      /\ minting'.wait = Less(minting.wait) /\ minting.wait \in Nat
  <2>1. minting \in [wait : Nat, by : Tasks \cup {NoRead}] /\ minting.wait \in Nat
    BY <1>0 DEF IbkrTypes
  <2>2. PICK n \in Nat : n = Less(minting.wait) BY <2>1, LessFacts
  <2>3. minting' = [minting EXCEPT !.wait = n] BY <2>2 DEF GapPasses
  <2>. QED BY <2>1, <2>2, <2>3
<1>4. /\ pacer' \in [next : Nat, accounts : Nat, blocked : Nat] /\ pacer.next \in Nat
      /\ pacer'.next = Less(pacer.next)
  <2>1. pacer.next \in Nat /\ pacer.accounts \in Nat /\ pacer.blocked \in Nat
    BY <1>0 DEF IbkrTypes
  <2>2. /\ Less(pacer.next) \in Nat /\ Less(pacer.accounts) \in Nat
        /\ Less(pacer.blocked) \in Nat
    BY <2>1, LessFacts
  <2>. QED BY <2>1, <2>2 DEF GapPasses
<1>5. ASSUME NEW t \in Tasks
      PROVE  /\ read'[t] \in TaskRecord /\ read'[t].at = read[t].at
             /\ read'[t].stage = read[t].stage /\ read'[t].gen = read[t].gen
             /\ read'[t].seen = read[t].seen /\ read'[t].slot = Less(read[t].slot)
             /\ read[t].slot \in Nat
  <2>1. read[t] \in TaskRecord /\ read[t].slot \in Nat BY <1>0, TaskTyped
  <2>2. PICK n \in Nat : n = Less(read[t].slot) BY <2>1, LessFacts
  <2>3. read'[t] = [read[t] EXCEPT !.slot = n] BY <2>2 DEF GapPasses
  <2>. QED BY <2>1, <2>2, <2>3 DEF TaskRecord
<1>6. read' \in [Tasks -> TaskRecord]
  <2>1. read' = [t \in Tasks |-> read'[t]] BY DEF GapPasses
  <2>. QED BY <1>5, <2>1
<1>7. IbkrTypes'
  <2>1. token'.gen = 0 => token'.life = 0
    <3>1. token.gen = 0 => token.life = 0 BY <1>0 DEF IbkrTypes
    <3>. QED BY <1>2, <3>1 DEF Less
  <2>. QED BY <1>0, <1>1, <1>2, <1>3, <1>4, <1>6, <2>1 DEF IbkrTypes
<1>8. MintLockInv'
  <2>1. \A t \in Tasks : read'[t].at = "minting" <=> minting'.by = t
    BY <1>0, <1>3, <1>5 DEF MintLockInv
  <2>2. minting.by # NoRead => minting.wait > 1 BY <1>1, <1>3, IbkrFacts
  <2>3. minting'.by # NoRead => minting'.wait > 0 BY <1>3, <2>2, LessFacts
  <2>. QED BY <2>1, <2>3 DEF MintLockInv
<1>9. PaceInv'
  <2>1. ASSUME NEW t \in Tasks, WaitsForSlot(t)'
        PROVE  /\ WaitsForSlot(t) /\ read[t].slot \in Nat /\ read[t].slot # 0
               /\ read'[t].slot = read[t].slot - 1
    BY <1>1, <1>5, <2>1, LessFacts DEF WaitsForSlot
  <2>2. \A t \in Tasks : WaitsForSlot(t)' => read'[t].slot < pacer'.next
    <3>1. SUFFICES ASSUME NEW t \in Tasks, WaitsForSlot(t)' PROVE read'[t].slot < pacer'.next
      OBVIOUS
    <3>2. /\ read[t].slot < pacer.next /\ read[t].slot \in Nat /\ read[t].slot # 0
          /\ read'[t].slot = read[t].slot - 1
      BY <1>0, <2>1, <3>1 DEF PaceInv
    <3>3. pacer'.next = pacer.next - 1 BY <1>4, <3>2, LessFacts
    <3>. QED BY <1>4, <3>2, <3>3
  <2>3. \A t, u \in Tasks : WaitsForSlot(t)' /\ WaitsForSlot(u)'
          /\ read'[t].slot = read'[u].slot => t = u
    <3>1. SUFFICES ASSUME NEW t \in Tasks, NEW u \in Tasks, WaitsForSlot(t)', WaitsForSlot(u)',
                          read'[t].slot = read'[u].slot
                   PROVE  t = u
      OBVIOUS
    <3>2. read[t].slot = read[u].slot /\ WaitsForSlot(t) /\ WaitsForSlot(u)
      BY <2>1, <3>1
    <3>. QED BY <1>0, <3>2 DEF PaceInv
  <2>4. \A t \in Tasks : ~(read'[t].at = "mint" /\ MintIsFree')
    BY <1>1, <1>3, <1>5 DEF MintIsFree
  <2>. QED BY <1>1, <2>2, <2>3, <2>4 DEF PaceInv
<1>10. OpenInv'
  <2>1. \A t \in Tasks : TaskOpen(t)' BY <1>0, <1>1, <1>2, <1>5 DEF OpenInv, TaskOpen
  <2>. QED BY <1>0, <1>1, <1>2, <2>1 DEF OpenInv
<1>11. IsPaced
  <2>1. ~(sends' > sends) BY <1>0, <1>1 DEF IbkrTypes
  <2>. QED BY <1>5, <2>1 DEF IsPaced, ReadAt
<1>12. RejectsItsOwn
  <2>1. token.life > 1 => token'.life # 0 BY <1>2 DEF Less
  <2>. QED BY <2>1 DEF RejectsItsOwn
<1>. QED BY <1>7, <1>8, <1>9, <1>10, <1>11, <1>12 DEF IbkrInv, StepIsPaced

LEMMA IbkrStep ==
  ASSUME IbkrInv, IbkrNext
  PROVE  IbkrInv' /\ StepIsPaced
<1>1. ASSUME NEW t \in Tasks, TaskStep(t) PROVE IbkrInv' /\ StepIsPaced
  BY <1>1, TokenIsTaken, MintStarts, MintEnds, MintIsRefused, SlotIsReserved, SlotHasCome,
     AnswerComes, RequestIsRefused, TokenIsRefused
  DEF TaskStep
<1>2. ASSUME NEW t \in Reads, Deadline(t) PROVE IbkrInv' /\ StepIsPaced
  <2>1. t \in Tasks BY IbkrFacts
  <2>. QED BY <1>2, <2>1, DeadlinePasses DEF Deadline
<1>. QED
  BY <1>1, <1>2, ReadBegins, BrokerageIsLocked, KeeperGoesOn, BrokerageIsClosed, TimeGoesOn,
     BrokerStartsAgain
  DEF IbkrNext

LEMMA IbkrStutters ==
  ASSUME IbkrInv, UNCHANGED ibkrVars
  PROVE  IbkrInv'
<1>. USE DEF ibkrVars
<1>1. IbkrTypes' BY DEF IbkrInv, IbkrTypes
<1>2. MintLockInv' BY DEF IbkrInv, MintLockInv
<1>3. PaceInv' BY DEF IbkrInv, PaceInv, NoneIsDue, MintIsFree, WaitsForSlot
<1>4. OpenInv' BY DEF IbkrInv, OpenInv, TaskOpen
<1>. QED BY <1>1, <1>2, <1>3, <1>4 DEF IbkrInv

\* For any number of reads and any gaps, margins and cooldowns in which a handshake ends
\* before its cooldown: requests stay a gap apart and out of back-offs, mints a cooldown
\* apart, a 401 ends no token but its own, and the brokerage session is never taken to be
\* open for a newer token than the one IBKR opened it with.
THEOREM SessionIsSharedAlways == IbkrSpec => SessionIsShared
<1>1. IbkrInit => IbkrInv BY IbkrInvStarts DEF IbkrInit
<1>2. IbkrInv /\ [IbkrNext]_ibkrVars => IbkrInv' BY IbkrStep, IbkrStutters
<1>3. IbkrInv /\ [IbkrNext]_ibkrVars => [IsPaced /\ RejectsItsOwn]_ibkrVars
  BY IbkrStep DEF StepIsPaced
<1>4. IbkrInv => OpenIsOpen BY DEF IbkrInv, OpenInv, OpenIsOpen
<1>. QED BY <1>1, <1>2, <1>3, <1>4, PTL DEF IbkrSpec, SessionIsShared

=============================================================================
