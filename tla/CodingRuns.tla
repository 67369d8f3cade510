----------------------------- MODULE CodingRuns -----------------------------
(***************************************************************************)
(* Coding runs: the session and reservation routes (routes/coding.rs), the *)
(* reservation table (usage/coding_reservations.rs), the Codex broker      *)
(* (bin/jarvis-codex-broker.rs), and the tracked sandbox execution and its *)
(* one-shot relay (codex/lib.rs, codex/relay.rs, sandbox/lib.rs).          *)
(*                                                                         *)
(* One action is one call the code awaits: a statement of the database, a  *)
(* request to the sandbox manager, or the synchronous block between two of *)
(* them.  Workers, cancellations, admission and the maintenance loop       *)
(* interleave between those points, and the broker may die at any of them. *)
(* A run is named by the signed request that asked for it: the replay      *)
(* marker admits a request once and every run identifier is fresh.         *)
(*                                                                         *)
(* Durable: consumed, row, reservation, session, checkpoint, artifacts.    *)
(* At the manager: sandboxes.  The rest is the broker's memory.            *)
(* The production binary carries UnavailableSubscriptionAdapter, which     *)
(* refuses every run; the module is the broker with an adapter, as its     *)
(* tests run it.                                                           *)
(***************************************************************************)
EXTENDS Naturals, FiniteSets

CONSTANTS
  Sessions, Reservations,
  Runs,        \* signed requests, and the run each may become
  NoRun,
  RunSlots,    \* run_slots, 2 in the code
  MaxFaults    \* bound on crashes, worker deaths and failed calls

ASSUME CodingAssumption ==
  /\ NoRun \notin Runs
  /\ RunSlots \in Nat \ {0}
  /\ MaxFaults \in Nat

VARIABLES
  broker,       \* "down", "starting", "up"
  consumed,     \* replay markers
  pending,      \* authorised requests waiting for the reconcile lock
  adm,          \* the admission that holds the lock
  worker,       \* per run: where its worker is and what execution returned
  active,       \* registry of runs with a cancel sender
  cancelled,    \* runs whose cancel signal was sent
  stopping,     \* cancel handlers between the database and the signal
  capability,   \* RunCapabilityAuthority, per run
  healthy, epoch,
  rec,          \* the reconciliation under way
  row,          \* coding_runs
  reservation,  \* coding_reservations
  session,      \* coding_sessions.state
  checkpoint,   \* coding_sessions.checkpoint: the run that wrote it
  artifacts,    \* runs with a stored artifact directory
  sandboxes,    \* workloads alive at the manager
  turns,        \* provider turns each run has started
  faults

memory  == <<pending, adm, worker, active, cancelled, stopping, capability,
             healthy, epoch, rec>>
durable == <<consumed, row, reservation, session, checkpoint, artifacts>>
vars == <<broker, memory, durable, sandboxes, turns, faults>>

----------------------------------------------------------------------------
ActiveStatus   == {"queued", "preparing", "running", "cancelling"}
TerminalStatus == {"completed", "failed", "timed_out", "cancelled"}
Uncleaned == {"active", "cleanup_failed"}
Cleaned   == {"not_created", "terminated", "orphan_recovered"}
Results   == {"completed", "plan_limit", "failed", "timed_out"}

NoRow  == [status |-> "none", box |-> "not_created", named |-> FALSE,
           res |-> NoRun, session |-> NoRun]
NoAdm  == [at |-> "idle", req |-> NoRun]
NoRec  == [at |-> "idle", boot |-> FALSE, epoch |-> 0, owned |-> {},
           active |-> {}, rows |-> {}, leases |-> {}, cur |-> NoRun]
Asleep == [at |-> "none", result |-> "none"]

CodingInit ==
  /\ broker = "up"
  /\ consumed = {} /\ pending = {} /\ adm = NoAdm
  /\ worker = [r \in Runs |-> Asleep]
  /\ active = {} /\ cancelled = {} /\ stopping = {}
  /\ capability = [r \in Runs |-> "none"]
  /\ healthy = TRUE /\ epoch = 0 /\ rec = NoRec
  /\ row = [r \in Runs |-> NoRow]
  /\ reservation = [v \in Reservations |->
                      [status |-> "none", run |-> NoRun, session |-> NoRun]]
  /\ session = [s \in Sessions |-> "none"]
  /\ checkpoint = [s \in Sessions |-> NoRun]
  /\ artifacts = {} /\ sandboxes = {}
  /\ turns = [r \in Runs |-> 0] /\ faults = 0

\* A call either succeeds, or fails at the cost of one fault.
Call(ok) ==
  /\ ok \/ faults < MaxFaults
  /\ faults' = IF ok THEN faults ELSE faults + 1

\* What a statement leaves behind: a call that failed may have been refused,
\* or applied with its reply lost.
Applied(ok, old, new) == IF ok THEN {new} ELSE {old, new}

----------------------------------------------------------------------------
(* The reservation table and the run rows, as conditional updates.          *)

\* Fault: the lease is taken whatever the reservation's status.
LeaseReservationUnchecked(v, run, s) ==
  IF reservation[v].session = s
  THEN [reservation EXCEPT ![v].status = "leased", ![v].run = run]
  ELSE reservation

LeaseReservation(v, run, s) ==
  IF reservation[v].status = "reserved" /\ reservation[v].session = s
  THEN [reservation EXCEPT ![v].status = "leased", ![v].run = run]
  ELSE reservation

FinishReservation(v, run, success) ==
  IF reservation[v].status = "leased" /\ reservation[v].run = run
  THEN [reservation EXCEPT ![v].status =
          IF success THEN "settled" ELSE "released"]
  ELSE reservation

\* mark_run_finished: only an active run ends, only a running one completes,
\* and one being cancelled may only become cancelled.
MarkRunFinished(run, target) ==
  IF /\ row[run].status \in ActiveStatus
     /\ target = "completed" => row[run].status = "running"
     /\ target = "cancelled" \/ row[run].status # "cancelling"
  THEN [row EXCEPT ![run].status = target]
  ELSE row

\* DELETE at the manager, confirmed by listing: success means the workload is
\* gone; a failure leaves open whether it is.
Terminate(run, ok) ==
  \/ ok /\ sandboxes' = sandboxes \ {run}
  \/ ~ok /\ sandboxes' \in {sandboxes, sandboxes \ {run}}

\* Creation the caller did not see succeed: the manager may have the workload.
MayExist(run) == {sandboxes, sandboxes \cup {run}}

\* The manager's authenticated listing of this broker's workloads.
OwnedAtManager == sandboxes

RevokeRun(run) ==
  [capability EXCEPT ![run] = IF @ = "none" THEN @ ELSE "revoked"]

----------------------------------------------------------------------------
(* Sessions and reservations: the API process, which never stops here.      *)

CreateSession(s) ==
  /\ session[s] = "none"
  /\ session' = [session EXCEPT ![s] = "active"]
  /\ UNCHANGED <<broker, memory, consumed, row, reservation, checkpoint,
                 artifacts, sandboxes, turns, faults>>

ReserveRun(s, v) ==
  /\ session[s] \in {"active", "suspended"}
  /\ reservation[v].status = "none"
  /\ reservation' = [reservation EXCEPT ![v].status = "reserved",
                                        ![v].session = s]
  /\ UNCHANGED <<broker, memory, consumed, row, session, checkpoint,
                 artifacts, sandboxes, turns, faults>>

Lifecycle(s, state) ==
  /\ state \in {"suspended", "cancelled", "archived"}
  /\ session[s] \in {"active", "suspended", "completed", "cancelled"}
  /\ session' = [session EXCEPT ![s] = state]
  /\ UNCHANGED <<broker, memory, consumed, row, reservation, checkpoint,
                 artifacts, sandboxes, turns, faults>>

----------------------------------------------------------------------------
(* Admission: handle, validate_signature, start_run, admit_prepared_run.    *)

\* The device's signature, the pinned key and the policy pass, and the replay
\* marker of the request is not yet there.
Approved(run) == run \notin consumed

\* A signed request passes its checks and consumes its marker; it then waits
\* for the reconcile lock.  A resume names the checkpoint its device saw.
Authorize(run, s, v, resume) ==
  /\ broker = "up"
  /\ Approved(run)
  /\ session[s] # "none" /\ reservation[v].status # "none"
  /\ resume => checkpoint[s] # NoRun
  /\ consumed' = consumed \cup {run}
  /\ pending' = pending \cup {[run |-> run, session |-> s, res |-> v,
                               resume |-> resume, seen |-> checkpoint[s]]}
  /\ UNCHANGED <<broker, adm, worker, active, cancelled, stopping, capability,
                 healthy, epoch, rec, row, reservation, session, checkpoint,
                 artifacts, sandboxes, turns, faults>>

LockFree == adm.at = "idle" /\ rec.at \in {"idle", "lock", "publish"}
BusySlots == {r \in Runs : worker[r].at \notin {"none", "done"}}

\* start_run's gates and the session binding of prepare_signed_run.
Admissible(p) ==
  /\ healthy
  /\ Cardinality(BusySlots) < RunSlots
  /\ session[p.session] = IF p.resume THEN "suspended" ELSE "active"
  /\ p.resume => p.seen = checkpoint[p.session]

\* The lock is taken and the gates pass, or the request is denied; an
\* unavailable manager or an unreadable snapshot denies it too.
StartRun(p, ok) ==
  /\ p \in pending /\ LockFree
  /\ Call(ok)
  /\ pending' = pending \ {p}
  /\ adm' = IF ok /\ Admissible(p) THEN [at |-> "lease", req |-> p] ELSE NoAdm
  /\ UNCHANGED <<broker, worker, active, cancelled, stopping, capability,
                 healthy, epoch, rec, durable, sandboxes, turns>>

\* The conditional lease; expired says that its five minutes have passed.  A
\* lease whose reply is lost stays, for recovery to give back.
AdmitLease(expired, ok) ==
  LET p == adm.req
      granted == IF expired THEN reservation
                 ELSE LeaseReservation(p.res, p.run, p.session) IN
  /\ adm.at = "lease"
  /\ Call(ok)
  /\ reservation' \in Applied(ok, reservation, granted)
  /\ adm' = IF ok /\ granted # reservation THEN [adm EXCEPT !.at = "row"] ELSE NoAdm
  /\ UNCHANGED <<broker, pending, worker, active, cancelled, stopping,
                 capability, healthy, epoch, rec, consumed, row, session,
                 checkpoint, artifacts, sandboxes, turns>>

AdmitCreateRow(ok) ==
  LET p == adm.req IN
  /\ adm.at = "row"
  /\ Call(ok)
  /\ row' \in Applied(ok, row,
       [row EXCEPT ![p.run] = [NoRow EXCEPT !.status = "queued", !.res = p.res,
                                            !.session = p.session]])
  /\ adm' = [adm EXCEPT !.at = IF ok THEN "register" ELSE "release"]
  /\ UNCHANGED <<broker, pending, worker, active, cancelled, stopping,
                 capability, healthy, epoch, rec, consumed, reservation,
                 session, checkpoint, artifacts, sandboxes, turns>>

\* The capability is minted, the run enters the registry and its worker is
\* spawned; when the approval expired meanwhile the run is marked, and a
\* failure to mark it leaves its lease to recovery.
AdmitRegister(expired, ok) ==
  LET run == adm.req.run IN
  /\ adm.at = "register"
  /\ Call(ok)
  /\ IF expired
     THEN /\ row' \in Applied(ok, row, MarkRunFinished(run, "failed"))
          /\ adm' = IF ok THEN [adm EXCEPT !.at = "release"] ELSE NoAdm
          /\ UNCHANGED <<capability, active, worker>>
     ELSE /\ ok
          /\ capability' = [capability EXCEPT ![run] = "active"]
          /\ active' = active \cup {run}
          /\ worker' = [worker EXCEPT ![run].at = "begin"]
          /\ adm' = NoAdm
          /\ UNCHANGED row
  /\ UNCHANGED <<broker, pending, cancelled, stopping, healthy, epoch, rec,
                 consumed, reservation, session, checkpoint, artifacts,
                 sandboxes, turns>>

\* The error paths that give the lease back; a failure here may leave it leased.
AdmitRelease(ok) ==
  /\ adm.at = "release"
  /\ Call(ok)
  /\ reservation' \in Applied(ok, reservation,
                        FinishReservation(adm.req.res, adm.req.run, FALSE))
  /\ adm' = NoAdm
  /\ UNCHANGED <<broker, pending, worker, active, cancelled, stopping,
                 capability, healthy, epoch, rec, consumed, row, session,
                 checkpoint, artifacts, sandboxes, turns>>

----------------------------------------------------------------------------
(* run_worker and execute_in_sandbox_tracked.                               *)

Goto(run, at) == worker' = [worker EXCEPT ![run].at = at]
Return(run, at, result) ==
  worker' = [worker EXCEPT ![run] = [at |-> at, result |-> result]]

\* What a worker step leaves alone whatever it does.
WorkerFrame ==
  UNCHANGED <<broker, pending, adm, cancelled, stopping, rec, consumed>>

BeginRun(run, ok) ==
  LET started == ok /\ row[run].status = "queued" IN
  /\ worker[run].at = "begin"
  /\ Call(ok)
  /\ row' \in Applied(ok, row, IF row[run].status = "queued"
                               THEN [row EXCEPT ![run].status = "preparing"]
                               ELSE row)
  /\ capability' = IF started THEN capability ELSE RevokeRun(run)
  /\ Goto(run, IF started THEN "create" ELSE "unstarted")
  /\ WorkerFrame
  /\ UNCHANGED <<active, healthy, epoch, reservation, session, checkpoint,
                 artifacts, sandboxes, turns>>

\* A run that never started, or whose artifacts could not be stored: mark it,
\* then finish the reservation without the sweep of "cancelling".
MarkAborted(run, ok) ==
  LET target == IF worker[run].at = "unstarted" /\ run \in cancelled
                THEN "cancelled" ELSE "failed" IN
  /\ worker[run].at \in {"unstarted", "unsaved"}
  /\ Call(ok)
  /\ row' \in Applied(ok, row, MarkRunFinished(run, target))
  /\ capability' = RevokeRun(run)
  /\ Goto(run, "finish")
  /\ WorkerFrame
  /\ UNCHANGED <<active, healthy, epoch, reservation, session, checkpoint,
                 artifacts, sandboxes, turns>>

\* provider.create: a failure, a timeout or a cancellation that arrives first
\* leaves open whether the manager made the workload.
CreateSandbox(run, ok) ==
  /\ worker[run].at = "create"
  /\ IF run \in cancelled
     THEN /\ ok
          /\ \/ Return(run, "settle", "failed") /\ UNCHANGED sandboxes
             \/ /\ Goto(run, "cleanup")
                /\ sandboxes' \in MayExist(run)
     ELSE IF ok
     THEN Goto(run, "own") /\ sandboxes' = sandboxes \cup {run}
     ELSE \/ Return(run, "settle", "failed") /\ UNCHANGED sandboxes
          \/ /\ Goto(run, "cleanup")
             /\ sandboxes' \in MayExist(run)
  /\ Call(ok)
  /\ WorkerFrame
  /\ UNCHANGED <<active, capability, healthy, epoch, row, reservation,
                 session, checkpoint, artifacts, turns>>

\* DurableSandboxOwnership::created, refused when a cancellation got there
\* first.
RecordOwnership(run, ok) ==
  LET mine == row[run].status = "preparing" /\ ~row[run].named IN
  /\ worker[run].at = "own"
  /\ Call(ok)
  /\ row' \in Applied(ok, row, IF mine THEN [row EXCEPT ![run].status = "running",
                                                         ![run].box = "active",
                                                         ![run].named = TRUE]
                               ELSE row)
  /\ Goto(run, IF ok /\ mine THEN "exec" ELSE "disown")
  /\ WorkerFrame
  /\ UNCHANGED <<active, capability, healthy, epoch, reservation, session,
                 checkpoint, artifacts, sandboxes, turns>>

\* The relay: the capability authorises one provider turn.
RelayTurn(run) ==
  /\ worker[run].at = "exec"
  /\ capability[run] = "active"
  /\ capability' = [capability EXCEPT ![run] = "used"]
  /\ turns' = [turns EXCEPT ![run] = @ + 1]
  /\ WorkerFrame
  /\ UNCHANGED <<worker, active, healthy, epoch, row, reservation, session,
                 checkpoint, artifacts, sandboxes, faults>>

\* Execution ends: a signal stops it; otherwise a result needs the relayed
\* turn, and a failure or the signed deadline may come at any time.
ExecutionEnds(run, result) ==
  /\ worker[run].at = "exec"
  /\ result \in {"completed", "plan_limit"} => turns[run] > 0 /\ run \notin cancelled
  /\ Return(run, "teardown", IF run \in cancelled THEN "failed" ELSE result)
  /\ WorkerFrame
  /\ UNCHANGED <<active, capability, healthy, epoch, row, reservation,
                 session, checkpoint, artifacts, sandboxes, turns, faults>>

\* Destruction on every path; the capability is revoked right after it.
TearDown(run, ok) ==
  /\ worker[run].at \in {"teardown", "disown"}
  /\ Call(ok)
  /\ Terminate(run, ok)
  /\ capability' = RevokeRun(run)
  /\ worker' = [worker EXCEPT ![run] =
       [at |-> IF ok THEN "record" ELSE "record_failed",
        result |-> IF @.at = "disown" THEN "disowned" ELSE @.result]]
  /\ WorkerFrame
  /\ UNCHANGED <<active, healthy, epoch, row, reservation, session,
                 checkpoint, artifacts, turns>>

\* DurableSandboxOwnership::cleanup; its error is ignored when the workload
\* was never recorded as this run's.
RecordCleanup(run, ok) ==
  LET gone == worker[run].at = "record"
      disowned == worker[run].result = "disowned" IN
  /\ worker[run].at \in {"record", "record_failed"}
  /\ Call(ok)
  /\ row' \in Applied(ok, row,
       IF row[run].named
       THEN [row EXCEPT ![run].box =
               IF gone THEN "terminated" ELSE "cleanup_failed"]
       ELSE row)
  /\ IF gone /\ (disowned \/ (ok /\ row[run].named))
     THEN Return(run, "settle",
                 IF disowned THEN "failed" ELSE worker[run].result)
     ELSE Goto(run, "cleanup")
  /\ WorkerFrame
  /\ UNCHANGED <<active, capability, healthy, epoch, reservation, session,
                 checkpoint, artifacts, sandboxes, turns>>

\* Fault: the reservation is finished although cleanup is not proved.
RequireCleanupFinishes(run) ==
  /\ worker[run].at = "cleanup"
  /\ epoch' = epoch + 1
  /\ healthy' = FALSE
  /\ capability' = RevokeRun(run)
  /\ Goto(run, "finish")
  /\ WorkerFrame
  /\ UNCHANGED <<active, row, reservation, session, checkpoint, artifacts,
                 sandboxes, turns, faults>>

\* CleanupRequired: admission closes before the run leaves the registry.
RequireCleanup(run) ==
  /\ worker[run].at = "cleanup"
  /\ epoch' = epoch + 1
  /\ healthy' = FALSE
  /\ capability' = RevokeRun(run)
  /\ Goto(run, "leave")
  /\ WorkerFrame
  /\ UNCHANGED <<active, row, reservation, session, checkpoint, artifacts,
                 sandboxes, turns, faults>>

\* Fault: a completed result is published before it is stored.
SettleBeforeSaving(run, ok) ==
  /\ worker[run].at = "settle"
  /\ row' = IF ok THEN MarkRunFinished(run,
                IF worker[run].result = "completed" THEN "completed" ELSE "failed")
           ELSE row
  /\ Goto(run, "sweep")
  /\ Call(ok)
  /\ WorkerFrame
  /\ UNCHANGED <<active, capability, healthy, epoch, reservation, session,
                 checkpoint, artifacts, sandboxes, turns>>

\* The cancel signal is read once; a completed result goes on to be stored,
\* any other outcome is marked.
Settle(run, ok) ==
  LET result == worker[run].result
      target == IF run \in cancelled THEN "cancelled"
                ELSE IF result = "timed_out" THEN "timed_out" ELSE "failed" IN
  /\ worker[run].at = "settle"
  /\ IF result = "completed" /\ run \notin cancelled
     THEN ok /\ Goto(run, "save") /\ UNCHANGED row
     ELSE /\ row' \in Applied(ok, row, MarkRunFinished(run, target))
          /\ Goto(run, "sweep")
  /\ Call(ok)
  /\ WorkerFrame
  /\ UNCHANGED <<active, capability, healthy, epoch, reservation, session,
                 checkpoint, artifacts, sandboxes, turns>>

SaveArtifacts(run, ok) ==
  /\ worker[run].at = "save"
  /\ Call(ok)
  /\ artifacts' = IF ok THEN artifacts \cup {run} ELSE artifacts
  /\ Goto(run, IF ok THEN "checkpoint" ELSE "unsaved")
  /\ WorkerFrame
  /\ UNCHANGED <<active, capability, healthy, epoch, row, reservation,
                 session, checkpoint, sandboxes, turns>>

\* The session's checkpoint; the statement does not look at its state.
SaveCheckpoint(run, ok) ==
  LET s == row[run].session IN
  /\ worker[run].at = "checkpoint"
  /\ Call(ok)
  /\ \/ /\ checkpoint' = [checkpoint EXCEPT ![s] = run]
        /\ session' = [session EXCEPT ![s] = "suspended"]
     \/ ~ok /\ UNCHANGED <<checkpoint, session>>
  /\ Goto(run, IF ok THEN "complete" ELSE "uncheckpointed")
  /\ WorkerFrame
  /\ UNCHANGED <<active, capability, healthy, epoch, row, reservation,
                 artifacts, sandboxes, turns>>

\* The final transition, which a concurrent cancellation may win.  Unless the
\* broker sees it succeed the artifacts are discarded: when only its reply was
\* lost they go although the run is now shown as completed.
CompleteRun(run, ok) ==
  LET target == IF worker[run].at = "complete" THEN "completed" ELSE "failed"
      marked == MarkRunFinished(run, target) IN
  /\ worker[run].at \in {"complete", "uncheckpointed"}
  /\ Call(ok)
  /\ row' \in Applied(ok, row, marked)
  /\ artifacts' = IF ok /\ target = "completed" /\ marked # row
                  THEN artifacts ELSE artifacts \ {run}
  /\ Goto(run, "sweep")
  /\ WorkerFrame
  /\ UNCHANGED <<active, capability, healthy, epoch, reservation, session,
                 checkpoint, sandboxes, turns>>

SweepCancelling(run, ok) ==
  /\ worker[run].at = "sweep"
  /\ Call(ok)
  /\ row' \in Applied(ok, row, IF row[run].status = "cancelling"
                               THEN [row EXCEPT ![run].status = "cancelled"]
                               ELSE row)
  /\ capability' = RevokeRun(run)
  /\ Goto(run, "finish")
  /\ WorkerFrame
  /\ UNCHANGED <<active, healthy, epoch, reservation, session, checkpoint,
                 artifacts, sandboxes, turns>>

FinishRun(run, ok) ==
  /\ worker[run].at = "finish"
  /\ Call(ok)
  /\ reservation' \in Applied(ok, reservation,
       FinishReservation(row[run].res, run, row[run].status = "completed"))
  /\ Goto(run, "leave")
  /\ WorkerFrame
  /\ UNCHANGED <<active, capability, healthy, epoch, row, session, checkpoint,
                 artifacts, sandboxes, turns>>

LeaveRegistry(run) ==
  /\ worker[run].at = "leave"
  /\ active' = active \ {run}
  /\ Return(run, "done", "none")
  /\ WorkerFrame
  /\ UNCHANGED <<capability, healthy, epoch, row, reservation, session,
                 checkpoint, artifacts, sandboxes, turns, faults>>

\* The task unwinds or is aborted: ActiveRunGuard.
WorkerDies(run) ==
  /\ worker[run].at \notin {"none", "done"}
  /\ Call(FALSE)
  /\ active' = active \ {run}
  /\ epoch' = epoch + 1
  /\ healthy' = FALSE
  /\ Return(run, "done", "none")
  /\ WorkerFrame
  /\ UNCHANGED <<capability, row, reservation, session, checkpoint,
                 artifacts, sandboxes, turns>>

WorkerStep(run) ==
  \/ \E ok \in BOOLEAN :
       \/ BeginRun(run, ok) \/ MarkAborted(run, ok) \/ CreateSandbox(run, ok)
       \/ RecordOwnership(run, ok) \/ TearDown(run, ok)
       \/ RecordCleanup(run, ok) \/ Settle(run, ok) \/ SaveArtifacts(run, ok)
       \/ SaveCheckpoint(run, ok) \/ CompleteRun(run, ok)
       \/ SweepCancelling(run, ok) \/ FinishRun(run, ok)
  \/ RequireCleanup(run) \/ LeaveRegistry(run)
  \/ \E result \in Results : ExecutionEnds(run, result)

----------------------------------------------------------------------------
(* cancel_run: the row first, then the capability and the signal; a         *)
(* cancellation whose UPDATE failed sends no signal.                        *)

CancelRow(run, ok) ==
  /\ broker = "up"
  /\ run \in active /\ row[run].status \in ActiveStatus
  /\ run \notin stopping
  /\ Call(ok)
  /\ row' \in Applied(ok, row, [row EXCEPT ![run].status = "cancelling"])
  /\ stopping' = IF ok THEN stopping \cup {run} ELSE stopping
  /\ UNCHANGED <<broker, pending, adm, worker, active, cancelled, capability,
                 healthy, epoch, rec, consumed, reservation, session,
                 checkpoint, artifacts, sandboxes, turns>>

CancelSignal(run) ==
  /\ run \in stopping
  /\ capability' = RevokeRun(run)
  /\ cancelled' = cancelled \cup {run}
  /\ stopping' = stopping \ {run}
  /\ UNCHANGED <<broker, pending, adm, worker, active, healthy, epoch, rec,
                 durable, sandboxes, turns, faults>>

----------------------------------------------------------------------------
(* reconcile_owned_sandboxes, at start and from the maintenance loop.       *)

RecFrame ==
  UNCHANGED <<pending, adm, worker, active, cancelled, stopping, capability,
              epoch, consumed, session, checkpoint, artifacts, turns>>

\* The maintenance tick closes admission and notes the epoch.
MaintenanceTick ==
  /\ broker = "up" /\ rec.at = "idle"
  /\ healthy' = FALSE
  /\ rec' = [NoRec EXCEPT !.at = "lock", !.epoch = epoch]
  /\ RecFrame
  /\ UNCHANGED <<broker, row, reservation, sandboxes, faults>>

\* Any call of the reconciliation may fail; the startup one ends the process.
ReconcileFails ==
  /\ rec.at \notin {"idle", "publish"}
  /\ rec.at = "lock" => adm.at = "idle"
  /\ Call(FALSE)
  /\ rec' = NoRec
  /\ broker' = IF rec.boot THEN "down" ELSE broker
  /\ RecFrame
  /\ UNCHANGED <<healthy, row, reservation, sandboxes>>

RecStep(from) ==
  /\ rec.at = from
  /\ RecFrame
  /\ UNCHANGED faults

ListOwned ==
  /\ RecStep("lock") /\ adm.at = "idle"
  /\ rec' = [rec EXCEPT !.at = "snapshot", !.owned = OwnedAtManager]
  /\ UNCHANGED <<broker, healthy, row, reservation, sandboxes>>

SnapshotActive ==
  /\ RecStep("snapshot")
  /\ rec' = [rec EXCEPT !.at = "terminate", !.active = active,
                        !.owned = rec.owned \ active]
  /\ UNCHANGED <<broker, healthy, row, reservation, sandboxes>>

TerminateOrphan(run) ==
  /\ RecStep("terminate") /\ run \in rec.owned
  /\ Terminate(run, TRUE)
  /\ row' = IF row[run].status = "none" THEN row
            ELSE [row EXCEPT ![run].box = "orphan_recovered",
                             ![run].named = TRUE]
  /\ rec' = [rec EXCEPT !.owned = @ \ {run}]
  /\ UNCHANGED <<broker, healthy, reservation>>

\* The second listing must be clean, or the pass fails; then one scan of the
\* unfinished rows.  (At start no worker exists, and it is clean.)
ScanRows ==
  /\ RecStep("terminate") /\ rec.owned = {}
  /\ rec' = IF OwnedAtManager \subseteq rec.active
            THEN [rec EXCEPT !.at = "rows",
                    !.rows = {r \in Runs \ rec.active :
                                \/ row[r].status \in ActiveStatus
                                \/ row[r].box \in Uncleaned}]
            ELSE NoRec
  /\ UNCHANGED <<broker, healthy, row, reservation, sandboxes>>

\* A row that still names a workload has it destroyed again by identifier;
\* its reservation is finished.
RecoverReservation(run) ==
  /\ RecStep("rows") /\ run \in rec.rows
  /\ sandboxes' = IF row[run].named /\ row[run].box \in Uncleaned
                  THEN sandboxes \ {run} ELSE sandboxes
  /\ reservation' = FinishReservation(row[run].res, run,
                                      row[run].status = "completed")
  /\ rec' = [rec EXCEPT !.at = "mark", !.cur = run]
  /\ UNCHANGED <<broker, healthy, row>>

\* Fault: only rows that named a workload are marked as ended.
RecoverRowNamed ==
  LET run == rec.cur IN
  /\ RecStep("mark")
  /\ row' = IF row[run].status \in ActiveStatus /\ row[run].named
            THEN [row EXCEPT ![run].status = "failed", ![run].box = "terminated"]
            ELSE row
  /\ rec' = [rec EXCEPT !.at = "rows", !.rows = @ \ {run}, !.cur = NoRun]
  /\ UNCHANGED <<broker, healthy, reservation, sandboxes>>

RecoverRow ==
  LET run == rec.cur IN
  /\ RecStep("mark")
  /\ row' = IF row[run].status \in ActiveStatus
            THEN [row EXCEPT ![run].status = "failed", ![run].box = "terminated"]
            ELSE [row EXCEPT ![run].box =
                    IF @ \in Uncleaned THEN "terminated" ELSE @]
  /\ rec' = [rec EXCEPT !.at = "rows", !.rows = @ \ {run}, !.cur = NoRun]
  /\ UNCHANGED <<broker, healthy, reservation, sandboxes>>

ScanLeases ==
  /\ RecStep("rows") /\ rec.rows = {}
  /\ rec' = [rec EXCEPT !.at = "leases",
       !.leases = {v \in Reservations :
                     /\ reservation[v].status = "leased"
                     /\ reservation[v].run \notin rec.active}]
  /\ UNCHANGED <<broker, healthy, row, reservation, sandboxes>>

\* A lease without a row is released; one whose run ended cleanly is finished
\* as that run ended.
RecoverLease(v) ==
  LET run == reservation[v].run IN
  /\ RecStep("leases") /\ v \in rec.leases
  /\ reservation' =
       IF \/ row[run].status = "none"
          \/ row[run].status \in TerminalStatus /\ row[run].box \in Cleaned
       THEN FinishReservation(v, run, row[run].status = "completed")
       ELSE reservation
  /\ rec' = [rec EXCEPT !.leases = @ \ {v}]
  /\ UNCHANGED <<broker, healthy, row, sandboxes>>

\* The startup reconciliation opens admission; the maintenance one compares
\* the epoch, and stores the flag in a second step.
ReconcileDone ==
  /\ RecStep("leases") /\ rec.leases = {}
  /\ broker' = "up"
  /\ healthy' = IF rec.boot THEN TRUE ELSE healthy
  /\ rec' = IF ~rec.boot /\ epoch = rec.epoch
            THEN [NoRec EXCEPT !.at = "publish"] ELSE NoRec
  /\ UNCHANGED <<row, reservation, sandboxes>>

PublishHealthy ==
  /\ RecStep("publish")
  /\ healthy' = TRUE
  /\ rec' = NoRec
  /\ UNCHANGED <<broker, row, reservation, sandboxes>>

ReconcileStep ==
  \/ ListOwned \/ SnapshotActive \/ ScanRows \/ RecoverRow \/ ScanLeases
  \/ ReconcileDone \/ PublishHealthy
  \/ \E run \in Runs : TerminateOrphan(run) \/ RecoverReservation(run)
  \/ \E v \in Reservations : RecoverLease(v)

----------------------------------------------------------------------------
(* The process dies with all its memory, and is started again.              *)

Crash ==
  /\ broker # "down"
  /\ Call(FALSE)
  /\ broker' = "down"
  /\ pending' = {} /\ adm' = NoAdm
  /\ worker' = [r \in Runs |->
       IF worker[r].at = "none" THEN Asleep ELSE [Asleep EXCEPT !.at = "done"]]
  /\ active' = {} /\ cancelled' = {} /\ stopping' = {}
  /\ capability' = [r \in Runs |-> "none"]
  /\ healthy' = FALSE /\ epoch' = 0 /\ rec' = NoRec
  /\ UNCHANGED <<durable, sandboxes, turns>>

Restart ==
  /\ broker = "down"
  /\ broker' = "starting"
  /\ rec' = [NoRec EXCEPT !.at = "lock", !.boot = TRUE]
  /\ RecFrame
  /\ UNCHANGED <<healthy, row, reservation, sandboxes, faults>>

----------------------------------------------------------------------------
AdmissionStep ==
  \/ \E p \in pending, ok \in BOOLEAN : StartRun(p, ok)
  \/ \E ok \in BOOLEAN : AdmitCreateRow(ok) \/ AdmitRelease(ok)
  \/ \E expired, ok \in BOOLEAN : AdmitLease(expired, ok) \/ AdmitRegister(expired, ok)

CodingNext ==
  \/ \E s \in Sessions : CreateSession(s)
  \/ \E s \in Sessions, v \in Reservations : ReserveRun(s, v)
  \/ \E s \in Sessions, state \in {"suspended", "cancelled", "archived"} :
       Lifecycle(s, state)
  \/ \E run \in Runs, s \in Sessions, v \in Reservations, b \in BOOLEAN :
       Authorize(run, s, v, b)
  \/ AdmissionStep
  \/ \E run \in Runs :
       WorkerStep(run) \/ RelayTurn(run) \/ WorkerDies(run)
         \/ CancelSignal(run) \/ \E ok \in BOOLEAN : CancelRow(run, ok)
  \/ MaintenanceTick \/ ReconcileStep \/ ReconcileFails
  \/ Crash \/ Restart

CodingFairness ==
  /\ WF_vars(AdmissionStep)
  /\ \A run \in Runs : WF_vars(WorkerStep(run)) /\ WF_vars(CancelSignal(run))
  /\ WF_vars(MaintenanceTick) /\ WF_vars(ReconcileStep) /\ WF_vars(Restart)

CodingSpec == CodingInit /\ [][CodingNext]_vars
CodingFairSpec == CodingSpec /\ CodingFairness
----------------------------------------------------------------------------
(* Properties.                                                              *)

WorkerPoints ==
  {"none", "begin", "unstarted", "create", "own", "exec", "teardown", "disown",
   "record", "record_failed", "cleanup", "settle", "save", "unsaved",
   "checkpoint", "uncheckpointed", "complete", "sweep", "finish", "leave",
   "done"}

\* Every record, registry and program counter has its shape.
CodingTypeOK ==
  /\ broker \in {"down", "starting", "up"}
  /\ consumed \subseteq Runs /\ active \subseteq Runs
  /\ cancelled \subseteq Runs /\ stopping \subseteq Runs
  /\ artifacts \subseteq Runs /\ sandboxes \subseteq Runs
  /\ pending \subseteq [run : Runs, session : Sessions, res : Reservations,
                        resume : BOOLEAN, seen : Runs \cup {NoRun}]
  /\ adm.at \in {"idle", "lease", "row", "register", "release"}
  /\ worker \in [Runs -> [at : WorkerPoints,
                         result : Results \cup {"none", "disowned"}]]
  /\ capability \in [Runs -> {"none", "active", "used", "revoked"}]
  /\ healthy \in BOOLEAN /\ epoch \in Nat /\ faults \in 0..MaxFaults
  /\ row \in [Runs -> [status : ActiveStatus \cup TerminalStatus \cup {"none"},
                      box : Uncleaned \cup Cleaned, named : BOOLEAN,
                      res : Reservations \cup {NoRun},
                      session : Sessions \cup {NoRun}]]
  /\ reservation \in [Reservations ->
       [status : {"none", "reserved", "leased", "settled", "released"},
        run : Runs \cup {NoRun}, session : Sessions \cup {NoRun}]]
  /\ session \in [Sessions ->
       {"none", "active", "suspended", "cancelled", "archived"}]
  /\ checkpoint \in [Sessions -> Runs \cup {NoRun}]
  /\ turns \in [Runs -> Nat]

\* Refinement: seen through its reservations and its workloads, the subsystem
\* is CodingLedger.  No interleaving of workers, cancellations, recovery and
\* crashes leases a reservation twice, revives a finished one, starts a
\* workload without a lease, or gives a lease back under a live workload.
Ledger == INSTANCE CodingLedger WITH
  status <- [v \in Reservations |-> reservation[v].status],
  holder <- [v \in Reservations |-> reservation[v].run],
  live <- sandboxes
ImplementsLedger == Ledger!Spec

\* A run is shown as completed only when its session holds a checkpoint and its
\* workload is gone, whatever crashed, failed or was cancelled on the way
\* (run_worker stores the checkpoint before the last transition).
CompletedIsBacked ==
  \A run \in Runs : row[run].status = "completed" =>
    checkpoint[row[run].session] # NoRun /\ run \notin sandboxes

\* The artifacts of a run shown as completed are on disk from the step that shows it
\* so, and stay there; the one exception is a completion whose own reply was lost
\* (run_worker discards the artifacts it does not see completed).
ArtifactsAreKept ==
  \A run \in Runs : row'[run].status = "completed" =>
    \/ run \in artifacts'
    \/ row[run].status = "completed" /\ run \notin artifacts
    \/ row[run].status # "completed" /\ faults' = faults + 1

\* Every live workload can be found again: its run is in the registry, or its
\* durable row is still one recovery will visit and its lease is not given
\* back (the crash window before sandbox_id is stored included).
WorkloadIsRecoverable ==
  \A run \in sandboxes :
    /\ \E v \in Reservations :
         reservation[v].status = "leased" /\ reservation[v].run = run
    /\ run \in active \/ row[run].status \in ActiveStatus

\* Once the owner's cancellation is answered no provider turn starts for the run, and
\* no run ever starts two (cancel_run revokes before it signals, the capability
\* carries one unit); a cancellation the database has taken is never overtaken by a
\* late completion, and an ended run never changes its ending.
CancelWins ==
  \A run \in Runs :
    /\ turns'[run] # turns[run] => run \notin cancelled /\ turns[run] = 0
    /\ row[run].status = "cancelling" =>
         row'[run].status \in {"cancelling", "cancelled", "failed"}
    /\ row[run].status \in TerminalStatus => row'[run].status = row[run].status

\* What a run is said to have come to is stored, and stays so, with the calls that
\* fail after they were applied included (run_worker, cancel_run).
RunsAreSettled == [][CompletedIsBacked' /\ ArtifactsAreKept /\ CancelWins]_vars

\* Every lease is given back or settled, every workload destroyed and every run ended
\* in the end, whatever fails on the way (run_worker, reconcile_owned_sandboxes).
RunsEnd ==
  /\ \A v \in Reservations :
       reservation[v].status = "leased" ~> reservation[v].status # "leased"
  /\ \A run \in Runs :
       /\ run \in sandboxes ~> run \notin sandboxes
       /\ row[run].status \in ActiveStatus ~> row[run].status \in TerminalStatus
=============================================================================
