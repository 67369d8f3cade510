----------------------------- MODULE CoreUpdate -----------------------------
(***************************************************************************)
(* Updates of Core on its host (deploy/systemd): the release updater with  *)
(* its unit manager and its cold database snapshot, the schema migration a *)
(* starting Core applies, and the housekeeping that deletes old releases.  *)
(*                                                                         *)
(* A release is its version.  The installed units and tools are named by   *)
(* the release they come from, or are mixed while they are replaced; the   *)
(* data by the schema it has, which grows with the releases.  Checksums,   *)
(* manifests and downloads are reduced to whether they are accepted, and   *)
(* every release ships managed units.  A run may be killed and the host    *)
(* may lose power between any two steps.                                   *)
(***************************************************************************)
EXTENDS Naturals, Sequences, FiniteSets

CONSTANTS
    CoreReleases,      \* the published versions
    SchemaOf(_),       \* schema_sha256 of a release, ordered by its migrations
    KeepReleases       \* keep_releases: the newest ones housekeeping keeps

ASSUME UpdateAssumption ==
    /\ KeepReleases \in Nat \ {0} /\ IsFiniteSet(CoreReleases)
    /\ \A r \in CoreReleases : r \in Nat \ {0} /\ SchemaOf(r) \in Nat \ {0}
    /\ \A r, s \in CoreReleases : r < s => SchemaOf(r) <= SchemaOf(s)

VARIABLES
    installed,     \* the release directories: absent, whole or half deleted
    current,       \* the release /opt/jarvis/current names
    unitsOf, toolsOf,  \* where the installed units and tools come from; 0 is mixed
    coreIs,        \* running a release, stopped, or down until systemd starts it
    data,          \* the schema of the database, 0 while its directory is moved away
    snapshot,      \* the cold copy of the last migration
    update,        \* the updater that holds the lock
    told,          \* what the last run reported
    plan           \* what housekeeping read before it took the lock

updateVars == <<installed, current, unitsOf, toolsOf, coreIs, data, snapshot, update, told,
                plan>>

NoUpdate == [kind |-> "none", at |-> "idle", to |-> 0, from |-> 0, units |-> 0, tools |-> 0,
             restored |-> 0, missed |-> {}]
NoPlan == [active |-> 0, rollback |-> {}]
Quiet == [what |-> "nothing", release |-> 0, critical |-> FALSE]
NoCopy == [schema |-> 0, committed |-> FALSE]

RunsRelease(r) == [state |-> "runs", of |-> r]
Down == [state |-> "down", of |-> 0]
Stopped == [state |-> "stopped", of |-> 0]

UpdateInit ==
    /\ current \in CoreReleases
    /\ installed = [r \in CoreReleases |-> IF r <= current THEN "whole" ELSE "absent"]
    /\ unitsOf = current /\ toolsOf = current /\ coreIs = RunsRelease(current)
    /\ data = SchemaOf(current)
    /\ snapshot = NoCopy
    /\ update = NoUpdate /\ told = Quiet /\ plan = NoPlan

UpdateAt(at) == update.at = at
StepTo(at) == update' = [update EXCEPT !.at = at]

Reports(what, release, critical) ==
    /\ told' = [what |-> what, release |-> release, critical |-> critical]
    /\ update' = NoUpdate

\* The last line of a run that succeeds, fail, and the silence of one that is killed.
Activated == Reports("activated", update.to, FALSE)
Fails == Reports("failed", 0, FALSE)
Silence == Reports("nothing", 0, FALSE)

\* activate_managed_release returns 1: an update prints "rollback completed" and a
\* rollback "restored", a migration to inspect the outcome, and each of them the same
\* whether or not a line CRITICAL said before that the restoration failed.
NotActivated(critical) ==
    Reports(IF update.kind = "migrate" THEN "inspect" ELSE "restored", 0, critical)

\* inspect_release: whole, not the active one and of its schema.
RollbackCapable(r) ==
    installed[r] = "whole" /\ r # current /\ SchemaOf(r) = SchemaOf(current)

-----------------------------------------------------------------------------
(* Core as systemd starts it: from the current link.  It migrates step by   *)
(* step and refuses data of a schema it does not know.                      *)

\* apply_baseline_schema: what a start may come to, with the data it leaves.  In an
\* empty database Core's account does not exist.
CoreStarts ==
    IF data = 0 \/ data > SchemaOf(current) THEN {<<Down, data>>}
    ELSE {<<RunsRelease(current), SchemaOf(current)>>}
           \cup {<<Down, s>> : s \in data .. SchemaOf(current)}

\* A start that nobody waits for.
StartCore == \E s \in CoreStarts : coreIs' = s[1] /\ data' = s[2]

CoreDies ==
    /\ coreIs.state = "runs"
    /\ coreIs' = Down
    /\ UNCHANGED <<installed, current, unitsOf, toolsOf, data, snapshot, update, told, plan>>

\* Restart=on-failure, and the start of the host.
SystemdRestarts ==
    /\ coreIs = Down /\ data # 0
    /\ StartCore
    /\ UNCHANGED <<installed, current, unitsOf, toolsOf, snapshot, update, told, plan>>

-----------------------------------------------------------------------------
(* What begins a run, under the lock. *)

Begins(kind, at, to) ==
    /\ UpdateAt("idle")
    /\ update' = [kind |-> kind, at |-> at, to |-> to, from |-> current, units |-> unitsOf,
                  tools |-> toolsOf, restored |-> 0, missed |-> {}]
    /\ told' = Quiet

\* --latest and --version: never a downgrade, a directory that exists or a change
\* of schema; the verified archive becomes the release directory.
Update(r) ==
    /\ r > current /\ installed[r] = "absent" /\ SchemaOf(r) = SchemaOf(current)
    /\ Begins("update", "install", r)
    /\ installed' = [installed EXCEPT ![r] = "whole"]
    /\ UNCHANGED <<current, unitsOf, toolsOf, coreIs, data, snapshot, plan>>

\* The version that is active already: its units are repaired when they differ.
Repair ==
    /\ unitsOf # current
    /\ Begins("repair", "install", current)
    /\ UNCHANGED <<installed, current, unitsOf, toolsOf, coreIs, data, snapshot, plan>>

\* --stage: a newer release that migrates the active schema.
StageRelease(r) ==
    /\ UpdateAt("idle")
    /\ r > current /\ installed[r] = "absent" /\ SchemaOf(r) # SchemaOf(current)
    /\ installed' = [installed EXCEPT ![r] = "whole"]
    /\ UNCHANGED <<current, unitsOf, toolsOf, coreIs, data, snapshot, update, told, plan>>

\* --migrate-staged: manifests authorise only earlier schemas.
Migrate(r) ==
    /\ installed[r] = "whole" /\ SchemaOf(r) > SchemaOf(current)
    /\ Begins("migrate", "snapshot", r)
    /\ UNCHANGED <<installed, current, unitsOf, toolsOf, coreIs, data, snapshot, plan>>

\* --rollback and --rollback-version.
RollBack(r) ==
    /\ RollbackCapable(r)
    /\ Begins("rollback", "install", r)
    /\ UNCHANGED <<installed, current, unitsOf, toolsOf, coreIs, data, snapshot, plan>>

-----------------------------------------------------------------------------
(* activate_managed_release. *)

\* schema-backup create: Core and the database stop; a failure starts them again.
\* Data that is moved away is put back by the owner first.
Snapshot(works) ==
    /\ UpdateAt("snapshot") /\ (works => data # 0)
    /\ IF works
       THEN /\ coreIs' = Stopped /\ snapshot' = [schema |-> data, committed |-> FALSE]
            /\ StepTo("install")
            /\ UNCHANGED <<data, told>>
       ELSE StartCore /\ Fails /\ UNCHANGED snapshot
    /\ UNCHANGED <<installed, current, unitsOf, toolsOf, plan>>

\* A release that lacks what an enabled service needs is refused; what a snapshot
\* stopped stays stopped.
ActivationRefused ==
    /\ UpdateAt("install") /\ update.kind # "repair"
    /\ NotActivated(FALSE)
    /\ UNCHANGED <<installed, current, unitsOf, toolsOf, coreIs, data, snapshot, plan>>

\* Validation fails before anything is touched; Core is started if the snapshot
\* stopped it.
InstallRefused ==
    /\ UpdateAt("install") /\ update.kind # "repair"
    /\ Fails
    /\ IF update.kind = "migrate" THEN StartCore ELSE UNCHANGED <<coreIs, data>>
    /\ UNCHANGED <<installed, current, unitsOf, toolsOf, snapshot, plan>>

\* install_units: the policy layout is prepared with Core stopped, then one unit
\* after the other is replaced.
InstallUnits ==
    /\ UpdateAt("install")
    /\ coreIs' = Stopped /\ unitsOf' = 0
    /\ StepTo("replacing")
    /\ UNCHANGED <<installed, current, toolsOf, data, snapshot, told, plan>>

UnitsInstalled ==
    /\ UpdateAt("replacing")
    /\ unitsOf' = update.to
    /\ StepTo(IF update.kind = "repair" THEN "restart" ELSE "link")
    /\ UNCHANGED <<installed, current, toolsOf, coreIs, data, snapshot, told, plan>>

\* rollback_install puts the units back, as far as it can, and starts Core, unless
\* their policy cannot be restored; after a snapshot the updater starts it anyway.
UnitsFail(works) ==
    /\ UpdateAt("replacing") /\ update.kind # "repair"
    /\ unitsOf' = IF works THEN update.units ELSE 0
    /\ StartCore \/ (~works /\ update.kind # "migrate" /\ UNCHANGED <<coreIs, data>>)
    /\ Fails
    /\ UNCHANGED <<installed, current, toolsOf, snapshot, plan>>

\* The new link is made and renamed; that it fails goes unnoticed.
SwitchLink(works) ==
    /\ UpdateAt("link")
    /\ current' = IF works THEN update.to ELSE current
    /\ update' = [update EXCEPT !.at = "restart", !.missed = IF works THEN {} ELSE {"link"}]
    /\ UNCHANGED <<installed, unitsOf, toolsOf, coreIs, data, snapshot, told, plan>>

\* restart_managed_services: ready in time, or not, whether Core runs or not.
RestartServices ==
    /\ UpdateAt("restart")
    /\ \/ \E s \in CoreStarts :
            /\ coreIs' = s[1] /\ data' = s[2]
            /\ \/ s[1] = RunsRelease(current) /\ StepTo("tools")
               \/ StepTo("restore")
       \/ coreIs' = Stopped /\ StepTo("restore") /\ UNCHANGED data
    /\ UNCHANGED <<installed, current, unitsOf, toolsOf, snapshot, told, plan>>

\* install_versioned_tooling: copies first, then one rename after the other.
ReplaceTools ==
    /\ UpdateAt("tools")
    /\ toolsOf' = 0
    /\ StepTo("tooling")
    /\ UNCHANGED <<installed, current, unitsOf, coreIs, data, snapshot, told, plan>>

\* Tools that were replaced are put back one by one, as far as the renames work; the
\* last check fails after the copies of the previous ones are deleted.
ToolsFail(left) ==
    /\ update.at \in {"tools", "tooling"}
    /\ UpdateAt("tools") => left = update.tools
    /\ toolsOf' = left
    /\ update' = [update EXCEPT !.at = "restore",
                    !.missed = IF left = update.tools THEN @ ELSE @ \cup {"tools"}]
    /\ UNCHANGED <<installed, current, unitsOf, coreIs, data, snapshot, told, plan>>

ToolsInstalled ==
    /\ UpdateAt("tooling")
    /\ toolsOf' = update.to
    /\ IF update.kind = "migrate" THEN StepTo("commit") /\ UNCHANGED told
       ELSE Activated
    /\ UNCHANGED <<installed, current, unitsOf, coreIs, data, snapshot, plan>>

\* schema-backup commit: from here on the snapshot is not used again.
CommitSnapshot(works) ==
    /\ UpdateAt("commit")
    /\ IF works THEN snapshot' = [snapshot EXCEPT !.committed = TRUE] ELSE UNCHANGED snapshot
    /\ IF works THEN Activated ELSE Fails
    /\ UNCHANGED <<installed, current, unitsOf, toolsOf, coreIs, data, plan>>

-----------------------------------------------------------------------------
(* restore_release_transaction. *)

\* Fault: the link goes back before the data.
RestoreOrderLinkFirst ==
    IF update.kind = "migrate" THEN <<"link", "move", "data", "units", "restart">>
    ELSE <<"link", "units", "restart">>

RestoreOrder ==
    IF update.kind = "migrate" THEN <<"move", "data", "link", "units", "restart">>
    ELSE <<"link", "units", "restart">>

Restoring(step) ==
    /\ UpdateAt("restore") /\ update.kind # "repair"
    /\ RestoreOrder[update.restored + 1] = step

RestoredOne == update' = [update EXCEPT !.restored = @ + 1]

\* schema-backup restore: the services stop, the failed data is moved away, the
\* verified copy takes its place.
MoveData ==
    /\ Restoring("move") /\ ~snapshot.committed
    /\ coreIs' = Stopped /\ data' = 0
    /\ RestoredOne
    /\ UNCHANGED <<installed, current, unitsOf, toolsOf, snapshot, told, plan>>

RestoreData ==
    /\ Restoring("data")
    /\ data' = snapshot.schema
    /\ RestoredOne
    /\ UNCHANGED <<installed, current, unitsOf, toolsOf, coreIs, snapshot, told, plan>>

LinkBack(works) ==
    /\ Restoring("link")
    /\ current' = IF works THEN update.from ELSE current
    /\ update' = [update EXCEPT !.restored = @ + 1,
                    !.missed = IF works THEN @ \ {"link"} ELSE @ \cup {"link"}]
    /\ UNCHANGED <<installed, unitsOf, toolsOf, coreIs, data, snapshot, told, plan>>

UnitsBack ==
    /\ Restoring("units")
    /\ coreIs' = Stopped /\ unitsOf' = update.units
    /\ RestoredOne
    /\ UNCHANGED <<installed, current, toolsOf, data, snapshot, told, plan>>

RestartRestored ==
    /\ Restoring("restart")
    /\ \E s \in CoreStarts :
         /\ coreIs' = s[1] /\ data' = s[2]
         /\ \/ s[1] = RunsRelease(current) /\ NotActivated(FALSE)
            \/ NotActivated(TRUE)
    /\ UNCHANGED <<installed, current, unitsOf, toolsOf, snapshot, plan>>

\* A step that is looked at fails: CRITICAL, and the rest is left to the owner.  The
\* units may be put back in part, and Core stopped.  Between the two renames of the
\* data nothing starts Core.
RestoreFails ==
    /\ UpdateAt("restore") /\ update.kind # "repair"
    /\ NotActivated(TRUE)
    /\ coreIs' \in {coreIs, Stopped}
    /\ unitsOf' \in {unitsOf} \cup (IF Restoring("units") THEN {0} ELSE {})
    /\ UNCHANGED <<installed, current, toolsOf, data, snapshot, plan>>

\* A failed repair ignores what its own restoration comes to.
RepairFails ==
    /\ update.kind = "repair" /\ update.at \in {"install", "replacing", "restore"}
    /\ unitsOf' \in {update.units, unitsOf, 0}
    /\ StartCore \/ (coreIs' = Stopped /\ UNCHANGED data)
    /\ Fails
    /\ UNCHANGED <<installed, current, toolsOf, snapshot, plan>>

-----------------------------------------------------------------------------
(* Kills, power loss, and the owner's recovery. *)

UpdaterKilled ==
    /\ ~UpdateAt("idle")
    /\ Silence
    /\ UNCHANGED <<installed, current, unitsOf, toolsOf, coreIs, data, snapshot, plan>>

PowerLoss ==
    /\ coreIs' = Down
    /\ IF UpdateAt("idle") THEN UNCHANGED <<update, told>> ELSE Silence
    /\ plan' = NoPlan
    /\ UNCHANGED <<installed, current, unitsOf, toolsOf, data, snapshot>>

\* The owner puts the copy in the place of data that is moved away, or starts Core.
OwnerRecovers ==
    /\ UpdateAt("idle")
    /\ \/ data = 0 /\ data' = snapshot.schema /\ UNCHANGED coreIs
       \/ data # 0 /\ coreIs = Stopped /\ StartCore
    /\ UNCHANGED <<installed, current, unitsOf, toolsOf, snapshot, update, told, plan>>

-----------------------------------------------------------------------------
(* Housekeeping. *)

Newest(S) == CHOOSE r \in S : \A s \in S : s <= r

\* plan_core: the active release and its rollback target, read under the updater's
\* lock, which is then let go.
PlanHousekeeping ==
    /\ UpdateAt("idle")
    /\ LET capable == {r \in CoreReleases : RollbackCapable(r)}
       IN plan' = [active |-> current,
                   rollback |-> IF capable = {} THEN {} ELSE {Newest(capable)}]
    /\ UNCHANGED <<installed, current, unitsOf, toolsOf, coreIs, data, snapshot, update, told>>

\* classify: what is not active, newer, the rollback target or among the newest.
Removable ==
    LET there == {r \in CoreReleases : installed[r] # "absent"}
    IN {r \in there : /\ r < plan.active /\ r \notin plan.rollback
                      /\ Cardinality({s \in there : s > r}) >= KeepReleases}

\* The active release is compared again under the lock.
PlanIsCurrent == current = plan.active

\* Recently installed ones are kept; a kill leaves the last one half deleted.
Housekeep(gone, left) ==
    /\ plan # NoPlan /\ UpdateAt("idle") /\ PlanIsCurrent
    /\ gone \subseteq Removable /\ left \in {"absent", "broken"}
    /\ gone # {}
    /\ installed' = [r \in CoreReleases |->
         IF r \notin gone THEN installed[r] ELSE IF r = Newest(gone) THEN left ELSE "absent"]
    /\ plan' = NoPlan
    /\ UNCHANGED <<current, unitsOf, toolsOf, coreIs, data, snapshot, update, told>>

-----------------------------------------------------------------------------
UpdateNext ==
    \/ \E r \in CoreReleases : Update(r) \/ StageRelease(r) \/ Migrate(r) \/ RollBack(r)
    \/ Repair
    \/ \E works \in BOOLEAN :
         \/ Snapshot(works) \/ UnitsFail(works) \/ CommitSnapshot(works)
         \/ SwitchLink(works) \/ LinkBack(works)
    \/ ActivationRefused \/ InstallRefused \/ InstallUnits \/ UnitsInstalled \/ RestartServices
    \/ ReplaceTools \/ ToolsInstalled
    \/ \E left \in {update.tools, update.to, 0} : ToolsFail(left)
    \/ MoveData \/ RestoreData \/ UnitsBack \/ RestartRestored \/ RestoreFails
    \/ RepairFails
    \/ CoreDies \/ SystemdRestarts \/ UpdaterKilled \/ PowerLoss \/ OwnerRecovers
    \/ PlanHousekeeping
    \/ \E gone \in SUBSET CoreReleases, left \in {"absent", "broken"} : Housekeep(gone, left)

UpdateSpec == UpdateInit /\ [][UpdateNext]_updateVars

-----------------------------------------------------------------------------
\* Wherever a run, a migration or a restoration stops, the release that the link
\* names is there and can open the data, so that the host starts again; data that is
\* moved away has its verified copy (restore_release_transaction, housekeeping).
HostStarts ==
    /\ installed[current] = "whole"
    /\ IF data # 0 THEN data <= SchemaOf(current) ELSE ~snapshot.committed /\ snapshot.schema > 0

\* A run reports success when units, tools, data and Core are of one release, and the
\* link too if it could be renamed.  An activation that failed without the line
\* CRITICAL found nothing touched, or has link, units and tools as they were, as far
\* as its unchecked renames worked, and Core runs; "restored" and "rollback completed"
\* alone say nothing, as they follow that line too (activate_managed_release, rollback).
ReportsAreTrue ==
    /\ told' # told /\ told'.what = "activated" =>
         /\ unitsOf' = told'.release /\ toolsOf' = told'.release
         /\ "link" \notin update.missed => current' = told'.release
         /\ data' = SchemaOf(current') /\ coreIs' \in {RunsRelease(current'), Down}
    /\ told' # told /\ told'.what \in {"restored", "inspect"} /\ ~told'.critical =>
         /\ unitsOf' = update.units
         /\ "tools" \notin update.missed => toolsOf' = update.tools
         /\ "link" \notin update.missed => current' = update.from
         /\ \/ UpdateAt("install") /\ UNCHANGED <<coreIs, data>>
            \/ data' = SchemaOf(current') /\ coreIs' = RunsRelease(current')

\* Housekeeping leaves the release that a rollback would take (plan_core).
RollbackIsKept ==
    installed' # installed /\ (\E r \in CoreReleases : RollbackCapable(r)) =>
        \E r \in CoreReleases : RollbackCapable(r)'

UpdatesAreSafe == [][HostStarts' /\ ReportsAreTrue /\ RollbackIsKept]_updateVars
=============================================================================
