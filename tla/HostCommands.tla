---------------------------- MODULE HostCommands ----------------------------
(***************************************************************************)
(* Two commands of the owner that change files Core reads and restart it:  *)
(* `jarvis persona` (crates/admin/src/persona.rs) and `jarvis laya`        *)
(* (crates/admin/src/laya.rs).  Several may be typed at once; they share   *)
(* locks, which are tried, never waited for.  Core, systemd, the protected *)
(* persona installer and the private checkout are external: they answer,   *)
(* fail, or change between two looks at them.                              *)
(***************************************************************************)
EXTENDS Naturals, FiniteSets

CONSTANTS Terminals,   \* the terminals commands are typed in
          Personas,    \* versions of the persona, by hash
          NoPersona,   \* none is installed
          MaxCommands, \* bound: commands typed
          MaxDeaths    \* bound: commands killed

ASSUME HostAssumption == "free" \notin Terminals

VARIABLES persona,    \* the installed persona
          archive,    \* persona history: versions that can be restored
          candidate,  \* the persona of the signed commit of the private checkout
          mode,       \* JARVIS_LAYA_MODE of Core's environment file
          units,      \* the Laya units are enabled and running
          core,       \* what the running Core has loaded, and whether it is ready
          lock,       \* the terminal that holds the administration locks, or "free"
          cmd,        \* the command of each terminal
          typed,      \* commands so far
          killed,     \* deaths so far
          astray      \* history: why Core may not run its files, until a restart succeeds:
                      \* a "write" that failed, a "restart" that failed or was not reached

hostVars == <<persona, archive, candidate, mode, units, core, lock, cmd, typed, killed, astray>>
host == <<persona, archive, candidate, mode, units, core>>

Modes == {"off", "shadow", "primary"}
Free == "free"
NoCommand == [at |-> "idle", kind |-> "none", from |-> NoPersona, to |-> NoPersona,
              was |-> "off", goal |-> "off", outcome |-> "none"]

CommandAt(p, where) == cmd[p].at = where
GoesTo(p, where) == cmd' = [cmd EXCEPT ![p].at = where]
EndsWith(p, outcome) == cmd' = [cmd EXCEPT ![p].at = "record", ![p].outcome = outcome]
Holds(p) == lock' = p
Leaves(p) == cmd' = [cmd EXCEPT ![p] = NoCommand] /\ lock' = IF lock = p THEN Free ELSE lock

-----------------------------------------------------------------------------
(* Core starts with the files as they are and becomes ready.  A failure is
   systemctl's, with the old Core running on, or a Core that was not seen to
   become ready.                                                            *)

RestartCore(ok) ==
    /\ core' \in [persona : {persona}, mode : {mode}, ready : IF ok THEN {TRUE} ELSE BOOLEAN]
                \cup (IF ok THEN {} ELSE {core})
    /\ astray' = IF ok THEN {} ELSE astray \cup {"restart"}

(* The private checkout moves on to another signed commit. *)
Commit ==
    /\ candidate' \in Personas \ {candidate}
    /\ UNCHANGED <<persona, archive, mode, units, core, lock, cmd, typed, killed, astray>>

(* The installer replaces the persona as one of its last steps, and only by
   the bytes it was told to expect; what it replaces goes to the history. *)
Replace(to) ==
    /\ persona' = to
    /\ archive' = archive \cup ({persona, to} \ {NoPersona})

-----------------------------------------------------------------------------
(* jarvis persona.                                                          *)

CanPlan(kind, to) == IF kind = "install" THEN to = candidate ELSE to \in archive

Plan(p, kind, to) ==
    /\ CommandAt(p, "idle") /\ typed < MaxCommands /\ CanPlan(kind, to)
    /\ to # persona                                   \* else it is already installed
    /\ cmd' = [cmd EXCEPT ![p] = [NoCommand EXCEPT !.at = "ask", !.kind = kind,
                                                   !.from = persona, !.to = to]]
    /\ typed' = typed + 1
    /\ UNCHANGED <<persona, archive, candidate, mode, units, core, lock, killed, astray>>

(* Fault: the plan is not made again under the locks. *)
PlanHoldsAnyway(p) == cmd[p].kind = "install" => candidate = cmd[p].to

(* Under the locks the plan is made again and must be the one confirmed. *)
PlanHolds(p) == CanPlan(cmd[p].kind, cmd[p].to) /\ persona = cmd[p].from

Apply(p) ==
    /\ CommandAt(p, "ask") /\ cmd[p].kind \in {"install", "rollback"}
    /\ \/ /\ lock = Free /\ PlanHolds(p)
          /\ Holds(p) /\ GoesTo(p, "audit")
       \/ Leaves(p)                       \* not confirmed, locked, or changed since
    /\ UNCHANGED <<persona, archive, candidate, mode, units, core, typed, killed, astray>>

(* Nothing changes unless the intent is on record. *)
Audit(p) ==
    /\ CommandAt(p, "audit")
    /\ \/ GoesTo(p, IF cmd[p].kind \in {"install", "rollback"} THEN "install" ELSE "begin")
          /\ UNCHANGED lock
       \/ Leaves(p)
    /\ UNCHANGED <<persona, archive, candidate, mode, units, core, typed, killed, astray>>

Installable(p) == cmd[p].kind = "install" => candidate = cmd[p].to

Install(p) ==
    /\ CommandAt(p, "install")
    /\ \/ Installable(p) /\ Replace(cmd[p].to) /\ GoesTo(p, "restart") /\ UNCHANGED astray
       \/ Installable(p) /\ Replace(cmd[p].to) /\ UNCHANGED astray   \* failed afterwards
          /\ IF cmd[p].from = NoPersona THEN GoesTo(p, "none to restore") ELSE GoesTo(p, "restore")
       \/ EndsWith(p, "failed") /\ UNCHANGED <<persona, archive, astray>>
    /\ UNCHANGED <<candidate, mode, units, core, lock, typed, killed>>

RestartWith(p, ok) ==
    /\ CommandAt(p, "restart")
    /\ RestartCore(ok)
    /\ IF ok THEN EndsWith(p, "succeeded")
       ELSE GoesTo(p, IF cmd[p].from = NoPersona THEN "none to restore" ELSE "restore")
    /\ UNCHANGED <<persona, archive, candidate, mode, units, lock, typed, killed>>

NoneToRestore(p) ==
    /\ CommandAt(p, "none to restore")
    /\ EndsWith(p, "failed") /\ astray' = astray \cup {"restart"}
    /\ UNCHANGED <<persona, archive, candidate, mode, units, core, lock, typed, killed>>

Restore(p) ==
    /\ CommandAt(p, "restore")
    /\ \/ cmd[p].from \in archive /\ Replace(cmd[p].from) /\ GoesTo(p, "restart back")
          /\ UNCHANGED astray
       \/ EndsWith(p, "restore-failed") /\ astray' = astray \cup {"restart"}
          /\ \/ cmd[p].from \in archive /\ Replace(cmd[p].from)
             \/ UNCHANGED <<persona, archive>>
    /\ UNCHANGED <<candidate, mode, units, core, lock, typed, killed>>

RestartBack(p, ok) ==
    /\ CommandAt(p, "restart back")
    /\ RestartCore(ok)
    /\ EndsWith(p, IF ok THEN "restored" ELSE "restore-failed")
    /\ UNCHANGED <<persona, archive, candidate, mode, units, lock, typed, killed>>

(* The outcome is put on record and the locks fall with the command. *)
Record(p) ==
    /\ CommandAt(p, "record")
    /\ Leaves(p)
    /\ UNCHANGED <<persona, archive, candidate, mode, units, core, typed, killed, astray>>

-----------------------------------------------------------------------------
(* jarvis laya: enable, disable and mode.                                   *)

Laya(p, kind, goal) ==
    /\ CommandAt(p, "idle") /\ typed < MaxCommands /\ lock = Free
    /\ cmd' = [cmd EXCEPT ![p] = [NoCommand EXCEPT !.at = "audit", !.kind = kind,
                                                   !.was = mode, !.goal = goal]]
    /\ Holds(p) /\ typed' = typed + 1
    /\ UNCHANGED <<persona, archive, candidate, mode, units, core, killed, astray>>

(* enable starts the units and probes them; an unhealthy Laya is turned off
   again.  A mode other than off wants an enabled socket and a healthy probe. *)
PrepareUnits(p) ==
    /\ CommandAt(p, "begin")
    /\ CASE cmd[p].kind = "enable" ->
              \/ units' = TRUE /\ IF mode = "off" THEN GoesTo(p, "write") ELSE EndsWith(p, "succeeded")
              \/ units' \in {FALSE, TRUE} /\ EndsWith(p, "failed")
         [] cmd[p].kind = "mode" /\ cmd[p].goal # "off" ->
              \/ units /\ GoesTo(p, "write") /\ UNCHANGED units
              \/ EndsWith(p, "failed") /\ UNCHANGED units
         [] OTHER -> GoesTo(p, "write") /\ UNCHANGED units
    /\ UNCHANGED <<persona, archive, candidate, mode, core, lock, typed, killed, astray>>

AfterMode(p) == IF cmd[p].kind = "disable" THEN "stop" ELSE "record"

(* The file is replaced atomically.  The replacement may fail before the
   rename, or after it with the new mode in place (its directory is not
   synced); either way the command ends there. *)
SetMode(p) ==
    /\ CommandAt(p, "write")
    /\ \/ /\ mode = cmd[p].goal /\ UNCHANGED <<mode, astray>>
          /\ cmd' = [cmd EXCEPT ![p].at = AfterMode(p), ![p].outcome = "succeeded"]
       \/ /\ mode # cmd[p].goal /\ mode' = cmd[p].goal
          /\ GoesTo(p, "restart mode") /\ UNCHANGED astray
       \/ /\ mode' \in {mode, cmd[p].goal}
          /\ cmd' = [cmd EXCEPT ![p].at = AfterMode(p), ![p].outcome = "failed"]
          /\ astray' = IF mode' = mode THEN astray ELSE astray \cup {"write"}
    /\ UNCHANGED <<persona, archive, candidate, units, core, lock, typed, killed>>

(* Off is the safe direction and is never undone. *)
Undoes(p) == cmd[p].goal # "off"

RestartMode(p, ok) ==
    /\ CommandAt(p, "restart mode")
    /\ RestartCore(ok)
    /\ IF ~ok /\ Undoes(p) THEN GoesTo(p, "undo")
       ELSE cmd' = [cmd EXCEPT ![p].at = AfterMode(p),
                               ![p].outcome = IF ok THEN "succeeded" ELSE "failed"]
    /\ UNCHANGED <<persona, archive, candidate, mode, units, lock, typed, killed>>

Undo(p) ==
    /\ CommandAt(p, "undo")
    /\ \/ mode' = cmd[p].was /\ GoesTo(p, "restart undone") /\ UNCHANGED astray
       \/ /\ mode' \in {mode, cmd[p].was} /\ EndsWith(p, "failed")
          /\ astray' = astray \cup {"write"}
    /\ UNCHANGED <<persona, archive, candidate, units, core, lock, typed, killed>>

RestartUndone(p, ok) ==
    /\ CommandAt(p, "restart undone")
    /\ RestartCore(ok) /\ EndsWith(p, "failed")
    /\ UNCHANGED <<persona, archive, candidate, mode, units, lock, typed, killed>>

(* Turning off always completes: the units stop whatever became of Core. *)
StopUnits(p) ==
    /\ CommandAt(p, "stop")
    /\ \/ units' = FALSE /\ GoesTo(p, "record")
       \/ UNCHANGED units /\ EndsWith(p, "failed")
    /\ UNCHANGED <<persona, archive, candidate, mode, core, lock, typed, killed, astray>>

-----------------------------------------------------------------------------
(* A laya command is interrupted; persona ignores interruptions once it has
   the locks.  The locks are the process's. *)
Killable(p) == cmd[p].kind \in {"enable", "disable", "mode"} \/ CommandAt(p, "ask")

Kill(p) ==
    /\ ~CommandAt(p, "idle") /\ Killable(p) /\ killed < MaxDeaths
    /\ Leaves(p) /\ killed' = killed + 1
    /\ astray' = IF cmd[p].at \in {"restart mode", "undo", "restart undone"}
                 THEN astray \cup {"restart"} ELSE astray
    /\ UNCHANGED <<persona, archive, candidate, mode, units, core, typed>>

-----------------------------------------------------------------------------
HostInit ==
    /\ persona \in Personas \cup {NoPersona} /\ archive = {persona} \ {NoPersona}
    /\ candidate \in Personas
    /\ mode = "off" /\ units = FALSE
    /\ core = [persona |-> persona, mode |-> "off", ready |-> TRUE]
    /\ lock = Free /\ cmd = [p \in Terminals |-> NoCommand]
    /\ typed = 0 /\ killed = 0 /\ astray = {}

HostNext ==
    \/ Commit
    \/ \E p \in Terminals :
         \/ \E to \in Personas, kind \in {"install", "rollback"} : Plan(p, kind, to)
         \/ Laya(p, "enable", "shadow") \/ Laya(p, "disable", "off")
         \/ \E goal \in Modes : Laya(p, "mode", goal)
         \/ Apply(p) \/ Audit(p) \/ Install(p) \/ NoneToRestore(p) \/ Restore(p) \/ Record(p)
         \/ PrepareUnits(p) \/ SetMode(p) \/ Undo(p) \/ StopUnits(p) \/ Kill(p)
         \/ \E ok \in BOOLEAN : RestartWith(p, ok) \/ RestartBack(p, ok)
                                 \/ RestartMode(p, ok) \/ RestartUndone(p, ok)

HostSpec == HostInit /\ [][HostNext]_hostVars

-----------------------------------------------------------------------------
(* After "succeeded"
   Core runs the new persona, after "restored" the one that was confirmed as
   replaced, and "failed" over an installed persona has changed nothing. *)
PersonaOutcomeIsTrue ==
    \A p \in Terminals :
        CommandAt(p, "record") /\ cmd[p].kind \in {"install", "rollback"} =>
            CASE cmd[p].outcome = "succeeded" ->
                     persona = cmd[p].to /\ core.persona = persona /\ core.ready
              [] cmd[p].outcome = "restored" ->
                     persona = cmd[p].from /\ core.persona = persona /\ core.ready
              [] cmd[p].outcome = "failed" -> cmd[p].from = NoPersona \/ persona = cmd[p].from
              [] OTHER -> TRUE

(* Between commands a ready Core runs what its files say.  The exceptions are
   the ones the owner was told of, and they last until a restart succeeds: a
   restart or a restoration that failed, a replacement that failed after its
   rename, and a command killed between its write and its restart. *)
CoreFollowsFiles ==
    lock = Free /\ core.ready /\ astray = {} => core.persona = persona /\ core.mode = mode

(* A switch that failed is undone and "off" stays, whether the failure is
   Core's or systemctl's: a failed command leaves the mode it found or off,
   unless it is the write itself that failed. *)
FailedSwitchIsUndone ==
    \A p \in Terminals :
        CommandAt(p, "record") /\ cmd[p].kind \in {"enable", "disable", "mode"}
          /\ cmd[p].outcome = "failed" => mode \in {cmd[p].was, "off"} \/ "write" \in astray

(* The outcome a command records is what happened, and Core follows the files
   it is left with, however commands of several terminals interleave and end: a
   persona that another command installed after the owner was asked is never
   overwritten. *)
OutcomeIsTrue == PersonaOutcomeIsTrue /\ CoreFollowsFiles /\ FailedSwitchIsUndone

=============================================================================
