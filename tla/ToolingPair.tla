---------------------------- MODULE ToolingPair ----------------------------
(***************************************************************************)
(* Replacing the two privileged tools of a Home Node, the CLI and the      *)
(* updater, by those of the active release (migrate_installed_tooling of   *)
(* crates/admin/src/main.rs), and the two-step schema migration of the     *)
(* same file, whose second step must not be orphaned.  Every file-system   *)
(* call may fail, and the process may die between any two of them.         *)
(***************************************************************************)
EXTENDS Naturals

CONSTANTS MaxKills,  \* bound: deaths of the process
          MaxRuns     \* bound: times the command is run

VARIABLES tool,      \* the installed file of each tool: "old", "new" or "none"
          stage,     \* its .new file
          backup,    \* its .previous file
          settings,  \* updater.env exists
          made,      \* this run created updater.env
          run,       \* where the command is
          ran,       \* runs so far
          deaths,    \* deaths so far
          entry,     \* history: the tools and the settings when the run began
          torn,      \* history: this run died, or failed to undo what it had done
          staged,    \* the release whose files are staged, or "none"
          cli,       \* the migration command: where it is
          deaf,      \* it ignores SIGINT and SIGHUP
          migrating  \* the candidate's updater is at work

toolVars == <<tool, stage, backup, settings, made, run, ran, deaths, entry, torn>>
migrateVars == <<staged, cli, deaf, migrating>>
toolingVars == <<tool, stage, backup, settings, made, run, ran, deaths, entry, torn,
                 staged, cli, deaf, migrating>>

Tools == {"admin", "updater"}
Files == {"none", "old", "new"}
Before == [tools |-> tool, settings |-> settings]

-----------------------------------------------------------------------------
(* migrate_installed_tooling and install_tooling_pair.                      *)

ToolBegin ==
    /\ run = "idle" /\ ran < MaxRuns
    /\ run' = "settings" /\ ran' = ran + 1 /\ made' = FALSE
    /\ entry' = Before /\ torn' = FALSE
    /\ UNCHANGED <<tool, stage, backup, settings, deaths>>

(* ensure_updater_config: written to a temporary file and renamed. *)
Settle ==
    /\ run = "settings"
    /\ \/ settings' = TRUE /\ made' = ~settings /\ run' = "stage admin"
       \/ run' = "idle" /\ UNCHANGED <<settings, made>>
    /\ UNCHANGED <<tool, stage, backup, ran, deaths, entry, torn>>

(* The copy may fail half way and leave a stage that the next run removes. *)
StageExecutable(t) ==
    /\ run = (IF t = "admin" THEN "stage admin" ELSE "stage updater")
    /\ stage' = [stage EXCEPT ![t] = "new"]
    /\ run' \in {IF t = "admin" THEN "stage updater" ELSE "backup admin", "unsettle"}
    /\ UNCHANGED <<tool, backup, settings, made, ran, deaths, entry, torn>>

(* A tool that is not installed has no backup. *)
BackupTool(t) ==
    /\ run = (IF t = "admin" THEN "backup admin" ELSE "backup updater")
    /\ backup' = [backup EXCEPT ![t] = IF tool[t] = "none" THEN @ ELSE tool[t]]
    /\ run' \in {IF t = "admin" THEN "backup updater" ELSE "activate updater", "unsettle"}
    /\ UNCHANGED <<tool, stage, settings, made, ran, deaths, entry, torn>>

(* The updater is renamed into place first; a failure removes the temporaries. *)
ActivateUpdater ==
    /\ run = "activate updater"
    /\ \/ /\ tool' = [tool EXCEPT !["updater"] = stage["updater"]]
          /\ stage' = [stage EXCEPT !["updater"] = "none"]
          /\ run' = "activate admin" /\ UNCHANGED backup
       \/ /\ stage' = [t \in Tools |-> "none"] /\ backup' = [t \in Tools |-> "none"]
          /\ run' = "unsettle" /\ UNCHANGED tool
    /\ UNCHANGED <<settings, made, ran, deaths, entry, torn>>

ActivateAdmin ==
    /\ run = "activate admin"
    /\ \/ /\ tool' = [tool EXCEPT !["admin"] = stage["admin"]]
          /\ stage' = [stage EXCEPT !["admin"] = "none"]
          /\ run' = "tidy"
       \/ run' = "restore" /\ UNCHANGED <<tool, stage>>
    /\ UNCHANGED <<backup, settings, made, ran, deaths, entry, torn>>

(* Fault: a failed activation of the CLI keeps the new updater. *)
RestoredNever == tool

(* restore_tool: the backup is renamed back, or the new file removed. *)
Restored == [tool EXCEPT !["updater"] = IF entry.tools["updater"] = "none" THEN "none"
                                        ELSE backup["updater"]]
RestoreTool ==
    /\ run = "restore"
    /\ \/ /\ tool' = Restored
          /\ backup' = [t \in Tools |-> "none"] /\ stage' = [stage EXCEPT !["admin"] = "none"]
          /\ UNCHANGED torn
       \/ torn' = TRUE /\ UNCHANGED <<tool, stage, backup>>
    /\ run' = "unsettle"
    /\ UNCHANGED <<settings, made, ran, deaths, entry>>

(* rollback_new_updater_config. *)
Unsettle ==
    /\ run = "unsettle"
    /\ \/ settings' = (settings /\ ~made) /\ UNCHANGED torn
       \/ made /\ torn' = TRUE /\ UNCHANGED settings
    /\ run' = "idle"
    /\ UNCHANGED <<tool, stage, backup, made, ran, deaths, entry>>

Tidy ==
    /\ run = "tidy"
    /\ backup' \in [Tools -> Files]
    /\ \A t \in Tools : backup'[t] \in {backup[t], "none"}
    /\ run' = "idle"
    /\ UNCHANGED <<tool, stage, settings, made, ran, deaths, entry, torn>>

Die ==
    /\ run # "idle" /\ deaths < MaxKills
    /\ run' = "idle" /\ deaths' = deaths + 1
    /\ torn' = TRUE
    /\ UNCHANGED <<tool, stage, backup, settings, made, ran, entry>>

-----------------------------------------------------------------------------
(* migrate_update: stage, ask, then migrate with the candidate's updater.   *)

MigrateBegin ==
    /\ cli = "idle" /\ ~migrating /\ cli' = "staging"
    /\ UNCHANGED <<staged, deaf, migrating>>

(* The updater may be busy or refuse; what is staged stays staged. *)
MigrateStaged ==
    /\ cli = "staging"
    /\ \/ staged' = "candidate" /\ cli' = "asking"
       \/ cli' = "idle" /\ UNCHANGED staged
    /\ UNCHANGED <<deaf, migrating>>

MigrateRefused == cli = "asking" /\ cli' = "idle" /\ UNCHANGED <<staged, deaf, migrating>>

MigrateConfirmed ==
    /\ cli = "asking" /\ staged = "candidate"
    /\ deaf' = TRUE
    /\ cli' = "migrating"
    /\ UNCHANGED <<staged, migrating>>

MigrateWorks ==
    /\ cli = "migrating" /\ ~migrating
    /\ \/ migrating' = TRUE /\ UNCHANGED <<cli, deaf>>
       \/ cli' = "idle" /\ deaf' = FALSE /\ UNCHANGED migrating     \* busy: exit 75
    /\ UNCHANGED staged

MigrateEnds ==
    /\ migrating /\ migrating' = FALSE /\ cli' = "idle" /\ deaf' = FALSE
    /\ staged' = "none"

(* Ctrl-C or a closed terminal ends the command wherever it listens. *)
Interrupt ==
    /\ cli # "idle" /\ ~deaf /\ cli' = "idle"
    /\ UNCHANGED <<staged, deaf, migrating>>

-----------------------------------------------------------------------------
ToolingInit ==
    /\ tool \in {[t \in Tools |-> "old"], [t \in Tools |-> "none"],
                 [t \in Tools |-> IF t = "admin" THEN "none" ELSE "old"]}
    /\ stage = [t \in Tools |-> "none"] /\ backup = [t \in Tools |-> "none"]
    /\ settings \in BOOLEAN /\ made = FALSE /\ run = "idle" /\ ran = 0 /\ deaths = 0
    /\ entry = Before /\ torn = FALSE
    /\ staged = "none" /\ cli = "idle" /\ deaf = FALSE /\ migrating = FALSE

ToolStep ==
    \/ ToolBegin \/ Settle \/ ActivateUpdater \/ ActivateAdmin \/ RestoreTool \/ Unsettle
    \/ Tidy \/ Die
    \/ \E t \in Tools : StageExecutable(t) \/ BackupTool(t)

MigrateStep ==
    \/ MigrateBegin \/ MigrateStaged \/ MigrateRefused \/ MigrateConfirmed
    \/ MigrateWorks \/ MigrateEnds \/ Interrupt

ToolingNext == \/ ToolStep /\ UNCHANGED migrateVars
               \/ MigrateStep /\ UNCHANGED toolVars

ToolingSpec == ToolingInit /\ [][ToolingNext]_toolingVars

-----------------------------------------------------------------------------
(* A run that was not cut short leaves either both tools of the release or
   exactly what it found, settings included: "updater restored".  No failure or
   death takes a tool away that was installed, and a migration that may have
   stopped services never outlives the command that reports its outcome. *)
PairIsWhole ==
    /\ run = "idle" /\ ~torn => (\A t \in Tools : tool[t] = "new") \/ Before = entry
    /\ \A t \in Tools : entry.tools[t] # "none" => tool[t] # "none"
    /\ migrating => cli = "migrating"
=============================================================================
