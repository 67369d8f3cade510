----------------------------- MODULE HostProofs -----------------------------
(***************************************************************************)
(* Proofs about six of the host's administration tools, which share no     *)
(* state: the replacement of the two privileged tools with the schema      *)
(* migration, the commands that change Core's files, the console, the      *)
(* administrator session of the desktop application, the provider          *)
(* accounts, and the updates of Core.                                      *)
(***************************************************************************)
EXTENDS AdminConsole, ToolingPair, HostCommands, AdminSession, ProviderAccounts, CoreUpdate,
        FiniteInduction, TLAPS

-----------------------------------------------------------------------------
(* The two tools.                                                           *)

Preparing == {"stage admin", "stage updater", "backup admin", "backup updater", "activate updater"}
Phases == {"idle", "settings", "activate admin", "restore", "tidy", "unsettle"} \cup Preparing

ToolTypes ==
  /\ tool \in [Tools -> Files] /\ stage \in [Tools -> Files] /\ backup \in [Tools -> Files]
  /\ settings \in BOOLEAN /\ made \in BOOLEAN
  /\ entry \in [tools : [Tools -> Files], settings : BOOLEAN]
  /\ run \in Phases

\* The updater that was there is in its backup.
UpdaterIsBackedUp == entry.tools["updater"] # "none" => backup["updater"] = entry.tools["updater"]

\* Where the run is says what it has done: nothing but to create the settings until the
\* updater is activated, then the updater only, then both.
PhaseInv ==
  /\ run \in {"settings"} \cup Preparing => tool = entry.tools
  /\ run = "settings" => settings = entry.settings
  /\ run \in {"activate admin", "restore", "unsettle"} \cup Preparing => settings = TRUE /\ made = ~entry.settings
  /\ run \in {"stage updater", "backup admin", "backup updater", "activate updater", "activate admin"} =>
       stage["admin"] = "new"
  /\ run \in {"backup admin", "backup updater", "activate updater"} => stage["updater"] = "new"
  /\ run \in {"activate updater", "activate admin", "restore"} => UpdaterIsBackedUp
  /\ run \in {"activate admin", "restore"} => tool["updater"] = "new" /\ tool["admin"] = entry.tools["admin"]
  /\ run = "tidy" => tool["admin"] = "new" /\ tool["updater"] = "new"
  /\ run = "unsettle" => torn \/ tool = entry.tools
  /\ run = "idle" => torn \/ (tool["admin"] = "new" /\ tool["updater"] = "new")
                          \/ (tool = entry.tools /\ settings = entry.settings)

ToolsStay == \A t \in Tools : entry.tools[t] # "none" => tool[t] # "none"

ToolInv == ToolTypes /\ PhaseInv /\ ToolsStay

\* A command that has been confirmed can no longer be interrupted.
MigrateInv == (migrating => cli = "migrating") /\ (cli = "migrating" => deaf)

LEMMA MigrateInvStep == MigrateInv /\ (MigrateStep \/ UNCHANGED migrateVars) => MigrateInv'
<1>. SUFFICES ASSUME MigrateInv, MigrateStep \/ UNCHANGED migrateVars PROVE MigrateInv' OBVIOUS
<1>. USE DEF MigrateInv
<1>1. CASE MigrateBegin BY <1>1 DEF MigrateBegin
<1>2. CASE MigrateStaged BY <1>2 DEF MigrateStaged
<1>3. CASE MigrateRefused BY <1>3 DEF MigrateRefused
<1>4. CASE MigrateConfirmed BY <1>4 DEF MigrateConfirmed
<1>5. CASE MigrateWorks
  <2>1. CASE UNCHANGED <<cli, deaf>> BY <1>5, <2>1 DEF MigrateWorks
  <2>2. CASE cli' = "idle" /\ UNCHANGED migrating BY <1>5, <2>2 DEF MigrateWorks
  <2>. QED BY <1>5, <2>1, <2>2 DEF MigrateWorks
<1>6. CASE MigrateEnds BY <1>6 DEF MigrateEnds
<1>7. CASE Interrupt BY <1>7 DEF Interrupt
<1>8. CASE UNCHANGED migrateVars BY <1>8 DEF migrateVars
<1>. QED BY <1>1, <1>2, <1>3, <1>4, <1>5, <1>6, <1>7, <1>8 DEF MigrateStep

LEMMA ToolInvKept == ToolInv /\ UNCHANGED toolVars => ToolInv'
<1>. SUFFICES ASSUME ToolInv, UNCHANGED toolVars PROVE ToolInv' OBVIOUS
<1>1. ToolTypes' BY DEF ToolInv, toolVars, ToolTypes
<1>2. PhaseInv' BY DEF ToolInv, toolVars, PhaseInv, UpdaterIsBackedUp
<1>3. ToolsStay' BY DEF ToolInv, toolVars, ToolsStay
<1>. QED BY <1>1, <1>2, <1>3 DEF ToolInv

LEMMA ToolInvStep == ToolInv /\ ToolStep => ToolInv'
<1>. SUFFICES ASSUME ToolInv, ToolStep PROVE ToolInv' OBVIOUS
<1>. USE DEF Preparing
<1>0. ToolTypes /\ PhaseInv /\ ToolsStay BY DEF ToolInv
<1>1. CASE ToolBegin
  <2>1. ToolTypes' BY <1>0, <1>1 DEF ToolBegin, ToolTypes, Phases, Before
  <2>2. entry'.tools = tool /\ entry'.settings = settings /\ tool' = tool /\ settings' = settings /\ run' = "settings"
    BY <1>1 DEF ToolBegin, Before
  <2>3. PhaseInv' BY <2>2 DEF PhaseInv
  <2>4. ToolsStay' BY <2>2 DEF ToolsStay
  <2>. QED BY <2>1, <2>3, <2>4 DEF ToolInv
<1>2. CASE Settle
  <2>1. ToolTypes' BY <1>0, <1>2 DEF Settle, ToolTypes, Phases
  <2>2. PhaseInv' BY <1>0, <1>2 DEF Settle, PhaseInv, ToolTypes
  <2>3. ToolsStay' BY <1>0, <1>2 DEF Settle, ToolsStay
  <2>. QED BY <2>1, <2>2, <2>3 DEF ToolInv
<1>3. ASSUME NEW t \in Tools, StageExecutable(t) PROVE ToolInv'
  <2>1. ToolTypes' BY <1>0, <1>3 DEF StageExecutable, ToolTypes, Phases, Tools, Files
  <2>2. PhaseInv' BY <1>0, <1>3 DEF StageExecutable, PhaseInv, ToolTypes, UpdaterIsBackedUp, Tools
  <2>3. ToolsStay' BY <1>0, <1>3 DEF StageExecutable, ToolsStay
  <2>. QED BY <2>1, <2>2, <2>3 DEF ToolInv
<1>4. ASSUME NEW t \in Tools, BackupTool(t) PROVE ToolInv'
  <2>1. ToolTypes' BY <1>0, <1>4 DEF BackupTool, ToolTypes, Phases, Tools
  <2>2. PhaseInv' BY <1>0, <1>4 DEF BackupTool, PhaseInv, ToolTypes, UpdaterIsBackedUp, Tools
  <2>3. ToolsStay' BY <1>0, <1>4 DEF BackupTool, ToolsStay
  <2>. QED BY <2>1, <2>2, <2>3 DEF ToolInv
<1>5. CASE ActivateUpdater
  <2>1. ToolTypes' BY <1>0, <1>5 DEF ActivateUpdater, ToolTypes, Phases, Tools, Files
  <2>2. PhaseInv' BY <1>0, <1>5 DEF ActivateUpdater, PhaseInv, ToolTypes, UpdaterIsBackedUp, Tools
  <2>3. ToolsStay' BY <1>0, <1>5 DEF ActivateUpdater, ToolsStay, PhaseInv, ToolTypes, Tools
  <2>. QED BY <2>1, <2>2, <2>3 DEF ToolInv
<1>6. CASE ActivateAdmin
  <2>1. ToolTypes' BY <1>0, <1>6 DEF ActivateAdmin, ToolTypes, Phases, Tools, Files
  <2>2. PhaseInv' BY <1>0, <1>6 DEF ActivateAdmin, PhaseInv, ToolTypes, UpdaterIsBackedUp, Tools
  <2>3. ToolsStay' BY <1>0, <1>6 DEF ActivateAdmin, ToolsStay, PhaseInv, ToolTypes, Tools
  <2>. QED BY <2>1, <2>2, <2>3 DEF ToolInv
<1>7. CASE RestoreTool
  <2>1. ToolTypes' BY <1>0, <1>7 DEF RestoreTool, Restored, ToolTypes, Phases, Tools, Files
  <2>2. PhaseInv' BY <1>0, <1>7 DEF RestoreTool, Restored, PhaseInv, ToolTypes, UpdaterIsBackedUp, Tools
  <2>3. ToolsStay' BY <1>0, <1>7 DEF RestoreTool, Restored, ToolsStay, PhaseInv, UpdaterIsBackedUp, ToolTypes, Tools
  <2>. QED BY <2>1, <2>2, <2>3 DEF ToolInv
<1>8. CASE Unsettle
  <2>1. ToolTypes' BY <1>0, <1>8 DEF Unsettle, ToolTypes, Phases
  <2>2. PhaseInv' BY <1>0, <1>8 DEF Unsettle, PhaseInv, ToolTypes
  <2>3. ToolsStay' BY <1>0, <1>8 DEF Unsettle, ToolsStay
  <2>. QED BY <2>1, <2>2, <2>3 DEF ToolInv
<1>9. CASE Tidy
  <2>1. ToolTypes' BY <1>0, <1>9 DEF Tidy, ToolTypes, Phases
  <2>2. PhaseInv' BY <1>0, <1>9 DEF Tidy, PhaseInv
  <2>3. ToolsStay' BY <1>0, <1>9 DEF Tidy, ToolsStay
  <2>. QED BY <2>1, <2>2, <2>3 DEF ToolInv
<1>10. CASE Die
  <2>1. ToolTypes' BY <1>0, <1>10 DEF Die, ToolTypes, Phases
  <2>2. PhaseInv' BY <1>0, <1>10 DEF Die, PhaseInv
  <2>3. ToolsStay' BY <1>0, <1>10 DEF Die, ToolsStay
  <2>. QED BY <2>1, <2>2, <2>3 DEF ToolInv
<1>. QED BY <1>1, <1>2, <1>3, <1>4, <1>5, <1>6, <1>7, <1>8, <1>9, <1>10 DEF ToolStep

\* A run that was not cut short leaves both tools of the release or exactly what it found, no
\* failure or death takes a tool away, and a migration never outlives its command
\* (migrate_installed_tooling, install_tooling_pair, migrate_update).
THEOREM PairIsWholeAlways == ToolingSpec => []PairIsWhole
<1>. DEFINE Inv == ToolInv /\ MigrateInv
<1>1. ToolingInit => Inv
  <2>. SUFFICES ASSUME ToolingInit PROVE Inv OBVIOUS
  <2>1. ToolTypes BY DEF ToolingInit, ToolTypes, Phases, Before, Tools, Files
  <2>2. entry.tools = tool /\ entry.settings = settings /\ run = "idle" /\ migrating = FALSE /\ cli = "idle"
    BY DEF ToolingInit, Before
  <2>3. PhaseInv /\ ToolsStay /\ MigrateInv BY <2>2 DEF PhaseInv, ToolsStay, MigrateInv, Preparing
  <2>. QED BY <2>1, <2>3 DEF ToolInv
<1>2. Inv /\ [ToolingNext]_toolingVars => Inv'
  <2>. SUFFICES ASSUME Inv, [ToolingNext]_toolingVars PROVE Inv' OBVIOUS
  <2>1. (ToolStep \/ UNCHANGED toolVars) /\ (MigrateStep \/ UNCHANGED migrateVars)
    BY DEF ToolingNext, toolingVars, toolVars, migrateVars
  <2>. QED BY <2>1, ToolInvStep, ToolInvKept, MigrateInvStep
<1>3. Inv => PairIsWhole
  <2>. SUFFICES ASSUME Inv PROVE PairIsWhole OBVIOUS
  <2>1. ASSUME run = "idle", ~torn PROVE (\A t \in Tools : tool[t] = "new") \/ Before = entry
    <3>1. CASE tool["admin"] = "new" /\ tool["updater"] = "new" BY <3>1 DEF Tools
    <3>2. CASE tool = entry.tools /\ settings = entry.settings
      BY <3>2 DEF ToolInv, ToolTypes, Before
    <3>. QED BY <2>1, <3>1, <3>2 DEF ToolInv, PhaseInv
  <2>. QED BY <2>1 DEF PairIsWhole, ToolInv, ToolsStay, MigrateInv
<1>. QED BY <1>1, <1>2, <1>3, PTL DEF ToolingSpec

-----------------------------------------------------------------------------
(* jarvis persona and jarvis laya.                                          *)

PersonaKinds == {"install", "rollback"}
LayaKinds == {"enable", "disable", "mode"}
PersonaPhases == {"ask", "audit", "install", "restart", "none to restore", "restore", "restart back", "record"}
LayaPhases == {"audit", "begin", "write", "restart mode", "undo", "restart undone", "stop", "record"}
CmdPhases == {"idle"} \cup PersonaPhases \cup LayaPhases
CmdOutcomes == {"none", "succeeded", "failed", "restored", "restore-failed"}
AnyPersona == Personas \cup {NoPersona}

CmdType ==
  [at : CmdPhases, kind : {"none"} \cup PersonaKinds \cup LayaKinds, from : AnyPersona, to : AnyPersona,
   was : Modes, goal : Modes, outcome : CmdOutcomes]

HostTypes ==
  /\ persona \in AnyPersona /\ mode \in Modes
  /\ cmd \in [Terminals -> CmdType]
  /\ lock \in Terminals \cup {Free}

\* A ready Core runs what its files say, unless a command went astray.
Settled == core.ready /\ astray = {} => core.persona = persona /\ core.mode = mode

\* What the holder of the locks has done by its phase.
PersonaCmd(c) ==
  /\ c.at \in PersonaPhases
  /\ c.at \in {"audit", "install", "restart back"} => persona = c.from
  /\ c.at = "restart" => persona = c.to
  /\ c.at = "none to restore" => c.from = NoPersona
  /\ c.at = "record" =>
       /\ c.outcome = "succeeded" => persona = c.to /\ core.persona = persona /\ core.ready
       /\ c.outcome = "restored" => persona = c.from /\ core.persona = persona /\ core.ready
       /\ c.outcome = "failed" => c.from = NoPersona \/ persona = c.from

LayaCmd(c) ==
  /\ c.at \in LayaPhases
  /\ c.kind = "disable" => c.goal = "off"
  /\ c.at \in {"audit", "begin", "write", "restart undone"} => mode = c.was
  /\ c.at = "restart mode" => mode = c.goal
  /\ c.at = "stop" => mode \in {c.was, "off"} \/ "write" \in astray
  /\ c.at = "record" /\ c.outcome = "failed" => mode \in {c.was, "off"} \/ "write" \in astray

CmdOK(c) ==
  /\ c.at # "idle" => c.kind \in PersonaKinds \cup LayaKinds
  /\ c.at # "idle" /\ c.kind \in PersonaKinds => PersonaCmd(c)
  /\ c.at # "idle" /\ c.kind \in LayaKinds => LayaCmd(c)
  /\ c.at \in {"audit", "install", "begin", "write", "stop", "record"} => Settled

Outside == {"idle", "ask"}

\* Commands past the question hold the locks, which are one terminal's.
HostInv ==
  /\ HostTypes
  /\ \A p \in Terminals : lock = p <=> cmd[p].at \notin Outside
  /\ \A p \in Terminals : CmdOK(cmd[p])
  /\ lock = Free => Settled

\* A command without the locks has nothing to be true to.
LEMMA OutsideIsOK ==
  ASSUME NEW c \in CmdType, c.at \in Outside, CmdOK(c)
  PROVE  CmdOK(c)'
BY DEF CmdOK, PersonaCmd, LayaCmd, Outside, PersonaPhases, PersonaKinds, LayaKinds, LayaPhases

Becomes(p, c) == cmd' = [cmd EXCEPT ![p] = c]

\* The command goes on at w with the outcome o.
Moved(p, c, w, o) ==
  /\ Becomes(p, c) /\ c.at = w /\ c.outcome = o /\ c.kind = cmd[p].kind /\ c.from = cmd[p].from
  /\ c.to = cmd[p].to /\ c.was = cmd[p].was /\ c.goal = cmd[p].goal

\* One terminal's command becomes c: it has the locks or leaves Core and its files alone.
LEMMA OneCommand ==
  ASSUME HostInv, NEW p \in Terminals, NEW c \in CmdType, Becomes(p, c),
         lock = p \/ UNCHANGED <<persona, mode, core, astray>>,
         persona' \in AnyPersona, mode' \in Modes,
         \/ lock \in {Free, p} /\ lock' = p /\ c.at \notin Outside
         \/ c.at \in Outside /\ lock' = (IF lock = p THEN Free ELSE lock),
         CmdOK(c)', lock' = Free => Settled'
  PROVE  HostInv'
<1>0. HostTypes /\ Free \notin Terminals BY HostAssumption DEF HostInv, Free
<1>1. cmd' \in [Terminals -> CmdType] /\ cmd'[p] = c /\ \A q \in Terminals : q # p => cmd'[q] = cmd[q]
  BY <1>0 DEF HostTypes, Becomes
<1>2. lock' \in Terminals \cup {Free} BY <1>0 DEF HostTypes
<1>3. \A q \in Terminals : lock = q <=> cmd[q].at \notin Outside BY DEF HostInv
<1>4. \A q \in Terminals : lock' = q <=> cmd'[q].at \notin Outside BY <1>0, <1>1, <1>3
<1>5. ASSUME NEW q \in Terminals PROVE CmdOK(cmd[q])'
  <2>1. CASE q = p BY <1>1, <2>1
  <2>2. CASE q # p
    <3>1. cmd'[q] = cmd[q] /\ CmdOK(cmd[q]) /\ cmd[q] \in CmdType BY <1>0, <1>1, <2>2 DEF HostInv, HostTypes
    <3>2. PICK d \in CmdType : d = cmd[q] BY <3>1
    <3>3. CASE d.at \in Outside
      <4>1. CmdOK(d)' BY <3>1, <3>2, <3>3, OutsideIsOK
      <4>. QED BY <3>1, <3>2, <4>1
    <3>4. CASE d.at \notin Outside
      <4>1. UNCHANGED <<persona, mode, core, astray>> BY <1>3, <2>2, <3>2, <3>4
      <4>2. PersonaCmd(d) => PersonaCmd(d)' BY <4>1 DEF PersonaCmd
      <4>3. LayaCmd(d) => LayaCmd(d)' BY <4>1 DEF LayaCmd
      <4>4. Settled => Settled' BY <4>1 DEF Settled
      <4>5. CmdOK(d)' BY <3>1, <3>2, <4>2, <4>3, <4>4 DEF CmdOK
      <4>. QED BY <3>1, <3>2, <4>5
    <3>. QED BY <3>3, <3>4
  <2>. QED BY <2>1, <2>2
<1>. QED BY <1>1, <1>2, <1>4, <1>5 DEF HostInv, HostTypes

LEMMA CmdNames ==
  /\ "idle" \in CmdPhases /\ "ask" \in CmdPhases /\ "audit" \in CmdPhases
  /\ "install" \in CmdPhases /\ "restart" \in CmdPhases /\ "none to restore" \in CmdPhases
  /\ "restore" \in CmdPhases /\ "restart back" \in CmdPhases /\ "record" \in CmdPhases
  /\ "begin" \in CmdPhases /\ "write" \in CmdPhases /\ "restart mode" \in CmdPhases
  /\ "undo" \in CmdPhases /\ "restart undone" \in CmdPhases /\ "stop" \in CmdPhases
  /\ "none" \in CmdOutcomes /\ "succeeded" \in CmdOutcomes /\ "failed" \in CmdOutcomes
  /\ "restored" \in CmdOutcomes /\ "restore-failed" \in CmdOutcomes
BY DEF CmdPhases, PersonaPhases, LayaPhases, CmdOutcomes

\* What the moves of a command make of it.
LEMMA MoveShape ==
  ASSUME HostTypes, NEW p \in Terminals, NEW w \in CmdPhases, NEW o \in CmdOutcomes,
         cmd' = [cmd EXCEPT ![p].at = w, ![p].outcome = o]
  PROVE  \E c \in CmdType : Moved(p, c, w, o)
<1>. DEFINE c == [[cmd[p] EXCEPT !.at = w] EXCEPT !.outcome = o]
<1>1. cmd[p] \in CmdType /\ cmd \in [Terminals -> CmdType] BY DEF HostTypes
<1>2. Becomes(p, c) BY <1>1 DEF Becomes
<1>3. c \in CmdType /\ Moved(p, c, w, o) BY <1>1, <1>2 DEF CmdType, Moved
<1>. QED BY <1>3

LEMMA EndShape ==
  ASSUME HostTypes, NEW p \in Terminals, NEW o \in CmdOutcomes, EndsWith(p, o)
  PROVE  \E c \in CmdType : Moved(p, c, "record", o)
<1>1. "record" \in CmdPhases BY CmdNames
<1>2. cmd' = [cmd EXCEPT ![p].at = "record", ![p].outcome = o] BY DEF EndsWith
<1>. QED BY <1>1, <1>2, MoveShape

LEMMA GoShape ==
  ASSUME HostTypes, NEW p \in Terminals, NEW w \in CmdPhases, GoesTo(p, w)
  PROVE  \E c \in CmdType : Moved(p, c, w, cmd[p].outcome)
<1>. DEFINE c == [cmd[p] EXCEPT !.at = w]
<1>1. cmd[p] \in CmdType /\ cmd \in [Terminals -> CmdType] BY DEF HostTypes
<1>2. Becomes(p, c) BY <1>1 DEF GoesTo, Becomes
<1>3. c \in CmdType /\ Moved(p, c, w, cmd[p].outcome) BY <1>1, <1>2 DEF CmdType, Moved
<1>. QED BY <1>3

\* A command that ends leaves the locks, and Core as settled as it found it or astray.
LEMMA LeaveKeeps ==
  ASSUME HostInv, NEW p \in Terminals, Leaves(p), UNCHANGED <<persona, mode, core>>,
         lock # p => UNCHANGED astray,
         lock = p => Settled'
  PROVE  HostInv'
<1>0. HostTypes /\ Free \notin Terminals BY HostAssumption DEF HostInv, Free
<1>1. NoCommand \in CmdType /\ NoCommand.at = "idle"
  BY DEF NoCommand, CmdType, CmdPhases, AnyPersona, Modes, CmdOutcomes
<1>2. CmdOK(NoCommand)' BY <1>1 DEF CmdOK
<1>3. lock' = (IF lock = p THEN Free ELSE lock) /\ Becomes(p, NoCommand) BY DEF Leaves, Becomes
<1>4. lock' = Free => Settled'
  <2>1. CASE lock = p BY <2>1
  <2>2. CASE lock # p BY <1>3, <2>2 DEF HostInv, Settled
  <2>. QED BY <2>1, <2>2
<1>. QED BY <1>0, <1>1, <1>2, <1>3, <1>4, OneCommand DEF Outside, HostTypes

\* The holder of the locks goes on.
LEMMA HolderKeeps ==
  ASSUME HostInv, NEW p \in Terminals, lock = p, UNCHANGED lock, NEW c \in CmdType,
         Becomes(p, c), persona' \in AnyPersona, mode' \in Modes,
         c.at \notin Outside, CmdOK(c)'
  PROVE  HostInv'
<1>1. lock' = p /\ lock' # Free BY HostAssumption DEF Free
<1>. QED BY <1>1, OneCommand

\* A restart that succeeds has Core run its files; one that fails is on record.
LEMMA RestartLoads ==
  ASSUME NEW ok \in BOOLEAN, RestartCore(ok)
  PROVE  /\ ok => core'.persona = persona /\ core'.mode = mode /\ core'.ready /\ astray' = {}
         /\ ~ok => astray' # {}
BY DEF RestartCore

LEMMA PersonaStep ==
  ASSUME HostInv, NEW p \in Terminals,
         Install(p) \/ NoneToRestore(p) \/ Restore(p) \/ \E ok \in BOOLEAN : RestartWith(p, ok) \/ RestartBack(p, ok)
  PROVE  HostInv'
<1>0. HostTypes /\ CmdOK(cmd[p]) BY DEF HostInv
<1>. USE DEF PersonaPhases, LayaPhases, PersonaKinds, LayaKinds, Outside
<1>9. /\ "restart" \in CmdPhases /\ "none to restore" \in CmdPhases /\ "restore" \in CmdPhases
      /\ "restart back" \in CmdPhases /\ "failed" \in CmdOutcomes /\ "succeeded" \in CmdOutcomes
      /\ "restored" \in CmdOutcomes /\ "restore-failed" \in CmdOutcomes
  BY CmdNames
<1>1. cmd[p].at \in {"install", "restart", "none to restore", "restore", "restart back"}
      /\ UNCHANGED <<lock, mode>>
  BY DEF Install, RestartWith, NoneToRestore, Restore, RestartBack, CommandAt
<1>2. lock = p /\ cmd[p].kind \in PersonaKinds /\ PersonaCmd(cmd[p])
  BY <1>0, <1>1 DEF HostInv, CmdOK, LayaCmd
<1>3. cmd[p].from \in AnyPersona /\ cmd[p].to \in AnyPersona /\ persona \in AnyPersona /\ mode \in Modes
  BY <1>0 DEF HostTypes, CmdType
<1>4. CASE Install(p)
  <2>1. UNCHANGED core /\ cmd[p].at = "install" BY <1>4 DEF Install, CommandAt
  <2>2. CASE EndsWith(p, "failed") /\ UNCHANGED <<persona, archive, astray>>
    <3>1. PICK c \in CmdType : Moved(p, c, "record", "failed") BY <1>0, <2>2, <1>9, EndShape, Zenon
    <3>2. CmdOK(c)' BY <1>0, <1>1, <1>2, <2>1, <2>2, <3>1 DEF CmdOK, PersonaCmd, Moved, Settled
    <3>. QED BY <1>1, <1>2, <1>3, <2>2, <3>1, <3>2, HolderKeeps DEF Moved
  <2>3. CASE Replace(cmd[p].to) /\ GoesTo(p, "restart")
    <3>1. PICK c \in CmdType : Moved(p, c, "restart", cmd[p].outcome) BY <1>0, <2>3, <1>9, GoShape, Zenon
    <3>2. persona' = cmd[p].to BY <2>3 DEF Replace
    <3>3. CmdOK(c)' BY <1>2, <3>1, <3>2 DEF CmdOK, PersonaCmd, Moved
    <3>. QED BY <1>1, <1>2, <1>3, <3>1, <3>2, <3>3, HolderKeeps DEF Moved
  <2>4. CASE /\ Replace(cmd[p].to)
             /\ IF cmd[p].from = NoPersona THEN GoesTo(p, "none to restore") ELSE GoesTo(p, "restore")
    <3>1. PICK w \in {"none to restore", "restore"} : GoesTo(p, w) /\ (w = "none to restore" => cmd[p].from = NoPersona)
      BY <2>4
    <3>2. w \in CmdPhases BY <1>9, <3>1
    <3>3. PICK c \in CmdType : Moved(p, c, w, cmd[p].outcome) BY <1>0, <3>1, <3>2, GoShape, Zenon
    <3>4. persona' = cmd[p].to BY <2>4 DEF Replace
    <3>5. CmdOK(c)' BY <1>2, <3>1, <3>3 DEF CmdOK, PersonaCmd, Moved
    <3>. QED BY <1>1, <1>2, <1>3, <3>1, <3>3, <3>4, <3>5, HolderKeeps DEF Moved
  <2>. QED BY <1>4, <2>2, <2>3, <2>4 DEF Install
<1>5. ASSUME NEW ok \in BOOLEAN, RestartWith(p, ok) PROVE HostInv'
  <2>1. UNCHANGED persona /\ RestartCore(ok) /\ cmd[p].at = "restart" BY <1>5 DEF RestartWith, CommandAt
  <2>2. CASE ok
    <3>1. EndsWith(p, "succeeded") BY <1>5, <2>2 DEF RestartWith
    <3>2. PICK c \in CmdType : Moved(p, c, "record", "succeeded") BY <1>0, <3>1, <1>9, EndShape, Zenon
    <3>4. core'.persona = persona /\ core'.mode = mode /\ core'.ready BY <2>1, <2>2, RestartLoads
    <3>3. CmdOK(c)' BY <1>1, <1>2, <2>1, <3>2, <3>4 DEF CmdOK, PersonaCmd, Moved, Settled
    <3>. QED BY <1>1, <1>2, <1>3, <2>1, <3>2, <3>3, HolderKeeps DEF Moved
  <2>3. CASE ~ok
    <3>1. GoesTo(p, IF cmd[p].from = NoPersona THEN "none to restore" ELSE "restore")
      BY <1>5, <2>3 DEF RestartWith
    <3>2. PICK w \in {"none to restore", "restore"} : GoesTo(p, w) /\ (w = "none to restore" => cmd[p].from = NoPersona)
      BY <3>1
    <3>3. w \in CmdPhases BY <1>9, <3>2
    <3>4. PICK c \in CmdType : Moved(p, c, w, cmd[p].outcome) BY <1>0, <3>2, <3>3, GoShape, Zenon
    <3>5. CmdOK(c)' BY <1>2, <3>2, <3>4 DEF CmdOK, PersonaCmd, Moved
    <3>. QED BY <1>1, <1>2, <1>3, <2>1, <3>2, <3>4, <3>5, HolderKeeps DEF Moved
  <2>. QED BY <2>2, <2>3
<1>6. CASE NoneToRestore(p)
  <2>1. UNCHANGED <<persona, core>> /\ astray' # {} /\ cmd[p].at = "none to restore" /\ EndsWith(p, "failed")
    BY <1>6 DEF NoneToRestore, CommandAt
  <2>2. PICK c \in CmdType : Moved(p, c, "record", "failed") BY <1>0, <2>1, <1>9, EndShape, Zenon
  <2>3. CmdOK(c)' BY <1>2, <2>1, <2>2 DEF CmdOK, PersonaCmd, Moved, Settled
  <2>. QED BY <1>1, <1>2, <1>3, <2>1, <2>2, <2>3, HolderKeeps DEF Moved
<1>7. CASE Restore(p)
  <2>1. UNCHANGED core /\ cmd[p].at = "restore" BY <1>7 DEF Restore, CommandAt
  <2>2. CASE Replace(cmd[p].from) /\ GoesTo(p, "restart back")
    <3>1. PICK c \in CmdType : Moved(p, c, "restart back", cmd[p].outcome) BY <1>0, <2>2, <1>9, GoShape, Zenon
    <3>2. persona' = cmd[p].from BY <2>2 DEF Replace
    <3>3. CmdOK(c)' BY <1>2, <3>1, <3>2 DEF CmdOK, PersonaCmd, Moved
    <3>. QED BY <1>1, <1>2, <1>3, <3>1, <3>2, <3>3, HolderKeeps DEF Moved
  <2>3. CASE EndsWith(p, "restore-failed") /\ astray' = astray \cup {"restart"}
    <3>1. PICK c \in CmdType : Moved(p, c, "record", "restore-failed") BY <1>0, <2>3, <1>9, EndShape, Zenon
    <3>2. persona' \in AnyPersona BY <1>3, <1>7 DEF Restore, Replace
    <3>3. CmdOK(c)' BY <1>2, <2>3, <3>1 DEF CmdOK, PersonaCmd, Moved, Settled
    <3>. QED BY <1>1, <1>2, <1>3, <3>1, <3>2, <3>3, HolderKeeps DEF Moved
  <2>. QED BY <1>7, <2>2, <2>3 DEF Restore
<1>8. ASSUME NEW ok \in BOOLEAN, RestartBack(p, ok) PROVE HostInv'
  <2>1. /\ UNCHANGED persona /\ RestartCore(ok) /\ cmd[p].at = "restart back"
        /\ EndsWith(p, IF ok THEN "restored" ELSE "restore-failed")
    BY <1>8 DEF RestartBack, CommandAt
  <2>2. PICK o \in {"restored", "restore-failed"} : EndsWith(p, o) /\ (o = "restored" <=> ok)
    BY <2>1
  <2>3. o \in CmdOutcomes BY <1>9, <2>2
  <2>4. PICK c \in CmdType : Moved(p, c, "record", o) BY <1>0, <2>2, <2>3, EndShape, Zenon
  <2>6. /\ ok => core'.persona = persona /\ core'.mode = mode /\ core'.ready
        /\ ~ok => astray' # {}
    BY <2>1, RestartLoads
  <2>5. CmdOK(c)' BY <1>1, <1>2, <2>1, <2>2, <2>4, <2>6 DEF CmdOK, PersonaCmd, Moved, Settled
  <2>. QED BY <1>1, <1>2, <1>3, <2>1, <2>4, <2>5, HolderKeeps DEF Moved
<1>. QED BY <1>4, <1>5, <1>6, <1>7, <1>8

\* The last look at the mode: the command stops the units or has its outcome.
LEMMA AfterModeShape ==
  ASSUME HostInv, NEW p \in Terminals, cmd[p].at \in {"write", "restart mode"}, NEW o \in {"succeeded", "failed"},
         cmd' = [cmd EXCEPT ![p].at = AfterMode(p), ![p].outcome = o]
  PROVE  \E c \in CmdType : Moved(p, c, AfterMode(p), o)
<1>1. HostTypes BY DEF HostInv
<1>2. AfterMode(p) \in CmdPhases BY CmdNames DEF AfterMode
<1>3. o \in CmdOutcomes BY CmdNames
<1>4. PICK w \in CmdPhases : w = AfterMode(p) BY <1>2
<1>5. cmd' = [cmd EXCEPT ![p].at = w, ![p].outcome = o] BY <1>4
<1>6. \E c \in CmdType : Moved(p, c, w, o) BY <1>1, <1>3, <1>5, MoveShape
<1>. QED BY <1>4, <1>6

LEMMA LayaStep ==
  ASSUME HostInv, NEW p \in Terminals,
         \/ PrepareUnits(p) \/ SetMode(p) \/ Undo(p) \/ StopUnits(p)
         \/ \E ok \in BOOLEAN : RestartMode(p, ok) \/ RestartUndone(p, ok)
  PROVE  HostInv'
<1>0. HostTypes /\ CmdOK(cmd[p]) BY DEF HostInv
<1>. USE DEF PersonaPhases, LayaPhases, PersonaKinds, LayaKinds, Outside
<1>9. /\ "record" \in CmdPhases /\ "write" \in CmdPhases /\ "restart mode" \in CmdPhases
      /\ "undo" \in CmdPhases /\ "restart undone" \in CmdPhases
      /\ "failed" \in CmdOutcomes /\ "succeeded" \in CmdOutcomes
  BY CmdNames
<1>1. cmd[p].at \in {"begin", "write", "restart mode", "undo", "restart undone", "stop"}
      /\ UNCHANGED <<lock, persona>>
  BY DEF PrepareUnits, SetMode, RestartMode, Undo, RestartUndone, StopUnits, CommandAt
<1>2. lock = p /\ cmd[p].kind \in LayaKinds /\ LayaCmd(cmd[p])
  BY <1>0, <1>1 DEF HostInv, CmdOK, PersonaCmd
<1>3. cmd[p].was \in Modes /\ cmd[p].goal \in Modes /\ persona \in AnyPersona /\ mode \in Modes
  BY <1>0 DEF HostTypes, CmdType
<1>4. CASE PrepareUnits(p)
  <2>1. UNCHANGED <<core, mode, astray>> /\ cmd[p].at = "begin" /\ Settled
    BY <1>0, <1>4 DEF PrepareUnits, CommandAt, CmdOK
  <2>2. GoesTo(p, "write") \/ EndsWith(p, "succeeded") \/ EndsWith(p, "failed") BY <1>4 DEF PrepareUnits
  <2>3. CASE GoesTo(p, "write")
    <3>1. PICK c \in CmdType : Moved(p, c, "write", cmd[p].outcome) BY <1>0, <2>3, <1>9, GoShape, Zenon
    <3>2. CmdOK(c)' BY <1>1, <1>2, <2>1, <3>1 DEF CmdOK, LayaCmd, Moved, Settled
    <3>. QED BY <1>1, <1>2, <1>3, <2>1, <3>1, <3>2, HolderKeeps DEF Moved
  <2>4. ASSUME NEW o \in {"succeeded", "failed"}, EndsWith(p, o) PROVE HostInv'
    <3>1. PICK c \in CmdType : Moved(p, c, "record", o) BY <1>0, <2>4, <1>9, EndShape
    <3>2. CmdOK(c)' BY <1>1, <1>2, <2>1, <3>1 DEF CmdOK, LayaCmd, Moved, Settled
    <3>. QED BY <1>1, <1>2, <1>3, <2>1, <3>1, <3>2, HolderKeeps DEF Moved
  <2>. QED BY <2>2, <2>3, <2>4
<1>5. CASE SetMode(p)
  <2>1. UNCHANGED core /\ cmd[p].at = "write" /\ Settled
    BY <1>0, <1>5 DEF SetMode, CommandAt, CmdOK
  <2>2. CASE mode' = cmd[p].goal /\ GoesTo(p, "restart mode")
    <3>1. PICK c \in CmdType : Moved(p, c, "restart mode", cmd[p].outcome) BY <1>0, <2>2, <1>9, GoShape, Zenon
    <3>2. CmdOK(c)' BY <1>1, <1>2, <2>1, <2>2, <3>1 DEF CmdOK, LayaCmd, Moved
    <3>. QED BY <1>1, <1>2, <1>3, <2>1, <2>2, <3>1, <3>2, HolderKeeps DEF Moved
  <2>3. ASSUME NEW o \in {"succeeded", "failed"}, mode' \in {mode, cmd[p].goal},
               (mode' = mode /\ UNCHANGED astray) \/ astray' = astray \cup {"write"},
               cmd' = [cmd EXCEPT ![p].at = AfterMode(p), ![p].outcome = o]
        PROVE  HostInv'
    <3>1. PICK c \in CmdType : Moved(p, c, AfterMode(p), o) BY <2>1, <2>3, AfterModeShape
    <3>2. CmdOK(c)' BY <1>1, <1>2, <2>1, <2>3, <3>1 DEF CmdOK, LayaCmd, Moved, Settled, AfterMode
    <3>. QED BY <1>1, <1>2, <1>3, <2>1, <2>3, <3>1, <3>2, HolderKeeps DEF Moved, AfterMode
  <2>. QED BY <1>5, <2>2, <2>3 DEF SetMode
<1>6. ASSUME NEW ok \in BOOLEAN, RestartMode(p, ok) PROVE HostInv'
  <2>1. UNCHANGED mode /\ RestartCore(ok) /\ cmd[p].at = "restart mode" BY <1>6 DEF RestartMode, CommandAt
  <2>2. CASE GoesTo(p, "undo")
    <3>1. PICK c \in CmdType : Moved(p, c, "undo", cmd[p].outcome) BY <1>0, <2>2, <1>9, GoShape, Zenon
    <3>2. CmdOK(c)' BY <1>1, <1>2, <2>1, <2>2, <3>1 DEF CmdOK, LayaCmd, Moved
    <3>. QED BY <1>1, <1>2, <1>3, <2>1, <2>2, <3>1, <3>2, HolderKeeps DEF Moved
  <2>3. ASSUME NEW o \in {"succeeded", "failed"}, o = "succeeded" <=> ok, ok \/ ~Undoes(p),
               cmd' = [cmd EXCEPT ![p].at = AfterMode(p), ![p].outcome = o]
        PROVE  HostInv'
    <3>1. PICK c \in CmdType : Moved(p, c, AfterMode(p), o) BY <2>1, <2>3, AfterModeShape
    <3>2. /\ ok => core'.persona = persona /\ core'.mode = mode
          /\ ~ok => astray' # {}
      BY <2>1, RestartLoads
    <3>3. Settled' BY <1>1, <2>1, <3>2 DEF Settled
    <3>4. mode' = cmd[p].goal /\ (AfterMode(p) = "stop" \/ o = "failed" => mode' = "off")
      BY <1>2, <2>1, <2>3 DEF LayaCmd, AfterMode, Undoes
    <3>5. CmdOK(c)' BY <1>2, <3>1, <3>3, <3>4 DEF CmdOK, LayaCmd, Moved, AfterMode
    <3>. QED BY <1>1, <1>2, <1>3, <2>1, <2>3, <3>1, <3>5, HolderKeeps DEF Moved, AfterMode
  <2>4. CASE ok BY <1>6, <2>2, <2>3, <2>4 DEF RestartMode
  <2>5. CASE ~ok BY <1>6, <2>2, <2>3, <2>5 DEF RestartMode
  <2>. QED BY <2>4, <2>5
<1>7. CASE Undo(p)
  <2>1. UNCHANGED core /\ cmd[p].at = "undo" BY <1>7 DEF Undo, CommandAt
  <2>2. CASE mode' = cmd[p].was /\ GoesTo(p, "restart undone")
    <3>1. PICK c \in CmdType : Moved(p, c, "restart undone", cmd[p].outcome) BY <1>0, <2>2, <1>9, GoShape, Zenon
    <3>2. CmdOK(c)' BY <1>1, <1>2, <2>1, <2>2, <3>1 DEF CmdOK, LayaCmd, Moved
    <3>. QED BY <1>1, <1>2, <1>3, <2>1, <2>2, <3>1, <3>2, HolderKeeps DEF Moved
  <2>3. CASE EndsWith(p, "failed") /\ astray' = astray \cup {"write"} /\ mode' \in {mode, cmd[p].was}
    <3>1. PICK c \in CmdType : Moved(p, c, "record", "failed") BY <1>0, <2>3, <1>9, EndShape, Zenon
    <3>2. "write" \in astray' /\ astray' # {} /\ mode' \in Modes BY <1>3, <2>3
    <3>3. CmdOK(c)' BY <1>1, <1>2, <3>1, <3>2 DEF CmdOK, LayaCmd, Moved, Settled
    <3>. QED BY <1>1, <1>2, <1>3, <3>1, <3>2, <3>3, HolderKeeps DEF Moved
  <2>. QED BY <1>7, <2>2, <2>3 DEF Undo
<1>8. ASSUME NEW ok \in BOOLEAN, RestartUndone(p, ok) PROVE HostInv'
  <2>1. /\ UNCHANGED mode /\ RestartCore(ok) /\ cmd[p].at = "restart undone" /\ EndsWith(p, "failed")
    BY <1>8 DEF RestartUndone, CommandAt
  <2>2. PICK c \in CmdType : Moved(p, c, "record", "failed") BY <1>0, <2>1, <1>9, EndShape, Zenon
  <2>4. /\ ok => core'.persona = persona /\ core'.mode = mode
        /\ ~ok => astray' # {}
    BY <2>1, RestartLoads
  <2>3. CmdOK(c)' BY <1>1, <1>2, <2>1, <2>2, <2>4 DEF CmdOK, LayaCmd, Moved, Settled
  <2>. QED BY <1>1, <1>2, <1>3, <2>1, <2>2, <2>3, HolderKeeps DEF Moved
<1>10. CASE StopUnits(p)
  <2>1. UNCHANGED <<core, mode, astray>> /\ cmd[p].at = "stop" /\ Settled
    BY <1>0, <1>10 DEF StopUnits, CommandAt, CmdOK
  <2>2. PICK c \in CmdType, o \in CmdOutcomes : Moved(p, c, "record", o)
    <3>1. CASE GoesTo(p, "record")
      <4>1. \E c \in CmdType : Moved(p, c, "record", cmd[p].outcome) BY <1>0, <1>9, <3>1, GoShape, Zenon
      <4>2. cmd[p].outcome \in CmdOutcomes BY <1>0 DEF HostTypes, CmdType
      <4>. QED BY <4>1, <4>2
    <3>2. CASE EndsWith(p, "failed")
      <4>1. \E c \in CmdType : Moved(p, c, "record", "failed") BY <1>0, <1>9, <3>2, EndShape, Zenon
      <4>. QED BY <1>9, <4>1
    <3>. QED BY <1>10, <3>1, <3>2 DEF StopUnits
  <2>3. CmdOK(c)' BY <1>1, <1>2, <2>1, <2>2 DEF CmdOK, LayaCmd, Moved, Settled
  <2>. QED BY <1>1, <1>2, <1>3, <2>1, <2>2, <2>3, HolderKeeps DEF Moved
<1>. QED BY <1>4, <1>5, <1>6, <1>7, <1>8, <1>10

\* A command that starts is the terminal's own until it has the locks.
LEMMA StartStep ==
  ASSUME HostInv, NEW p \in Terminals,
         \/ \E to \in Personas, kind \in PersonaKinds : Plan(p, kind, to)
         \/ Laya(p, "enable", "shadow") \/ Laya(p, "disable", "off") \/ \E goal \in Modes : Laya(p, "mode", goal)
  PROVE  HostInv'
<1>0. HostTypes BY DEF HostInv
<1>1. persona \in AnyPersona /\ mode \in Modes /\ NoPersona \in AnyPersona BY <1>0 DEF HostTypes, AnyPersona
<1>2. UNCHANGED <<persona, mode, core, astray>> BY DEF Plan, Laya
<1>3. ASSUME NEW to \in Personas, NEW kind \in PersonaKinds, Plan(p, kind, to) PROVE HostInv'
  <2>. DEFINE n == [NoCommand EXCEPT !.at = "ask", !.kind = kind, !.from = persona, !.to = to]
  <2>0. n \in CmdType /\ n.at = "ask" /\ n.kind = kind /\ Becomes(p, n)
    BY <1>1, <1>3 DEF Plan, Becomes, NoCommand, CmdType, CmdPhases, AnyPersona, Modes, CmdOutcomes, PersonaPhases
  <2>. HIDE DEF n
  <2>9. PICK c \in CmdType : c.at = "ask" /\ c.kind = kind /\ Becomes(p, c) BY <2>0
  <2>1. Becomes(p, c) /\ UNCHANGED lock /\ cmd[p].at = "idle" BY <1>3, <2>9 DEF Plan, CommandAt
  <2>3. lock # p BY <2>1 DEF HostInv, Outside
  <2>4. CmdOK(c)' BY <2>9 DEF CmdOK, PersonaCmd, PersonaPhases, PersonaKinds, LayaKinds
  <2>5. lock' = Free => Settled' BY <1>2, <2>1 DEF HostInv, Settled
  <2>. QED BY <1>1, <1>2, <2>1, <2>9, <2>3, <2>4, <2>5, OneCommand DEF Outside
<1>4. ASSUME NEW kind \in LayaKinds, NEW goal \in Modes, kind = "disable" => goal = "off", Laya(p, kind, goal) PROVE HostInv'
  <2>. DEFINE n == [NoCommand EXCEPT !.at = "audit", !.kind = kind, !.was = mode, !.goal = goal]
  <2>0. n \in CmdType /\ n.at = "audit" /\ n.kind = kind /\ n.was = mode /\ n.goal = goal /\ Becomes(p, n)
    BY <1>1, <1>4 DEF Laya, Becomes, NoCommand, CmdType, CmdPhases, AnyPersona, Modes, CmdOutcomes, LayaPhases
  <2>. HIDE DEF n
  <2>1. lock = Free /\ lock' = p BY <1>4 DEF Laya, Holds
  <2>2. PICK c \in CmdType : c.at = "audit" /\ c.kind = kind /\ c.was = mode /\ c.goal = goal /\ Becomes(p, c)
    BY <2>0
  <2>3. Settled BY <2>1 DEF HostInv
  <2>4. CmdOK(c)' BY <1>2, <1>4, <2>2, <2>3 DEF CmdOK, LayaCmd, LayaPhases, PersonaKinds, LayaKinds, Settled
  <2>5. lock' = Free => Settled' BY <1>2, <2>3 DEF Settled
  <2>. QED BY <1>1, <1>2, <2>1, <2>2, <2>4, <2>5, OneCommand DEF Outside
<1>5. "enable" \in LayaKinds /\ "disable" \in LayaKinds /\ "mode" \in LayaKinds /\ "off" \in Modes /\ "shadow" \in Modes
  BY DEF LayaKinds, Modes
<1>. QED BY <1>3, <1>4, <1>5

\* Confirmed, audited, recorded or killed: a command comes to the locks or leaves.
LEMMA ApplyStep ==
  ASSUME HostInv, NEW p \in Terminals, Apply(p)
  PROVE  HostInv'
<1>0. HostTypes /\ CmdOK(cmd[p]) BY DEF HostInv
<1>1. /\ UNCHANGED <<persona, mode, core, astray>> /\ cmd[p].at = "ask" /\ cmd[p].kind \in PersonaKinds
  BY DEF Apply, CommandAt, PersonaKinds
<1>2. lock # p BY <1>1 DEF HostInv, Outside
<1>3. CASE Leaves(p) BY <1>1, <1>2, <1>3, LeaveKeeps
<1>4. CASE lock = Free /\ PlanHolds(p) /\ Holds(p) /\ GoesTo(p, "audit")
  <2>1. PICK c \in CmdType : Moved(p, c, "audit", cmd[p].outcome)
    <3>1. "audit" \in CmdPhases BY CmdNames
    <3>. QED BY <1>0, <1>4, <3>1, GoShape, Zenon
  <2>2. Settled /\ Settled' BY <1>1, <1>4 DEF HostInv, Settled
  <2>3. CmdOK(c)' BY <1>1, <1>4, <2>1, <2>2
    DEF CmdOK, PersonaCmd, PersonaPhases, PersonaKinds, LayaKinds, Moved, PlanHolds
  <2>4. lock' = p /\ persona' \in AnyPersona /\ mode' \in Modes BY <1>0, <1>1, <1>4 DEF Holds, HostTypes
  <2>. QED BY <1>1, <1>4, <2>1, <2>2, <2>3, <2>4, OneCommand DEF Outside, Moved
<1>. QED BY <1>3, <1>4 DEF Apply

LEMMA AuditStep ==
  ASSUME HostInv, NEW p \in Terminals, Audit(p)
  PROVE  HostInv'
<1>0. HostTypes /\ CmdOK(cmd[p]) BY DEF HostInv
<1>1. UNCHANGED <<persona, mode, core, astray>> /\ cmd[p].at = "audit" BY DEF Audit, CommandAt
<1>2. lock = p /\ Settled /\ Settled' /\ persona' \in AnyPersona /\ mode' \in Modes
  BY <1>0, <1>1 DEF HostInv, HostTypes, Outside, CmdOK, Settled
<1>3. CASE Leaves(p) BY <1>1, <1>2, <1>3, LeaveKeeps
<1>4. CASE GoesTo(p, IF cmd[p].kind \in {"install", "rollback"} THEN "install" ELSE "begin") /\ UNCHANGED lock
  <2>1. PICK w \in {"install", "begin"} : GoesTo(p, w) /\ (w = "install" <=> cmd[p].kind \in PersonaKinds)
    BY <1>4 DEF PersonaKinds
  <2>2. w \in CmdPhases BY CmdNames
  <2>3. PICK c \in CmdType : Moved(p, c, w, cmd[p].outcome) BY <1>0, <2>1, <2>2, GoShape, Zenon
  <2>4. CmdOK(c)' BY <1>0, <1>1, <1>2, <2>1, <2>3
    DEF CmdOK, PersonaCmd, LayaCmd, PersonaPhases, LayaPhases, PersonaKinds, LayaKinds, Moved
  <2>. QED BY <1>2, <1>4, <2>3, <2>4, HolderKeeps DEF Outside, Moved
<1>. QED BY <1>3, <1>4 DEF Audit

LEMMA RecordStep ==
  ASSUME HostInv, NEW p \in Terminals, Record(p)
  PROVE  HostInv'
<1>1. UNCHANGED <<persona, mode, core, astray>> /\ cmd[p].at = "record" /\ Leaves(p) BY DEF Record, CommandAt
<1>2. Settled' BY <1>1 DEF HostInv, CmdOK, Settled
<1>. QED BY <1>1, <1>2, LeaveKeeps

LEMMA KillStep ==
  ASSUME HostInv, NEW p \in Terminals, Kill(p)
  PROVE  HostInv'
<1>0. HostTypes /\ CmdOK(cmd[p]) BY DEF HostInv
<1>1. UNCHANGED <<persona, mode, core>> /\ cmd[p].at # "idle" /\ Leaves(p)
  BY DEF Kill, CommandAt
<1>2. IF cmd[p].at \in {"restart mode", "undo", "restart undone"} THEN astray' # {} ELSE UNCHANGED astray
  BY DEF Kill
<1>3. lock # p => cmd[p].at = "ask" BY <1>1 DEF HostInv, Outside
<1>4. lock = p => Settled'
  <2>1. SUFFICES ASSUME lock = p PROVE Settled' OBVIOUS
  <2>2. cmd[p].at # "ask" BY <2>1 DEF HostInv, Outside
  <2>3. cmd[p].kind \in LayaKinds /\ LayaCmd(cmd[p])
    BY <1>0, <1>1, <2>2 DEF Kill, Killable, CommandAt, LayaKinds, CmdOK
  <2>4. CASE cmd[p].at \in {"restart mode", "undo", "restart undone"} BY <1>2, <2>4 DEF Settled
  <2>5. CASE cmd[p].at \notin {"restart mode", "undo", "restart undone"}
    <3>1. Settled BY <1>0, <2>3, <2>5 DEF CmdOK, LayaCmd, LayaPhases
    <3>. QED BY <1>1, <1>2, <2>5, <3>1 DEF Settled
  <2>. QED BY <2>4, <2>5
<1>5. lock # p => UNCHANGED astray BY <1>2, <1>3
<1>. QED BY <1>1, <1>4, <1>5, LeaveKeeps

LEMMA HostInvInit ==
  ASSUME HostInit
  PROVE  HostInv
<1>1. NoCommand \in CmdType /\ NoCommand.at = "idle"
  BY DEF NoCommand, CmdType, CmdPhases, AnyPersona, Modes, CmdOutcomes
<1>2. HostTypes BY <1>1 DEF HostInit, HostTypes, AnyPersona, Modes
<1>3. lock = Free /\ Settled /\ \A p \in Terminals : cmd[p] = NoCommand
  BY DEF HostInit, Settled
<1>4. Free \notin Terminals BY HostAssumption DEF Free
<1>5. \A p \in Terminals : CmdOK(cmd[p]) BY <1>1, <1>3 DEF CmdOK
<1>. QED BY <1>1, <1>2, <1>3, <1>4, <1>5 DEF HostInv, Outside

LEMMA HostInvStep ==
  ASSUME HostInv, [HostNext]_hostVars
  PROVE  HostInv'
<1>1. ASSUME UNCHANGED <<persona, mode, core, lock, cmd, astray>> PROVE HostInv'
  BY <1>1 DEF HostInv, HostTypes, CmdOK, PersonaCmd, LayaCmd, Settled
<1>2. CASE UNCHANGED hostVars BY <1>1, <1>2 DEF hostVars
<1>3. CASE Commit BY <1>1, <1>3 DEF Commit
<1>4. ASSUME NEW p \in Terminals,
             \/ \E to \in Personas, kind \in {"install", "rollback"} : Plan(p, kind, to)
             \/ Laya(p, "enable", "shadow") \/ Laya(p, "disable", "off") \/ \E goal \in Modes : Laya(p, "mode", goal)
      PROVE  HostInv'
  BY <1>4, StartStep DEF PersonaKinds
<1>5. ASSUME NEW p \in Terminals,
             \/ Install(p) \/ NoneToRestore(p) \/ Restore(p)
             \/ \E ok \in BOOLEAN : RestartWith(p, ok) \/ RestartBack(p, ok)
      PROVE  HostInv'
  BY <1>5, PersonaStep
<1>6. ASSUME NEW p \in Terminals,
             \/ PrepareUnits(p) \/ SetMode(p) \/ Undo(p) \/ StopUnits(p)
             \/ \E ok \in BOOLEAN : RestartMode(p, ok) \/ RestartUndone(p, ok)
      PROVE  HostInv'
  BY <1>6, LayaStep
<1>7. ASSUME NEW p \in Terminals, Apply(p) \/ Audit(p) \/ Record(p) \/ Kill(p) PROVE HostInv'
  BY <1>7, ApplyStep, AuditStep, RecordStep, KillStep
<1>. QED BY <1>2, <1>3, <1>4, <1>5, <1>6, <1>7 DEF HostNext

LEMMA HostInvImplies ==
  ASSUME HostInv
  PROVE  OutcomeIsTrue
<1>1. CoreFollowsFiles BY DEF HostInv, CoreFollowsFiles, Settled
<1>2. ASSUME NEW p \in Terminals, CommandAt(p, "record"), cmd[p].kind \in {"install", "rollback"}
      PROVE  PersonaCmd(cmd[p]) /\ cmd[p].at = "record"
  BY <1>2 DEF HostInv, CmdOK, CommandAt, PersonaKinds
<1>3. PersonaOutcomeIsTrue BY <1>2 DEF PersonaOutcomeIsTrue, PersonaCmd
<1>4. ASSUME NEW p \in Terminals, CommandAt(p, "record"), cmd[p].kind \in {"enable", "disable", "mode"}
      PROVE  LayaCmd(cmd[p]) /\ cmd[p].at = "record"
  BY <1>4 DEF HostInv, CmdOK, CommandAt, LayaKinds
<1>5. FailedSwitchIsUndone BY <1>4 DEF FailedSwitchIsUndone, LayaCmd
<1>. QED BY <1>1, <1>3, <1>5 DEF OutcomeIsTrue

(* The outcome a persona or Laya command records is what happened, a switch
   that failed is undone unless the write itself failed, and between commands a
   ready Core runs what its files say from any restart that succeeded on, until
   one fails or is not reached or a write fails after its rename: for any number
   of terminals whose commands interleave, fail, and are killed. *)
THEOREM OutcomeIsTrueAlways == HostSpec => []OutcomeIsTrue
<1>1. HostInit => HostInv BY HostInvInit
<1>2. HostInv /\ [HostNext]_hostVars => HostInv' BY HostInvStep
<1>3. HostInv => OutcomeIsTrue BY HostInvImplies
<1>. QED BY <1>1, <1>2, <1>3, PTL DEF HostSpec

-----------------------------------------------------------------------------
(* The console.                                                             *)

Operations == {"none"} \cup CenterMutating \cup CenterReadOnly

CenterType ==
  [there : BOOLEAN, screen : Screens, op : Operations, child : BOOLEAN,
   list : SUBSET Releases, chosen : Releases \cup {NoChoice}]

\* An operation that changes the release has its screen and its child, and a rollback
\* that is to be confirmed or runs is of the list last shown.
CenterOK(c) ==
  /\ c \in CenterType
  /\ c.op \in CenterMutating => c.child /\ c.screen = "Running"
  /\ c.screen = "RollbackConfirm" \/ c.op = "Rollback" => c.chosen \in c.list

\* Mutations are tied to the view they were started in, which is not left while they run.
ConsoleInv ==
  /\ CenterOK(center)
  /\ console \in {"open", "closed"}
  /\ cut # "key"
  /\ console = "closed" => job = "none" /\ center.op \notin CenterMutating
  /\ job \in Mutating => view \in {"Agents", "Models"}
  /\ center.op \in CenterMutating => view = "Update"
  /\ modal = "confirmDisable" => view = "Models"

\* What the Update Center's transitions make of it.
LEMMA RunningIsOK ==
  ASSUME CenterOK(center), NEW op \in Operations, op = "Rollback" => center.screen = "RollbackConfirm",
         NEW c, c = Running(op)
  PROVE  CenterOK(c) /\ c.op = op
<1>1. center \in CenterType BY DEF CenterOK
<1>2. "Running" \in Screens BY DEF Screens
<1>3. c \in CenterType /\ c.op = op /\ c.child /\ c.screen = "Running" /\ c.list = center.list /\ c.chosen = center.chosen
  BY <1>1, <1>2 DEF Running, CenterType
<1>. QED BY <1>3 DEF CenterOK

LEMMA EndedIsOK ==
  ASSUME CenterOK(center), NEW s \in Screens \ {"RollbackConfirm"}, NEW c, c = Ended(s)
  PROVE  CenterOK(c) /\ c.op = "none" /\ c.list = center.list /\ c.screen = s
<1>1. center \in CenterType BY DEF CenterOK
<1>2. "none" \in Operations BY DEF Operations
<1>3. c \in CenterType /\ c.op = "none" /\ c.screen = s /\ c.list = center.list
  BY <1>1, <1>2 DEF Ended, CenterType
<1>. QED BY <1>3 DEF CenterOK, CenterMutating

LEMMA ScreenIsOK ==
  ASSUME CenterOK(center), NEW s \in Screens \ {"RollbackConfirm"}, center.screen # "Running",
         NEW c, c = [center EXCEPT !.screen = s]
  PROVE  CenterOK(c) /\ c.op = center.op
<1>1. center \in CenterType BY DEF CenterOK
<1>2. c \in CenterType /\ c.op = center.op /\ c.screen = s BY <1>1 DEF CenterType
<1>. QED BY <1>2 DEF CenterOK, CenterMutating

LEMMA StartIsOK ==
  ASSUME CenterOK(center), NEW op \in Operations, op = "Rollback" => center.screen = "RollbackConfirm",
         CenterStart(op)
  PROVE  CenterOK(center') /\ center'.op \in {op, "none"}
<1>1. "Result" \in Screens \ {"RollbackConfirm"} BY DEF Screens
<1>2. CASE center' = Running(op) BY <1>2, RunningIsOK
<1>3. CASE center' = Ended("Result") BY <1>1, <1>3, EndedIsOK
<1>. QED BY <1>2, <1>3 DEF CenterStart

\* The helper's job begins, ends or goes on in the view it belongs to.
LEMMA JobKeeps ==
  ASSUME ConsoleInv, console = "open", UNCHANGED <<console, view, center>>, cut' # "key",
         job' \in Mutating => job' = job \/ view \in {"Agents", "Models"},
         modal' = "confirmDisable" => modal = modal' \/ view = "Models"
  PROVE  ConsoleInv'
BY DEF ConsoleInv

LEMMA BeginKeepsJob ==
  ASSUME NEW running, NEW op, NEW dialog, BeginOperation(running, op, dialog)
  PROVE  job' \in {running, op, "none"} /\ modal' \in {dialog, "result"}
BY DEF BeginOperation

LEMMA LogsKeepJob ==
  ASSUME NEW running, NEW follow, BeginLogs(running, follow)
  PROVE  (job' \in Mutating => job' = running) /\ modal' \in {modal, "result"}
<1>1. PICK op \in {"LogFollow", "LogRefresh"} : BeginOperation(running, op, modal) BY DEF BeginLogs
<1>2. job' \in {running, op, "none"} /\ modal' \in {modal, "result"} BY <1>1, BeginKeepsJob
<1>. QED BY <1>2 DEF Mutating

LEMMA JobSteps ==
  ASSUME ConsoleInv, Confirm \/ RefreshKey \/ OperateKey \/ LogsKey \/ JobEnds \/ JobLost
  PROVE  ConsoleInv'
<1>1. cut # "key" BY DEF ConsoleInv
<1>2. CASE Confirm
  <2>1. CASE modal = "confirmDisable" /\ BeginOperation(job, "ModelChange", "none")
    <3>1. job' \in {job, "ModelChange", "none"} /\ modal' \in {"none", "result"} BY <2>1, BeginKeepsJob
    <3>2. view = "Models" BY <2>1 DEF ConsoleInv
    <3>. QED BY <1>1, <1>2, <3>1, <3>2, JobKeeps DEF Confirm
  <2>2. CASE modal' = "result" /\ UNCHANGED job BY <1>1, <1>2, <2>2, JobKeeps DEF Confirm
  <2>. QED BY <1>2, <2>1, <2>2 DEF Confirm
<1>3. CASE RefreshKey
  <2>1. CASE view = "Models"
    <3>1. BeginOperation(job, "ModelRefresh", modal) BY <1>3, <2>1 DEF RefreshKey
    <3>2. modal' \in {modal, "result"} BY <3>1, BeginKeepsJob
    <3>. QED BY <1>1, <1>3, <2>1, <3>2, JobKeeps DEF RefreshKey
  <2>2. CASE view = "Logs"
    <3>1. BeginLogs(AfterStop, FALSE) BY <1>3, <2>2 DEF RefreshKey
    <3>2. (job' \in Mutating => job' = AfterStop) /\ modal' \in {modal, "result"} BY <3>1, LogsKeepJob
    <3>3. job' \in Mutating => job' = job BY <3>2 DEF AfterStop, Mutating
    <3>. QED BY <1>1, <1>3, <3>2, <3>3, JobKeeps DEF RefreshKey
  <2>3. CASE view \notin {"Models", "Logs"}
    <3>1. UNCHANGED <<job, modal>> BY <1>3, <2>3 DEF RefreshKey
    <3>. QED BY <1>1, <1>3, <3>1, JobKeeps DEF RefreshKey
  <2>. QED BY <2>1, <2>2, <2>3
<1>4. CASE OperateKey
  <2>0. console = "open" /\ UNCHANGED <<console, view, center, cut>> BY <1>4 DEF OperateKey, On
  <2>1. CASE On("Health") /\ BeginOperation(job, "HealthVerification", modal)
    <3>1. job' \in {job, "HealthVerification", "none"} /\ modal' \in {modal, "result"} BY <2>1, BeginKeepsJob
    <3>. QED BY <1>1, <2>0, <3>1, JobKeeps DEF Mutating
  <2>2. CASE On("Agents")
    <3>1. modal' \in {modal, "result", "confirmRollback"} BY <1>4, <2>2, BeginKeepsJob DEF OperateKey, On
    <3>. QED BY <1>1, <2>0, <2>2, <3>1, JobKeeps DEF On
  <2>3. CASE On("Models") BY <1>1, <2>0, <2>3, JobKeeps DEF On
  <2>. QED BY <1>4, <2>1, <2>2, <2>3 DEF OperateKey
<1>5. CASE LogsKey
  <2>0. console = "open" /\ UNCHANGED <<console, view, center, cut>> BY <1>5 DEF LogsKey, On
  <2>1. CASE BeginLogs(AfterStop, FALSE)
    <3>2. (job' \in Mutating => job' = AfterStop) /\ modal' \in {modal, "result"} BY <2>1, LogsKeepJob
    <3>3. job' \in Mutating => job' = job BY <3>2 DEF AfterStop, Mutating
    <3>. QED BY <1>1, <2>0, <3>2, <3>3, JobKeeps
  <2>2. CASE job' = "none" /\ UNCHANGED modal BY <1>1, <2>0, <2>2, JobKeeps DEF Mutating
  <2>3. CASE BeginLogs(job, TRUE)
    <3>2. (job' \in Mutating => job' = job) /\ modal' \in {modal, "result"} BY <2>3, LogsKeepJob
    <3>. QED BY <1>1, <2>0, <3>2, JobKeeps
  <2>. QED BY <1>5, <2>1, <2>2, <2>3 DEF LogsKey
<1>6. CASE JobEnds
  <2>1. modal' \in {modal, "result"} BY <1>6 DEF JobEnds
  <2>. QED BY <1>1, <1>6, <2>1, JobKeeps DEF JobEnds, Mutating
<1>7. CASE JobLost
  <2>1. cut' # "key" BY <1>1, <1>7 DEF JobLost
  <2>. QED BY <1>7, <2>1, JobKeeps DEF JobLost, Mutating
<1>. QED BY <1>2, <1>3, <1>4, <1>5, <1>6, <1>7

\* Nothing that changes is running, and the console closes or shows another view.
LEMMA CloseKeeps ==
  ASSUME ConsoleInv, NEW how, Close(how), how = "key" => ~MutationRunning
  PROVE  ConsoleInv'
<1>1. CenterOK(center) /\ center \in CenterType /\ cut # "key" BY DEF ConsoleInv, CenterOK
<1>2. cut' # "key" BY <1>1 DEF Close
<1>3. PICK c : c = [center EXCEPT !.op = "none", !.child = FALSE] OBVIOUS
<1>4. "none" \in Operations BY DEF Operations
<1>5. c \in CenterType /\ c.op = "none" /\ c.screen = center.screen /\ c.list = center.list /\ c.chosen = center.chosen
  BY <1>1, <1>3, <1>4 DEF CenterType
<1>6. CenterOK(c) BY <1>1, <1>5 DEF CenterOK, CenterMutating
<1>7. center' = c BY <1>3 DEF Close
<1>. QED BY <1>2, <1>5, <1>6, <1>7 DEF Close, ConsoleInv, Mutating, CenterMutating

LEMMA EnterKeeps ==
  ASSUME ConsoleInv, console = "open", ~MutationRunning, modal = "none", NEW v, NEW running, running \notin Mutating, Enter(v, running)
  PROVE  ConsoleInv'
<1>1. CenterOK(center) /\ center.op \notin CenterMutating BY DEF ConsoleInv, MutationRunning, CenterRunsMutation
<1>2. CenterOK(center') /\ center'.op \notin CenterMutating
  <2>1. CASE UNCHANGED center BY <1>1, <2>1
  <2>2. CASE CenterStart("Status")
    <3>1. "Status" \in Operations BY DEF Operations, CenterReadOnly
    <3>2. CenterOK(center') /\ center'.op \in {"Status", "none"} BY <1>1, <2>2, <3>1, StartIsOK
    <3>. QED BY <3>2 DEF CenterMutating
  <2>. QED BY <2>1, <2>2 DEF Enter
<1>3. job' \notin Mutating /\ modal' \in {"none", "result"}
  <2>1. CASE BeginLogs(running, FALSE) BY <2>1, LogsKeepJob
  <2>2. CASE job' = running /\ UNCHANGED modal BY <2>2
  <2>. QED BY <2>1, <2>2 DEF Enter
<1>. QED BY <1>2, <1>3 DEF Enter, ConsoleInv

LEMMA BackKeeps ==
  ASSUME ConsoleInv, console = "open", modal = "none", BackOrExit
  PROVE  ConsoleInv'
<1>1. ~MutationRunning BY DEF BackOrExit
<1>2. CASE Close("key") BY <1>1, <1>2, CloseKeeps
<1>3. CASE Enter(root, AfterStop)
  <2>1. AfterStop \notin Mutating BY <1>1 DEF AfterStop, MutationRunning, Mutating
  <2>. QED BY <1>1, <1>3, <2>1, EnterKeeps
<1>. QED BY <1>2, <1>3 DEF BackOrExit

\* The Update Center moves in its own view.
LEMMA CenterKeeps ==
  ASSUME ConsoleInv, On("Update"), UpdateFrame, CenterOK(center')
  PROVE  ConsoleInv'
<1>1. console = "open" /\ view = "Update" /\ UNCHANGED <<console, view, modal, job, cut>> BY DEF On, UpdateFrame
<1>. QED BY <1>1 DEF ConsoleInv

LEMMA CenterSteps ==
  ASSUME ConsoleInv,
         \/ UpdateEscape \/ UpdateRefresh \/ UpdateOverview \/ UpdateInstall \/ UpdateConfirm \/ UpdateDone
         \/ \E r \in Releases : UpdateChoose(r)
  PROVE  ConsoleInv'
<1>0. CenterOK(center) /\ center \in CenterType BY DEF ConsoleInv, CenterOK
<1>1. On("Update") /\ UpdateFrame
  BY DEF UpdateEscape, UpdateRefresh, UpdateOverview, UpdateInstall, UpdateConfirm, UpdateDone, UpdateChoose
<1>2. SUFFICES CenterOK(center') BY <1>1, CenterKeeps
<1>3. /\ {"Overview", "Result", "VersionInput", "RollbackSelection"} \subseteq Screens \ {"RollbackConfirm"}
      /\ "RollbackConfirm" \in Screens
      /\ {"Check", "Latest", "Candidates", "Status", "Version", "Rollback", "none"} \subseteq Operations
  BY DEF Screens, Operations, CenterMutating, CenterReadOnly
<1>4. CASE UpdateEscape BY <1>0, <1>3, <1>4, EndedIsOK DEF UpdateEscape
<1>5. CASE UpdateRefresh
  <2>1. CASE center' = Running("Status") BY <1>0, <1>3, <2>1, RunningIsOK
  <2>2. CASE center' = [center EXCEPT !.screen = "Result", !.op = "Status"]
    <3>1. center' \in CenterType /\ center'.screen = "Result" /\ center'.op = "Status"
      BY <1>0, <1>3, <2>2 DEF CenterType
    <3>. QED BY <3>1 DEF CenterOK, CenterMutating
  <2>. QED BY <1>5, <2>1, <2>2 DEF UpdateRefresh
<1>6. CASE UpdateOverview
  <2>1. ASSUME NEW op \in {"Check", "Latest", "Candidates", "Status"}, CenterStart(op) PROVE CenterOK(center')
    BY <1>0, <1>3, <2>1, StartIsOK
  <2>2. CASE center' = [center EXCEPT !.screen = "VersionInput"]
    <3>1. center.screen # "Running" BY <1>6 DEF UpdateOverview
    <3>. QED BY <1>0, <1>3, <2>2, <3>1, ScreenIsOK
  <2>. QED BY <1>6, <2>1, <2>2 DEF UpdateOverview
<1>7. CASE UpdateInstall BY <1>0, <1>3, <1>7, StartIsOK DEF UpdateInstall
<1>8. CASE UpdateConfirm
  <2>1. center.screen = "RollbackConfirm" BY <1>8 DEF UpdateConfirm
  <2>2. CASE center' = [center EXCEPT !.screen = "RollbackSelection"] BY <1>0, <1>3, <2>1, <2>2, ScreenIsOK
  <2>3. CASE CenterStart("Rollback") BY <1>0, <1>3, <2>1, <2>3, StartIsOK
  <2>. QED BY <1>8, <2>2, <2>3 DEF UpdateConfirm
<1>9. CASE UpdateDone
  <2>1. center.screen # "Running" BY <1>9 DEF UpdateDone
  <2>. QED BY <1>0, <1>3, <1>9, <2>1, ScreenIsOK DEF UpdateDone
<1>10. ASSUME NEW r \in Releases, UpdateChoose(r) PROVE CenterOK(center')
  <2>1. center' = [center EXCEPT !.screen = "RollbackConfirm", !.chosen = r] /\ r \in center.list
        /\ center.screen = "RollbackSelection"
    BY <1>10 DEF UpdateChoose
  <2>2. /\ center' \in CenterType /\ center'.screen = "RollbackConfirm" /\ center'.chosen = r
        /\ center'.list = center.list /\ center'.op = center.op
    BY <1>0, <1>3, <2>1 DEF CenterType
  <2>3. center.op \notin CenterMutating BY <1>0, <2>1 DEF CenterOK
  <2>. QED BY <2>1, <2>2, <2>3 DEF CenterOK
<1>. QED BY <1>4, <1>5, <1>6, <1>7, <1>8, <1>9, <1>10

\* The updater ends: nothing of it is left.
LEMMA UpdaterSteps ==
  ASSUME ConsoleInv, UpdaterEnds \/ UpdaterReplaces \/ UpdaterLost
  PROVE  ConsoleInv'
<1>0. CenterOK(center) /\ center \in CenterType /\ cut # "key" BY DEF ConsoleInv, CenterOK
<1>1. /\ "Overview" \in Screens \ {"RollbackConfirm"} /\ "Result" \in Screens \ {"RollbackConfirm"}
      /\ "RollbackSelection" \in Screens \ {"RollbackConfirm"}
  BY DEF Screens
<1>2. CenterOK(center') /\ center'.op = "none"
  <2>1. CASE center' = Ended("Result") BY <1>0, <1>1, <2>1, EndedIsOK
  <2>2. CASE center' = Ended("Overview") BY <1>0, <1>1, <2>2, EndedIsOK
  <2>3. ASSUME NEW list \in SUBSET Releases, center' = [Ended("RollbackSelection") EXCEPT !.list = list]
        PROVE  CenterOK(center') /\ center'.op = "none"
    <3>1. PICK c : c = Ended("RollbackSelection") OBVIOUS
    <3>2. CenterOK(c) /\ c.op = "none" /\ c.screen = "RollbackSelection" BY <1>0, <1>1, <3>1, EndedIsOK
    <3>3. c \in CenterType /\ center' = [c EXCEPT !.list = list] BY <2>3, <3>1, <3>2 DEF CenterOK
    <3>4. center' \in CenterType /\ center'.op = "none" /\ center'.screen = "RollbackSelection"
      BY <3>2, <3>3 DEF CenterType
    <3>. QED BY <3>4 DEF CenterOK, CenterMutating
  <2>. QED BY <2>1, <2>2, <2>3 DEF UpdaterEnds, AfterUpdater, UpdaterReplaces, UpdaterLost
<1>3. center'.op \notin CenterMutating BY <1>2 DEF CenterMutating
<1>4. CASE UpdaterEnds BY <1>2, <1>3, <1>4 DEF UpdaterEnds, ConsoleInv
<1>5. CASE UpdaterReplaces
  <2>1. job \notin Mutating BY <1>5 DEF UpdaterReplaces, CenterRunsMutation, ConsoleInv
  <2>. QED BY <1>2, <1>3, <1>5, <2>1 DEF UpdaterReplaces, ConsoleInv, Mutating
<1>6. CASE UpdaterLost
  <2>1. cut' # "key" BY <1>0, <1>6 DEF UpdaterLost
  <2>. QED BY <1>2, <1>3, <1>6, <2>1 DEF UpdaterLost, ConsoleInv
<1>. QED BY <1>4, <1>5, <1>6

LEMMA ConsoleInvInit ==
  ASSUME ConsoleInit
  PROVE  ConsoleInv
<1>1. "Overview" \in Screens /\ "Running" \in Screens /\ "Result" \in Screens
      /\ "none" \in Operations /\ "Status" \in Operations
  BY DEF Screens, Operations, CenterReadOnly
<1>2. NoCenter \in CenterType BY <1>1 DEF NoCenter, CenterType
<1>3. CenterOK(center) /\ center.op \in {"none", "Status"}
  <2>1. CASE center = NoCenter BY <1>2, <2>1 DEF NoCenter, CenterOK, CenterMutating
  <2>2. CASE center = [NoCenter EXCEPT !.there = TRUE, !.screen = "Running", !.op = "Status", !.child = TRUE]
    <3>1. center \in CenterType /\ center.op = "Status" /\ center.screen = "Running" BY <1>1, <1>2, <2>2 DEF CenterType
    <3>. QED BY <3>1 DEF CenterOK, CenterMutating
  <2>3. CASE center = [NoCenter EXCEPT !.there = TRUE, !.screen = "Result"]
    <3>1. NoCenter.op = "none" BY DEF NoCenter
    <3>2. center \in CenterType /\ center.op = "none" /\ center.screen = "Result" BY <1>1, <1>2, <2>3, <3>1 DEF CenterType
    <3>. QED BY <3>2 DEF CenterOK, CenterMutating
  <2>. QED BY <2>1, <2>2, <2>3 DEF ConsoleInit
<1>. QED BY <1>3 DEF ConsoleInit, ConsoleInv, CenterMutating, Mutating

LEMMA ConsoleInvStep ==
  ASSUME ConsoleInv, [ConsoleNext]_consoleVars
  PROVE  ConsoleInv'
<1>1. ASSUME UNCHANGED <<console, view, job, center, cut>>, modal' \in {modal, "help", "none"} PROVE ConsoleInv'
  BY <1>1 DEF ConsoleInv
<1>2. CASE UNCHANGED consoleVars BY <1>1, <1>2 DEF consoleVars
<1>3. CASE (\E l \in loads : ReadFeed(l) \/ Receive(l)) \/ Change \/ OpenHelp \/ Dismiss
  BY <1>1, <1>3 DEF ReadFeed, Receive, Change, OpenHelp, Dismiss
<1>4. CASE CloseFromDialog BY <1>4, CloseKeeps DEF CloseFromDialog
<1>5. CASE Confirm \/ RefreshKey \/ OperateKey \/ LogsKey \/ JobEnds \/ JobLost BY <1>5, JobSteps
<1>6. CASE InterruptKey BY <1>6, CloseKeeps DEF InterruptKey
<1>7. CASE BackKey BY <1>7, BackKeeps DEF BackKey
<1>8. ASSUME NEW v \in Views, Navigate(v) PROVE ConsoleInv'
  <2>1. console = "open" /\ modal = "none" /\ view = "Overview" /\ Enter(v, job) BY <1>8 DEF Navigate, On
  <2>2. ~MutationRunning /\ job \notin Mutating BY <2>1 DEF ConsoleInv, MutationRunning, CenterRunsMutation
  <2>. QED BY <2>1, <2>2, EnterKeeps
<1>9. CASE UpdateLeave BY <1>9, BackKeeps DEF UpdateLeave, On
<1>10. CASE \/ UpdateEscape \/ UpdateRefresh \/ UpdateOverview \/ UpdateInstall \/ UpdateConfirm \/ UpdateDone
            \/ \E r \in Releases : UpdateChoose(r)
  BY <1>10, CenterSteps
<1>11. CASE UpdaterEnds \/ UpdaterReplaces \/ UpdaterLost BY <1>11, UpdaterSteps
<1>. QED BY <1>2, <1>3, <1>4, <1>5, <1>6, <1>7, <1>8, <1>9, <1>10, <1>11 DEF ConsoleNext

(* No key outside a dialog and no successful update kills a helper that is
   changing something or starts a second one, the console never refuses to close
   with nothing running, and a rollback is of the list last shown: for every set
   of releases, start views and feeds. *)
THEOREM MutationsAreKeptAlways == ConsoleSpec => []MutationsAreKept
<1>1. ConsoleInit => ConsoleInv BY ConsoleInvInit
<1>2. ConsoleInv /\ [ConsoleNext]_consoleVars => ConsoleInv' BY ConsoleInvStep
<1>3. ConsoleInv => MutationsAreKept
  BY DEF ConsoleInv, CenterOK, MutationsAreKept, OneMutation, RefusalEnds, RollbackFromTheList, CenterRunsMutation
<1>. QED BY <1>1, <1>2, <1>3, PTL DEF ConsoleSpec

-----------------------------------------------------------------------------
(* The administrator session.                                               *)

CallOps == {"none"} \cup BrokerOps \cup FreshOps
Occupied == {"starting", "running"}
CallPlaces == {"free", "queued", "asking", "child", "late", "returned"} \cup Occupied
CallOuts == {"none", "ok", "failed", "restored", "timed out"}
CallType ==
  [kind : {"none", "auth", "lock", "touch", "restart", "run", "fresh"}, op : CallOps, at : CallPlaces,
   out : CallOuts, seen : Nat, got : Nat]
BrokerType == [at : {"free", "prompt", "idle", "busy"}, age : Nat, op : CallOps]
SlotType == {NoSession} \cup [broker : BrokerIds, age : Nat]

\* What the place of a call says of it.
CallOK(x) ==
  /\ x.at = "free" => x.kind = "none"
  /\ x.kind \in {"none", "auth", "lock", "touch", "restart"} => x.op = "none"
  /\ x.kind = "fresh" => x.op \in FreshOps
  /\ x.at \in {"asking", "child", "late"} => x.kind = "fresh"
  /\ x.at = "late" => x.op \notin Unbounded
  /\ x.at = "starting" => x.kind = "auth"
  /\ x.at = "running" => x.kind = "run"
  /\ x.at # "returned" => x.out = "none"
  /\ x.out = "timed out" => x.op \notin Transactions
  /\ x.op = "agents" /\ x.out = "ok" => x.seen = x.got

SessionTypes ==
  /\ ui = [locked |-> ui.locked, authBusy |-> ui.authBusy, idle |-> ui.idle, touchPending |-> ui.touchPending]
  /\ calls \in [CallIds -> CallType] /\ brokers \in [BrokerIds -> BrokerType] /\ slot \in SlotType
  /\ holder \in CallIds \cup {NoCall} /\ bundle \in Nat

\* The call at the mutex waits for its password or for the broker in the slot, which
\* then runs this call's operation; only the broker in the slot is ever idle.
MutexInv ==
  /\ holder # NoCall => calls[holder].at \in Occupied
  /\ \A c \in CallIds : calls[c].at \in Occupied => holder = c
  /\ \A b \in BrokerIds : brokers[b].at = "idle" => slot.broker = b
  /\ \A b \in BrokerIds : brokers[b].at = "prompt" => holder # NoCall /\ calls[holder].at = "starting"
  /\ \A b, e \in BrokerIds : brokers[b].at = "prompt" /\ brokers[e].at = "prompt" => b = e
  /\ holder # NoCall /\ calls[holder].at = "starting" => slot = NoSession
  /\ holder # NoCall /\ calls[holder].at = "running" => slot # NoSession /\ brokers[slot.broker].at = "busy"
  /\ \A b \in BrokerIds : brokers[b].at = "busy" /\ slot.broker = b =>
       holder # NoCall /\ calls[holder].at = "running" /\ calls[holder].op = brokers[b].op

\* A locked window with a session still has a call that ends the session or unlocks it.
Settles(x) ==
  \/ x.kind = "lock" /\ x.at = "queued"
  \/ x.kind = "auth" /\ x.at = "returned" /\ x.out = "ok"
WindowInv ==
  /\ \A c \in CallIds : calls[c].kind = "auth" => ui.authBusy
  /\ \A c, o \in CallIds : calls[c].kind = "auth" /\ calls[o].kind = "auth" => c = o
  /\ ui.authBusy => ui.locked
  /\ ui.locked /\ slot # NoSession => \E c \in CallIds : Settles(calls[c])

GuiInv ==
  /\ SessionTypes /\ ~halfDone
  /\ \A c \in CallIds : CallOK(calls[c])
  /\ MutexInv /\ WindowInv

-----------------------------------------------------------------------------
LEMMA NoSessionIs == NoSession.broker \notin BrokerIds /\ NoCall \notin CallIds /\ NoSession \in SlotType
BY NamesAssumption DEF SlotType

LEMMA NewCalls ==
  ASSUME NEW kind \in {"auth", "lock", "touch", "restart", "run", "fresh"}, NEW op \in CallOps,
         kind = "fresh" => op \in FreshOps, kind \notin {"run", "fresh"} => op = "none"
  PROVE  /\ Queued(kind, op) \in CallType /\ CallOK(Queued(kind, op)) /\ Queued(kind, op).kind = kind
         /\ Queued(kind, op).at = "queued" /\ Queued(kind, op).at \notin Occupied /\ Queued(kind, op).op = op
<1>1. PICK x : x = Queued(kind, op) OBVIOUS
<1>2. x = [kind |-> kind, op |-> op, at |-> "queued", out |-> "none", seen |-> 0, got |-> 0]
  BY <1>1 DEF Queued, FreeCall
<1>3. x \in CallType BY <1>2 DEF CallType, CallOuts, CallPlaces
<1>4. CallOK(x) BY <1>2 DEF CallOK
<1>. QED BY <1>1, <1>2, <1>3, <1>4 DEF Occupied

LEMMA FreeCallIs ==
  FreeCall \in CallType /\ CallOK(FreeCall) /\ FreeCall.kind = "none" /\ FreeCall.at \notin Occupied
  /\ FreeCall.at = "free" /\ FreeCall.out = "none"
<1>1. FreeCall \in CallType BY DEF FreeCall, CallType, CallOps, CallOuts, CallPlaces
<1>. QED BY <1>1 DEF FreeCall, CallOK, Occupied

LEMMA FreeBrokerIs == FreeBroker \in BrokerType /\ FreeBroker.at = "free"
BY DEF FreeBroker, BrokerType, CallOps

\* An answer that is no page of agents, or one that is one bundle's.
LEMMA ReturnedCall ==
  ASSUME SessionTypes, NEW c \in CallIds, CallOK(calls[c]), NEW out \in CallOuts,
         out = "timed out" => calls[c].op \notin Transactions, out = "ok" => calls[c].op # "agents"
  PROVE  /\ Returned(c, out) \in CallType /\ CallOK(Returned(c, out)) /\ Returned(c, out).kind = calls[c].kind
         /\ Returned(c, out).at = "returned" /\ Returned(c, out).at \notin Occupied /\ Returned(c, out).out = out
         /\ Returned(c, out).op = calls[c].op
<1>0. calls[c] \in CallType BY DEF SessionTypes
<1>1. PICK x : x = Returned(c, out) OBVIOUS
<1>2. x = [kind |-> calls[c].kind, op |-> calls[c].op, at |-> "returned", out |-> out, seen |-> calls[c].seen,
           got |-> calls[c].got]
  BY <1>0, <1>1 DEF Returned, CallType
<1>3. x \in CallType BY <1>0, <1>2 DEF CallType, CallPlaces
<1>4. CallOK(x) BY <1>2 DEF CallOK
<1>5. x.kind = calls[c].kind /\ x.at = "returned" /\ x.at \notin Occupied /\ x.out = out /\ x.op = calls[c].op
  BY <1>2 DEF Occupied
<1>. QED BY <1>1, <1>3, <1>4, <1>5

LEMMA CallsKeep ==
  ASSUME GuiInv, NEW c \in CallIds, NEW x \in CallType, CallOK(x), calls' = [calls EXCEPT ![c] = x]
  PROVE  /\ calls' \in [CallIds -> CallType] /\ (\A o \in CallIds : CallOK(calls[o])')
         /\ calls'[c] = x /\ \A o \in CallIds : o # c => calls'[o] = calls[o]
<1>1. calls \in [CallIds -> CallType] BY DEF GuiInv, SessionTypes
<1>2. calls' \in [CallIds -> CallType] /\ calls'[c] = x /\ \A o \in CallIds : o # c => calls'[o] = calls[o] BY <1>1
<1>3. ASSUME NEW o \in CallIds PROVE CallOK(calls[o])'
  <2>1. PICK y : y = calls'[o] OBVIOUS
  <2>2. CallOK(y)
    <3>1. CASE o = c BY <1>2, <2>1, <3>1
    <3>2. CASE o # c BY <1>2, <2>1, <3>2 DEF GuiInv
    <3>. QED BY <3>1, <3>2
  <2>. QED BY <2>1, <2>2 DEF CallOK
<1>. QED BY <1>2, <1>3

\* A call away from the mutex moves on.
LEMMA MutexRests ==
  ASSUME GuiInv, NEW c \in CallIds, NEW x \in CallType, CallOK(x), calls' = [calls EXCEPT ![c] = x],
         calls[c].at \notin Occupied, x.at \notin Occupied, UNCHANGED <<holder, slot, brokers>>
  PROVE  MutexInv'
<1>1. calls'[c] = x /\ \A o \in CallIds : o # c => calls'[o] = calls[o] BY CallsKeep
<1>2. MutexInv /\ holder \in CallIds \cup {NoCall} BY DEF GuiInv, SessionTypes
<1>3. holder # NoCall => holder # c /\ calls'[holder] = calls[holder] BY <1>1, <1>2 DEF MutexInv
<1>. QED BY <1>1, <1>2, <1>3 DEF MutexInv, Occupied

\* Nobody has the mutex, and no broker waits for a password or works for the window.
LEMMA MutexFree ==
  ASSUME holder' = NoCall, \A c \in CallIds : calls'[c].at \notin Occupied,
         \A b \in BrokerIds : brokers'[b].at # "prompt" /\ (brokers'[b].at = "idle" => slot'.broker = b)
                              /\ (brokers'[b].at = "busy" => slot'.broker # b)
  PROVE  MutexInv'
BY DEF MutexInv

\* The window as it is, while one call moves on or the session ends.
LEMMA WindowRests ==
  ASSUME GuiInv, NEW c \in CallIds, NEW x \in CallType, CallOK(x), calls' = [calls EXCEPT ![c] = x],
         UNCHANGED ui, x.kind = calls[c].kind, slot' # NoSession => slot # NoSession \/ Settles(x),
         Settles(calls[c]) => Settles(x) \/ slot' = NoSession
  PROVE  WindowInv'
<1>1. calls'[c] = x /\ \A o \in CallIds : o # c => calls'[o] = calls[o] BY CallsKeep
<1>2. \A o \in CallIds : calls'[o].kind = calls[o].kind BY <1>1
<1>3. WindowInv BY DEF GuiInv
<1>4. ASSUME ui'.locked, slot' # NoSession PROVE \E o \in CallIds : Settles(calls'[o])
  <2>1. CASE Settles(x) BY <1>1, <2>1
  <2>2. CASE ~Settles(x)
    <3>1. slot # NoSession /\ ui.locked BY <1>4, <2>2
    <3>2. PICK o \in CallIds : Settles(calls[o]) BY <1>3, <3>1 DEF WindowInv
    <3>3. o # c BY <1>4, <2>2, <3>2
    <3>. QED BY <1>1, <3>2, <3>3
  <2>. QED BY <2>1, <2>2
<1>5. (\E o \in CallIds : Settles(calls'[o])) => \E o \in CallIds : Settles(calls[o])' BY DEF Settles
<1>. QED BY <1>2, <1>3, <1>4, <1>5 DEF WindowInv

\* The session and the brokers once an expired one is closed.
LEMMA NowShape ==
  ASSUME GuiInv, holder = NoCall
  PROVE  /\ SlotNow \in SlotType /\ SlotNow \in {slot, NoSession} /\ BrokersNow \in [BrokerIds -> BrokerType]
         /\ SlotNow # NoSession => SlotNow.broker \in BrokerIds
         /\ \A b \in BrokerIds : /\ BrokersNow[b].at \in {"free", "idle", "busy"}
                                 /\ BrokersNow[b].at = "idle" => SlotNow.broker = b
                                 /\ BrokersNow[b].at = "busy" => SlotNow.broker # b
<1>0. /\ slot \in SlotType /\ brokers \in [BrokerIds -> BrokerType] /\ MutexInv
      /\ (slot # NoSession => slot.broker \in BrokerIds)
  BY DEF GuiInv, SessionTypes, SlotType
<1>1. \A b \in BrokerIds : /\ brokers[b].at \in {"free", "idle", "busy"}
                           /\ brokers[b].at = "idle" => slot.broker = b
                           /\ brokers[b].at = "busy" => slot.broker # b
  BY <1>0 DEF MutexInv, BrokerType
<1>2. CASE Expired
  <2>1. SlotNow = NoSession /\ BrokersNow = Closed(slot.broker) /\ slot.broker \in BrokerIds
    BY <1>0, <1>2 DEF SlotNow, BrokersNow, Expired
  <2>2. BrokersNow = [brokers EXCEPT ![slot.broker] = FreeBroker] BY <2>1 DEF Closed
  <2>3. BrokersNow \in [BrokerIds -> BrokerType] BY <1>0, <2>1, <2>2, FreeBrokerIs
  <2>4. \A b \in BrokerIds : BrokersNow[b] = IF b = slot.broker THEN FreeBroker ELSE brokers[b] BY <1>0, <2>2
  <2>. QED BY <1>1, <2>1, <2>3, <2>4, FreeBrokerIs, NoSessionIs
<1>3. CASE ~Expired
  <2>1. SlotNow = slot /\ BrokersNow = brokers BY <1>3 DEF SlotNow, BrokersNow
  <2>. QED BY <1>0, <1>1, <2>1
<1>. QED BY <1>2, <1>3

\* What a call does at the mutex ends no broker that works.
LEMMA MutexSpares ==
  ASSUME GuiInv, NEW c \in CallIds,
         Authenticate(c) \/ TouchBroker(c) \/ RequireActive(c) \/ LockSession(c) \/ Run(c)
  PROVE  ~halfDone'
<1>0. /\ holder = NoCall /\ Notes /\ ~halfDone /\ MutexInv
      /\ brokers \in [BrokerIds -> BrokerType] /\ slot \in SlotType
  BY DEF GuiInv, SessionTypes, Authenticate, TouchBroker, RequireActive, LockSession, Run, Waiting
<1>1. \A b \in BrokerIds : brokers[b].at = "busy" => slot.broker # b BY <1>0 DEF MutexInv
<1>2. \A b \in BrokerIds : brokers[b].at = "busy" => BrokersNow[b] = brokers[b]
  BY <1>0, <1>1 DEF BrokersNow, Closed
<1>3. BrokersNow \in [BrokerIds -> BrokerType] BY <1>0, NowShape
<1>4. \A b \in BrokerIds : brokers[b].at = "busy" => brokers'[b].at = "busy"
  <2>1. CASE Authenticate(c) \/ TouchBroker(c) \/ RequireActive(c) \/ Run(c)
    <3>1. \/ brokers' = BrokersNow
          \/ \E n \in BrokerIds : BrokersNow[n].at # "busy" /\ brokers' = [BrokersNow EXCEPT ![n].age = 0]
          \/ \E n \in BrokerIds : BrokersNow[n].at # "busy" /\ brokers' = [BrokersNow EXCEPT ![n].at = "prompt"]
          \/ \E n \in BrokerIds : \E y : y.at = "busy" /\ brokers' = [BrokersNow EXCEPT ![n] = y]
      <4>1. SlotNow # NoSession => SlotNow.broker \in BrokerIds BY <1>0, NowShape
      <4>2. CASE RequireActive(c) BY <4>2 DEF RequireActive
      <4>3. CASE Run(c) BY <4>1, <4>3 DEF Run
      <4>4. CASE SlotNow # NoSession /\ Touched(c) BY <4>1, <4>4 DEF Touched
      <4>5. CASE TouchBroker(c) BY <4>4, <4>5 DEF TouchBroker
      <4>6. CASE Authenticate(c) /\ ~(SlotNow # NoSession /\ Touched(c))
        <5>1. /\ brokers' = [BrokersNow EXCEPT ![NewBroker].at = "prompt"]
              /\ \E b \in BrokerIds : BrokersNow[b].at = "free"
          BY <4>6 DEF Authenticate
        <5>2. NewBroker \in BrokerIds /\ BrokersNow[NewBroker].at = "free" BY <5>1 DEF NewBroker
        <5>3. PICK n \in BrokerIds : n = NewBroker /\ BrokersNow[n].at = "free" BY <5>2
        <5>. QED BY <5>1, <5>3
      <4>. QED BY <2>1, <4>2, <4>3, <4>4, <4>5, <4>6
    <3>. QED BY <1>2, <1>3, <3>1
  <2>2. CASE LockSession(c)
    <3>1. brokers' = brokers \/ brokers' = [brokers EXCEPT ![slot.broker] = FreeBroker]
      BY <2>2 DEF LockSession, Closed
    <3>. QED BY <1>0, <1>1, <3>1
  <2>. QED BY <2>1, <2>2
<1>. QED BY <1>0, <1>4 DEF Notes, CutsTransaction

LEMMA FreeCallsAre ==
  ASSUME GuiInv, NEW c \in FreeCalls
  PROVE  c \in CallIds /\ calls[c].at \notin Occupied /\ calls[c].kind = "none" /\ ~Settles(calls[c])
BY DEF GuiInv, FreeCalls, CallOK, Occupied, Settles

LEMMA UnlockStep ==
  ASSUME GuiInv, NEW c \in FreeCalls, Unlock(c)
  PROVE  GuiInv'
<1>0. SessionTypes /\ WindowInv /\ ~halfDone BY DEF GuiInv
<1>1. c \in CallIds /\ calls[c].at \notin Occupied BY FreeCallsAre
<1>2. PICK x \in CallType : x = Queued("auth", "none") /\ CallOK(x) /\ x.kind = "auth" /\ x.at \notin Occupied
                            /\ x.at = "queued"
  BY NewCalls DEF CallOps
<1>3. /\ ui.locked /\ ~ui.authBusy /\ calls' = [calls EXCEPT ![c] = x] /\ UNCHANGED <<holder, slot, brokers, halfDone, bundle>>
      /\ ui' = [ui EXCEPT !.authBusy = TRUE]
  BY <1>2 DEF Unlock
<1>4. ui' = [locked |-> ui.locked, authBusy |-> TRUE, idle |-> ui.idle, touchPending |-> ui.touchPending]
  BY <1>0, <1>3 DEF SessionTypes
<1>5. /\ calls' \in [CallIds -> CallType] /\ (\A o \in CallIds : CallOK(calls[o])')
      /\ calls'[c] = x /\ \A o \in CallIds : o # c => calls'[o] = calls[o]
  BY <1>1, <1>2, <1>3, CallsKeep
<1>6. MutexInv' BY <1>1, <1>2, <1>3, MutexRests
<1>7. SessionTypes' BY <1>0, <1>3, <1>4, <1>5 DEF SessionTypes
<1>8. \A o \in CallIds : calls[o].kind # "auth" BY <1>0, <1>3 DEF WindowInv
<1>9. ui'.locked /\ ui'.authBusy BY <1>3, <1>4
<1>10. WindowInv'
  <2>1. ASSUME slot' # NoSession PROVE \E o \in CallIds : Settles(calls[o])'
    <3>1. PICK o \in CallIds : Settles(calls[o]) BY <1>0, <1>3, <2>1 DEF WindowInv
    <3>2. o # c BY <3>1, FreeCallsAre
    <3>. QED BY <1>5, <3>1, <3>2 DEF Settles
  <2>. QED BY <1>2, <1>5, <1>8, <1>9, <2>1 DEF WindowInv
<1>. QED BY <1>0, <1>3, <1>5, <1>6, <1>7, <1>10 DEF GuiInv

LEMMA LockUiStep ==
  ASSUME GuiInv, NEW c \in FreeCalls, LockUi(c)
  PROVE  GuiInv'
<1>0. SessionTypes /\ WindowInv /\ ~halfDone BY DEF GuiInv
<1>1. c \in CallIds /\ calls[c].at \notin Occupied BY FreeCallsAre
<1>2. PICK x \in CallType : x = Queued("lock", "none") /\ CallOK(x) /\ x.kind = "lock" /\ x.at \notin Occupied
                            /\ x.at = "queued"
  BY NewCalls DEF CallOps
<1>3. /\ ~ui.locked /\ calls' = [calls EXCEPT ![c] = x] /\ UNCHANGED <<holder, slot, brokers, halfDone, bundle>>
      /\ ui' = [ui EXCEPT !.locked = TRUE]
  BY <1>2 DEF LockUi
<1>4. ui' = [locked |-> TRUE, authBusy |-> ui.authBusy, idle |-> ui.idle, touchPending |-> ui.touchPending]
  BY <1>0, <1>3 DEF SessionTypes
<1>5. /\ calls' \in [CallIds -> CallType] /\ (\A o \in CallIds : CallOK(calls[o])')
      /\ calls'[c] = x /\ \A o \in CallIds : o # c => calls'[o] = calls[o]
  BY <1>1, <1>2, <1>3, CallsKeep
<1>6. MutexInv' BY <1>1, <1>2, <1>3, MutexRests
<1>7. SessionTypes' BY <1>0, <1>3, <1>4, <1>5 DEF SessionTypes
<1>8. ~ui.authBusy BY <1>0, <1>3 DEF WindowInv
<1>9. ui'.locked /\ ~ui'.authBusy BY <1>4, <1>8
<1>10. Settles(calls[c])' BY <1>2, <1>5 DEF Settles
<1>11. \A o \in CallIds : calls'[o].kind # "auth" BY <1>0, <1>2, <1>5, <1>8 DEF WindowInv
<1>12. WindowInv' BY <1>1, <1>9, <1>10, <1>11 DEF WindowInv
<1>. QED BY <1>0, <1>3, <1>5, <1>6, <1>7, <1>12 DEF GuiInv

\* A new call of the unlocked window, or of its restart gate, leaves the rest alone.
LEMMA NewCallStep ==
  ASSUME GuiInv, NEW c \in FreeCalls, NEW x \in CallType, CallOK(x), x.kind # "auth", x.at \notin Occupied,
         calls' = [calls EXCEPT ![c] = x], UNCHANGED <<holder, slot, brokers, halfDone, bundle>>,
         ui' = [locked |-> ui.locked, authBusy |-> ui.authBusy, idle |-> ui'.idle, touchPending |-> ui'.touchPending]
  PROVE  GuiInv'
<1>0. SessionTypes /\ WindowInv /\ ~halfDone BY DEF GuiInv
<1>1. c \in CallIds /\ calls[c].at \notin Occupied BY FreeCallsAre
<1>2. /\ calls' \in [CallIds -> CallType] /\ (\A o \in CallIds : CallOK(calls[o])')
      /\ calls'[c] = x /\ \A o \in CallIds : o # c => calls'[o] = calls[o]
  BY <1>1, CallsKeep
<1>3. MutexInv' BY <1>1, MutexRests
<1>4. /\ ui' = [locked |-> ui'.locked, authBusy |-> ui'.authBusy, idle |-> ui'.idle, touchPending |-> ui'.touchPending]
      /\ ui'.locked = ui.locked /\ ui'.authBusy = ui.authBusy
  OBVIOUS
<1>5. SessionTypes' BY <1>0, <1>2, <1>4 DEF SessionTypes
<1>6. WindowInv'
  <2>1. ASSUME ui.locked, slot' # NoSession PROVE \E o \in CallIds : Settles(calls[o])'
    <3>1. PICK o \in CallIds : Settles(calls[o]) BY <1>0, <2>1 DEF WindowInv
    <3>2. o # c BY <3>1, FreeCallsAre
    <3>. QED BY <1>2, <3>1, <3>2 DEF Settles
  <2>2. \A o \in CallIds : calls'[o].kind = "auth" => calls[o].kind = "auth" BY <1>2
  <2>. QED BY <1>0, <1>4, <2>1, <2>2 DEF WindowInv
<1>. QED BY <1>0, <1>2, <1>3, <1>5, <1>6 DEF GuiInv

LEMMA WindowSteps ==
  ASSUME GuiInv, NEW c \in FreeCalls, RecordActivity(c) \/ Operate(c) \/ RestartApp(c)
  PROVE  GuiInv'
<1>0. SessionTypes BY DEF GuiInv
<1>1. c \in CallIds /\ calls[c] \in CallType /\ CallOK(calls[c]) /\ calls[c].kind = "none" /\ calls[c].at \notin Occupied
  BY FreeCallsAre DEF GuiInv, SessionTypes
<1>2. CASE RecordActivity(c)
  <2>1. PICK touches : /\ ui' = [ui EXCEPT !.idle = 0, !.touchPending = @ \/ touches]
                       /\ calls' = IF touches THEN [calls EXCEPT ![c] = Queued("touch", "none")] ELSE calls
    BY <1>2 DEF RecordActivity
  <2>2. UNCHANGED <<holder, slot, brokers, halfDone, bundle>> BY <1>2 DEF RecordActivity
  <2>3. ui' = [locked |-> ui.locked, authBusy |-> ui.authBusy, idle |-> ui'.idle, touchPending |-> ui'.touchPending]
    BY <1>0, <2>1 DEF SessionTypes
  <2>4. PICK x \in CallType : x = Queued("touch", "none") /\ CallOK(x) /\ x.kind = "touch" /\ x.at \notin Occupied
    BY NewCalls DEF CallOps
  <2>5. CASE calls' = [calls EXCEPT ![c] = x] BY <2>2, <2>3, <2>4, <2>5, NewCallStep
  <2>6. CASE calls' = calls
    <3>1. calls' = [calls EXCEPT ![c] = calls[c]] BY <1>0, <2>6 DEF SessionTypes
    <3>2. PICK y \in CallType : y = calls[c] /\ CallOK(y) /\ y.kind = "none" /\ y.at \notin Occupied BY <1>1
    <3>3. calls' = [calls EXCEPT ![c] = y] BY <3>1, <3>2
    <3>. QED BY <2>2, <2>3, <3>2, <3>3, NewCallStep
  <2>. QED BY <2>1, <2>4, <2>5, <2>6
<1>3. CASE Operate(c)
  <2>1. PICK op \in BrokerOps \cup FreshOps :
          calls' = [calls EXCEPT ![c] = Queued(IF op \in BrokerOps THEN "run" ELSE "fresh", op)]
    BY <1>3 DEF Operate
  <2>2. PICK kind \in {"run", "fresh"} : kind = (IF op \in BrokerOps THEN "run" ELSE "fresh") OBVIOUS
  <2>3. op \in CallOps /\ (kind = "fresh" => op \in FreshOps) BY <2>1, <2>2 DEF CallOps
  <2>4. PICK x \in CallType : x = Queued(kind, op) /\ CallOK(x) /\ x.kind = kind /\ x.at \notin Occupied
    BY <2>2, <2>3, NewCalls
  <2>5. UNCHANGED <<holder, slot, brokers, halfDone, bundle>> /\ ui' = ui BY <1>3 DEF Operate
  <2>6. ui' = [locked |-> ui.locked, authBusy |-> ui.authBusy, idle |-> ui'.idle, touchPending |-> ui'.touchPending]
    BY <1>0, <2>5 DEF SessionTypes
  <2>7. calls' = [calls EXCEPT ![c] = x] BY <2>1, <2>2, <2>4
  <2>. QED BY <2>2, <2>4, <2>5, <2>6, <2>7, NewCallStep
<1>4. CASE RestartApp(c)
  <2>1. PICK x \in CallType : x = Queued("restart", "none") /\ CallOK(x) /\ x.kind = "restart" /\ x.at \notin Occupied
    BY NewCalls DEF CallOps
  <2>2. UNCHANGED <<holder, slot, brokers, halfDone, bundle>> /\ ui' = ui /\ calls' = [calls EXCEPT ![c] = x]
    BY <1>4, <2>1 DEF RestartApp
  <2>3. ui' = [locked |-> ui.locked, authBusy |-> ui.authBusy, idle |-> ui'.idle, touchPending |-> ui'.touchPending]
    BY <1>0, <2>2 DEF SessionTypes
  <2>. QED BY <2>1, <2>2, <2>3, NewCallStep
<1>. QED BY <1>2, <1>3, <1>4

\* A call away from the mutex comes to x.
LEMMA LooseCall ==
  ASSUME GuiInv, NEW c \in CallIds, NEW x \in CallType, CallOK(x), calls' = [calls EXCEPT ![c] = x],
         calls[c].at \notin Occupied, x.at \notin Occupied, x.kind = calls[c].kind, x.kind \notin {"auth", "lock"},
         UNCHANGED <<ui, holder, slot, brokers, halfDone, bundle>>
  PROVE  GuiInv'
<1>1. calls' \in [CallIds -> CallType] /\ (\A o \in CallIds : CallOK(calls[o])') BY CallsKeep
<1>2. MutexInv' BY MutexRests
<1>3. ~Settles(calls[c]) BY DEF Settles
<1>4. WindowInv' BY <1>3, WindowRests
<1>5. SessionTypes' BY <1>1 DEF GuiInv, SessionTypes
<1>. QED BY <1>1, <1>2, <1>4, <1>5 DEF GuiInv

LEMMA LooseSteps ==
  ASSUME GuiInv, NEW c \in CallIds,
         RefuseArguments(c) \/ Authorise(c) \/ RefusePassword(c) \/ FreshTimesOut(c) \/ FreshEnds(c)
  PROVE  GuiInv'
<1>0. SessionTypes /\ CallOK(calls[c]) /\ calls[c] \in CallType BY DEF GuiInv, SessionTypes
<1>1. UNCHANGED <<ui, holder, slot, brokers, halfDone, bundle>>
  BY DEF RefuseArguments, Authorise, RefusePassword, FreshTimesOut, FreshEnds
<1>2. /\ calls[c].at \notin Occupied /\ calls[c].kind \in {"run", "fresh"}
      /\ calls[c].kind = "fresh" => calls[c].op \in FreshOps /\ calls[c].op # "agents"
  BY <1>0 DEF RefuseArguments, Authorise, RefusePassword, FreshTimesOut, FreshEnds, CallOK, Occupied, FreshOps
<1>3. ASSUME NEW out \in {"ok", "failed", "timed out"}, calls' = [calls EXCEPT ![c] = Returned(c, out)],
             out = "ok" => calls[c].kind = "fresh", out = "timed out" => calls[c].op \notin Transactions
      PROVE  GuiInv'
  <2>1. out \in CallOuts BY DEF CallOuts
  <2>2. PICK x \in CallType : x = Returned(c, out) /\ CallOK(x) /\ x.kind = calls[c].kind /\ x.at \notin Occupied
    BY <1>0, <1>2, <1>3, <2>1, ReturnedCall
  <2>3. calls' = [calls EXCEPT ![c] = x] BY <1>3, <2>2
  <2>. QED BY <1>1, <1>2, <2>2, <2>3, LooseCall
<1>4. ASSUME NEW w \in {"child", "late"}, calls' = [calls EXCEPT ![c] = [@ EXCEPT !.at = w]],
             calls[c].at \in {"asking", "child"}, w = "late" => calls[c].op \notin Unbounded
      PROVE  GuiInv'
  <2>1. PICK x : x = [calls[c] EXCEPT !.at = w] OBVIOUS
  <2>2. x = [kind |-> calls[c].kind, op |-> calls[c].op, at |-> w, out |-> calls[c].out, seen |-> calls[c].seen,
             got |-> calls[c].got]
    BY <1>0, <2>1 DEF CallType
  <2>3. x \in CallType BY <1>0, <2>2 DEF CallType, CallPlaces
  <2>4. CallOK(x) BY <1>0, <1>4, <2>2 DEF CallOK
  <2>5. calls' = [calls EXCEPT ![c] = x] BY <1>0, <1>4, <2>1 DEF SessionTypes
  <2>6. x.at \notin Occupied /\ x.kind = calls[c].kind BY <2>2 DEF Occupied
  <2>. QED BY <1>1, <1>2, <2>3, <2>4, <2>5, <2>6, LooseCall
<1>5. CASE RefuseArguments(c) \/ RefusePassword(c)
  <2>1. calls' = [calls EXCEPT ![c] = Returned(c, "failed")] BY <1>5 DEF RefuseArguments, RefusePassword
  <2>. QED BY <1>3, <2>1
<1>6. CASE Authorise(c) BY <1>4, <1>6 DEF Authorise
<1>7. CASE FreshTimesOut(c)
  <2>1. calls[c].op \notin Unbounded /\ calls[c].op \notin Transactions
    BY <1>7 DEF FreshTimesOut, Unbounded, Transactions
  <2>2. CASE calls[c].at = "asking"
    <3>1. calls' = [calls EXCEPT ![c] = Returned(c, "timed out")] BY <1>0, <1>7, <2>2 DEF FreshTimesOut, SessionTypes
    <3>. QED BY <1>3, <2>1, <3>1
  <2>3. CASE calls[c].at = "child"
    <3>1. calls' = [calls EXCEPT ![c] = [@ EXCEPT !.at = "late"]] BY <1>0, <1>7, <2>3 DEF FreshTimesOut, SessionTypes
    <3>. QED BY <1>4, <2>1, <2>3, <3>1
  <2>. QED BY <1>7, <2>2, <2>3 DEF FreshTimesOut
<1>8. CASE FreshEnds(c)
  <2>1. calls[c].kind = "fresh" BY <1>0, <1>8 DEF FreshEnds, CallOK
  <2>2. PICK out \in {"ok", "failed", "timed out"} :
          /\ calls' = [calls EXCEPT ![c] = Returned(c, out)]
          /\ out = "timed out" => calls[c].at = "late"
    BY <1>8 DEF FreshEnds
  <2>3. out = "timed out" => calls[c].op \notin Transactions BY <1>0, <2>2 DEF CallOK, Unbounded, Transactions
  <2>. QED BY <1>3, <2>1, <2>2, <2>3
<1>. QED BY <1>5, <1>6, <1>7, <1>8

\* A call takes the free mutex and gives it back.
LEMMA BriefCall ==
  ASSUME GuiInv, holder = NoCall, NEW c \in CallIds, NEW x \in CallType, CallOK(x), calls' = [calls EXCEPT ![c] = x],
         x.at \notin Occupied, x.kind = calls[c].kind, UNCHANGED <<ui, holder, bundle>>, ~halfDone',
         slot' \in SlotType, brokers' \in [BrokerIds -> BrokerType],
         \A b \in BrokerIds : /\ brokers'[b].at \in {"free", "idle", "busy"}
                              /\ brokers'[b].at = "idle" => slot'.broker = b
                              /\ brokers'[b].at = "busy" => slot'.broker # b,
         slot' # NoSession => slot # NoSession, Settles(calls[c]) => slot' = NoSession
  PROVE  GuiInv'
<1>1. /\ calls' \in [CallIds -> CallType] /\ (\A o \in CallIds : CallOK(calls[o])')
      /\ calls'[c] = x /\ \A o \in CallIds : o # c => calls'[o] = calls[o]
  BY CallsKeep
<1>2. \A o \in CallIds : calls[o].at \notin Occupied BY NoSessionIs DEF GuiInv, MutexInv
<1>3. \A o \in CallIds : calls'[o].at \notin Occupied BY <1>1, <1>2
<1>4. MutexInv' BY <1>3, MutexFree
<1>5. WindowInv' BY WindowRests
<1>6. SessionTypes' BY <1>1 DEF GuiInv, SessionTypes
<1>. QED BY <1>1, <1>4, <1>5, <1>6 DEF GuiInv

\* touch: an idle broker and the slot start a new idle window.
LEMMA TouchedStep ==
  ASSUME GuiInv, holder = NoCall, NEW c \in CallIds, calls[c].kind \in {"auth", "touch"}, calls[c].at = "queued",
         SlotNow # NoSession, Touched(c), UNCHANGED <<ui, holder, bundle>>, ~halfDone'
  PROVE  GuiInv'
<1>0. SessionTypes /\ CallOK(calls[c]) BY DEF GuiInv
<1>1. /\ SlotNow \in SlotType /\ SlotNow \in {slot, NoSession} /\ BrokersNow \in [BrokerIds -> BrokerType]
      /\ SlotNow # NoSession => SlotNow.broker \in BrokerIds
      /\ \A b \in BrokerIds : /\ BrokersNow[b].at \in {"free", "idle", "busy"}
                              /\ BrokersNow[b].at = "idle" => SlotNow.broker = b
                              /\ BrokersNow[b].at = "busy" => SlotNow.broker # b
  BY NowShape
<1>2. calls[c].op = "none" /\ ~Settles(calls[c]) BY <1>0 DEF CallOK, Settles
<1>3. ASSUME NEW out \in {"ok", "failed"}
      PROVE  Returned(c, out) \in CallType /\ CallOK(Returned(c, out)) /\ Returned(c, out).kind = calls[c].kind
             /\ Returned(c, out).at \notin Occupied
  BY <1>0, <1>2, ReturnedCall DEF CallOuts
<1>4. CASE BrokersNow[SlotNow.broker].at = "idle"
  <2>1. /\ slot' = [SlotNow EXCEPT !.age = 0] /\ brokers' = [BrokersNow EXCEPT ![SlotNow.broker].age = 0]
        /\ calls' = [calls EXCEPT ![c] = Returned(c, "ok")]
    BY <1>4 DEF Touched
  <2>2. SlotNow \in [broker : BrokerIds, age : Nat] BY <1>1 DEF SlotType
  <2>3. slot' \in [broker : BrokerIds, age : Nat] /\ slot'.broker = SlotNow.broker BY <2>1, <2>2
  <2>4. PICK s : s = SlotNow.broker OBVIOUS
  <2>5. s \in BrokerIds /\ BrokersNow[s] \in BrokerType BY <1>1, <2>4
  <2>6. PICK y : y = [BrokersNow[s] EXCEPT !.age = 0] OBVIOUS
  <2>7. y \in BrokerType /\ y.at = BrokersNow[s].at BY <2>5, <2>6 DEF BrokerType
  <2>8. brokers' = [BrokersNow EXCEPT ![s] = y] BY <1>1, <2>1, <2>4, <2>5, <2>6
  <2>9. brokers' \in [BrokerIds -> BrokerType] /\ \A b \in BrokerIds : brokers'[b].at = BrokersNow[b].at
    BY <1>1, <2>5, <2>7, <2>8
  <2>10. \A b \in BrokerIds : /\ brokers'[b].at \in {"free", "idle", "busy"}
                              /\ brokers'[b].at = "idle" => slot'.broker = b
                              /\ brokers'[b].at = "busy" => slot'.broker # b
    BY <1>1, <2>3, <2>9
  <2>11. slot' \in SlotType BY <2>3 DEF SlotType
  <2>12. slot # NoSession BY <1>1
  <2>. QED BY <1>2, <1>3, <2>1, <2>9, <2>10, <2>11, <2>12, BriefCall
<1>5. CASE BrokersNow[SlotNow.broker].at # "idle"
  <2>1. slot' = SlotNow /\ brokers' = BrokersNow /\ calls' = [calls EXCEPT ![c] = Returned(c, "failed")]
    BY <1>5 DEF Touched
  <2>2. slot' # NoSession => slot # NoSession BY <1>1, <2>1
  <2>. QED BY <1>1, <1>2, <1>3, <2>1, <2>2, BriefCall
<1>. QED BY <1>4, <1>5

LEMMA BriefSteps ==
  ASSUME GuiInv, NEW c \in CallIds, TouchBroker(c) \/ RequireActive(c) \/ LockSession(c)
  PROVE  GuiInv'
<1>0. /\ SessionTypes /\ CallOK(calls[c]) /\ calls[c] \in CallType /\ brokers \in [BrokerIds -> BrokerType]
      /\ holder = NoCall /\ calls[c].at = "queued" /\ calls[c].kind \in {"touch", "fresh", "lock", "restart"}
      /\ UNCHANGED <<ui, holder, bundle>> /\ ~halfDone'
  BY MutexSpares DEF GuiInv, SessionTypes, TouchBroker, RequireActive, LockSession, Waiting
<1>1. /\ SlotNow \in SlotType /\ SlotNow \in {slot, NoSession} /\ BrokersNow \in [BrokerIds -> BrokerType]
      /\ \A b \in BrokerIds : /\ BrokersNow[b].at \in {"free", "idle", "busy"}
                              /\ BrokersNow[b].at = "idle" => SlotNow.broker = b
                              /\ BrokersNow[b].at = "busy" => SlotNow.broker # b
  BY <1>0, NowShape
<1>2. calls[c].op # "agents" BY <1>0 DEF CallOK, FreshOps
<1>3. ASSUME NEW out \in {"ok", "failed"}
      PROVE  Returned(c, out) \in CallType /\ CallOK(Returned(c, out)) /\ Returned(c, out).kind = calls[c].kind
             /\ Returned(c, out).at \notin Occupied
  BY <1>0, <1>2, ReturnedCall DEF CallOuts
<1>4. calls[c].kind # "lock" => ~Settles(calls[c]) BY <1>0 DEF Settles
<1>5. SlotNow # NoSession => slot # NoSession BY <1>1
<1>6. CASE TouchBroker(c)
  <2>1. calls[c].kind = "touch" BY <1>6 DEF TouchBroker, Waiting
  <2>2. CASE SlotNow # NoSession
    <3>1. Touched(c) BY <1>6, <2>2 DEF TouchBroker
    <3>. QED BY <1>0, <2>1, <2>2, <3>1, TouchedStep
  <2>3. CASE SlotNow = NoSession
    <3>1. slot' = SlotNow /\ brokers' = BrokersNow /\ calls' = [calls EXCEPT ![c] = Returned(c, "failed")]
      BY <1>6, <2>3 DEF TouchBroker
    <3>. QED BY <1>0, <1>1, <1>3, <1>4, <1>5, <2>1, <3>1, BriefCall
  <2>. QED BY <2>2, <2>3
<1>7. CASE RequireActive(c)
  <2>1. calls[c].kind = "fresh" /\ slot' = SlotNow /\ brokers' = BrokersNow BY <1>7 DEF RequireActive, Waiting
  <2>2. PICK x : x = [calls[c] EXCEPT !.at = "asking"] OBVIOUS
  <2>3. x = [kind |-> "fresh", op |-> calls[c].op, at |-> "asking", out |-> calls[c].out, seen |-> calls[c].seen,
             got |-> calls[c].got]
    BY <1>0, <2>1, <2>2 DEF CallType
  <2>4. x \in CallType BY <1>0, <2>1, <2>3 DEF CallType, CallPlaces
  <2>5. CallOK(x) /\ x.at \notin Occupied /\ x.kind = calls[c].kind BY <1>0, <2>1, <2>3 DEF CallOK, Occupied
  <2>6. CASE SlotNow = NoSession
    <3>1. calls' = [calls EXCEPT ![c] = Returned(c, "failed")] BY <1>7, <2>6 DEF RequireActive
    <3>. QED BY <1>0, <1>1, <1>3, <1>4, <1>5, <2>1, <3>1, BriefCall
  <2>7. CASE SlotNow # NoSession
    <3>1. calls' = [calls EXCEPT ![c] = x] BY <1>7, <2>2, <2>7 DEF RequireActive
    <3>. QED BY <1>0, <1>1, <1>4, <1>5, <2>1, <2>4, <2>5, <3>1, BriefCall
  <2>. QED BY <2>6, <2>7
<1>8. CASE LockSession(c)
  <2>1. /\ slot' = NoSession /\ calls' = [calls EXCEPT ![c] = Returned(c, "ok")]
        /\ brokers' = IF slot = NoSession THEN brokers ELSE Closed(slot.broker)
    BY <1>8 DEF LockSession
  <2>2. slot # NoSession => slot.broker \in BrokerIds BY <1>0 DEF SessionTypes, SlotType
  <2>3. \A b \in BrokerIds : /\ brokers[b].at \in {"free", "idle", "busy"}
                             /\ brokers[b].at = "idle" => slot.broker = b
                             /\ brokers[b].at = "busy" => slot.broker # b
    BY <1>0 DEF GuiInv, MutexInv, BrokerType
  <2>4. brokers' \in [BrokerIds -> BrokerType]
    BY <1>0, <2>1, <2>2, FreeBrokerIs DEF Closed
  <2>5. \A b \in BrokerIds : brokers'[b].at \in {"free", "busy"}
    <3>1. CASE slot = NoSession BY <2>1, <2>3, <3>1, NoSessionIs
    <3>2. CASE slot # NoSession
      <4>1. brokers' = [brokers EXCEPT ![slot.broker] = FreeBroker] BY <2>1, <3>2 DEF Closed
      <4>. QED BY <1>0, <2>2, <2>3, <3>2, <4>1, FreeBrokerIs
    <3>. QED BY <3>1, <3>2
  <2>6. slot' \in SlotType /\ \A b \in BrokerIds : slot'.broker # b BY <2>1, NoSessionIs
  <2>7. \A b \in BrokerIds : /\ brokers'[b].at \in {"free", "idle", "busy"}
                             /\ brokers'[b].at = "idle" => slot'.broker = b
                             /\ brokers'[b].at = "busy" => slot'.broker # b
    BY <2>5, <2>6
  <2>. QED BY <1>0, <1>3, <2>1, <2>4, <2>6, <2>7, BriefCall
<1>. QED BY <1>6, <1>7, <1>8

\* A call that has the mutex for as long as the password or the operation takes.
LEMMA HoldingCall ==
  ASSUME GuiInv, holder = NoCall, NEW c \in CallIds, NEW w \in Occupied,
         calls' = [calls EXCEPT ![c].at = w], holder' = c, UNCHANGED <<ui, bundle>>, ~halfDone',
         calls[c].at = "queued", calls[c].kind = (IF w = "starting" THEN "auth" ELSE "run"),
         slot' \in SlotType, brokers' \in [BrokerIds -> BrokerType], slot' # NoSession => slot # NoSession
  PROVE  /\ SessionTypes' /\ WindowInv' /\ ~halfDone' /\ (\A o \in CallIds : CallOK(calls[o])')
         /\ calls'[c].at = w /\ calls'[c].op = calls[c].op
         /\ \A o \in CallIds : calls'[o].at \in Occupied => o = c
<1>0. SessionTypes /\ CallOK(calls[c]) /\ calls[c] \in CallType BY DEF GuiInv, SessionTypes
<1>1. PICK x : x = [calls[c] EXCEPT !.at = w] OBVIOUS
<1>2. x = [kind |-> calls[c].kind, op |-> calls[c].op, at |-> w, out |-> calls[c].out, seen |-> calls[c].seen,
           got |-> calls[c].got]
  BY <1>0, <1>1 DEF CallType
<1>3. w \in {"starting", "running"} BY DEF Occupied
<1>4. x \in CallType BY <1>0, <1>2 DEF CallType, CallPlaces
<1>5. CallOK(x) BY <1>0, <1>2, <1>3 DEF CallOK
<1>6. calls' = [calls EXCEPT ![c] = x] BY <1>0, <1>1 DEF SessionTypes
<1>7. x.kind = calls[c].kind /\ ~Settles(calls[c]) BY <1>2, <1>3 DEF Settles
<1>8. /\ calls' \in [CallIds -> CallType] /\ (\A o \in CallIds : CallOK(calls[o])')
      /\ calls'[c] = x /\ \A o \in CallIds : o # c => calls'[o] = calls[o]
  BY <1>4, <1>5, <1>6, CallsKeep
<1>9. WindowInv' BY <1>4, <1>5, <1>6, <1>7, WindowRests
<1>10. SessionTypes' BY <1>8 DEF GuiInv, SessionTypes
<1>11. \A o \in CallIds : calls[o].at \notin Occupied BY NoSessionIs DEF GuiInv, MutexInv
<1>. QED BY <1>2, <1>8, <1>9, <1>10, <1>11 DEF GuiInv

\* authenticate: the session is used again, or a broker starts behind a password.
LEMMA AuthenticateStep ==
  ASSUME GuiInv, NEW c \in CallIds, Authenticate(c)
  PROVE  GuiInv'
<1>0. holder = NoCall /\ calls[c].at = "queued" /\ calls[c].kind = "auth" /\ UNCHANGED <<ui, bundle>> /\ ~halfDone'
  BY MutexSpares DEF Authenticate, Waiting
<1>1. CASE SlotNow # NoSession
  <2>1. Touched(c) /\ UNCHANGED holder BY <1>1 DEF Authenticate
  <2>. QED BY <1>0, <1>1, <2>1, TouchedStep
<1>2. CASE SlotNow = NoSession
  <2>1. /\ slot' = NoSession /\ (\E b \in BrokerIds : BrokersNow[b].at = "free") /\ holder' = c
        /\ brokers' = [BrokersNow EXCEPT ![NewBroker].at = "prompt"] /\ calls' = [calls EXCEPT ![c].at = "starting"]
    BY <1>2 DEF Authenticate
  <2>2. PICK n : n = NewBroker OBVIOUS
  <2>3. n \in BrokerIds BY <2>1, <2>2 DEF NewBroker
  <2>4. /\ BrokersNow \in [BrokerIds -> BrokerType]
        /\ \A b \in BrokerIds : /\ BrokersNow[b].at \in {"free", "idle", "busy"}
                                /\ BrokersNow[b].at = "idle" => SlotNow.broker = b
    BY <1>0, NowShape
  <2>5. \A b \in BrokerIds : BrokersNow[b].at \in {"free", "busy"} BY <1>2, <2>4, NoSessionIs
  <2>6. PICK y : y = [BrokersNow[n] EXCEPT !.at = "prompt"] OBVIOUS
  <2>7. y \in BrokerType /\ y.at = "prompt" BY <2>3, <2>4, <2>6 DEF BrokerType
  <2>8. brokers' = [BrokersNow EXCEPT ![n] = y] BY <2>1, <2>2, <2>3, <2>4, <2>6
  <2>9. brokers' \in [BrokerIds -> BrokerType] /\ brokers'[n].at = "prompt"
        /\ \A b \in BrokerIds : b # n => brokers'[b].at \in {"free", "busy"}
    BY <2>3, <2>4, <2>5, <2>7, <2>8
  <2>10. slot' \in SlotType /\ \A b \in BrokerIds : slot'.broker # b BY <2>1, NoSessionIs
  <2>11. /\ SessionTypes' /\ WindowInv' /\ ~halfDone' /\ (\A o \in CallIds : CallOK(calls[o])')
         /\ calls'[c].at = "starting" /\ \A o \in CallIds : calls'[o].at \in Occupied => o = c
    BY <1>0, <2>1, <2>9, <2>10, HoldingCall DEF Occupied
  <2>12. MutexInv'
    <3>1. holder' = c /\ c # NoCall /\ calls'[holder'].at = "starting" /\ slot' = NoSession
      BY <2>1, <2>11, NoSessionIs
    <3>2. \A b \in BrokerIds : brokers'[b].at # "idle" /\ (brokers'[b].at = "prompt" => b = n) BY <2>9
    <3>3. \A b \in BrokerIds : slot'.broker # b BY <2>10
    <3>. QED BY <2>11, <3>1, <3>2, <3>3 DEF MutexInv, Occupied
  <2>. QED BY <2>11, <2>12 DEF GuiInv
<1>. QED BY <1>1, <1>2

\* run: the broker in the slot takes the operation, or there is none to take it.
LEMMA RunStep ==
  ASSUME GuiInv, NEW c \in CallIds, Run(c)
  PROVE  GuiInv'
<1>0. /\ SessionTypes /\ CallOK(calls[c]) /\ calls[c] \in CallType
      /\ holder = NoCall /\ calls[c].at = "queued" /\ calls[c].kind = "run"
      /\ UNCHANGED <<ui, bundle>> /\ ~halfDone' /\ slot' = SlotNow
  BY MutexSpares DEF GuiInv, SessionTypes, Run, Waiting
<1>1. /\ SlotNow \in SlotType /\ SlotNow \in {slot, NoSession} /\ BrokersNow \in [BrokerIds -> BrokerType]
      /\ SlotNow # NoSession => SlotNow.broker \in BrokerIds
      /\ \A b \in BrokerIds : /\ BrokersNow[b].at \in {"free", "idle", "busy"}
                              /\ BrokersNow[b].at = "idle" => SlotNow.broker = b
                              /\ BrokersNow[b].at = "busy" => SlotNow.broker # b
  BY <1>0, NowShape
<1>2. slot' # NoSession => slot # NoSession BY <1>0, <1>1
<1>3. ~Settles(calls[c]) BY <1>0 DEF Settles
<1>4. CASE SlotNow # NoSession /\ BrokersNow[SlotNow.broker].at = "idle"
  <2>1. PICK s \in BrokerIds : s = SlotNow.broker BY <1>1, <1>4
  <2>2. PICK y : y = [at |-> "busy", age |-> 0, op |-> calls[c].op] OBVIOUS
  <2>3. brokers' = [BrokersNow EXCEPT ![s] = y] /\ calls' = [calls EXCEPT ![c].at = "running"] /\ holder' = c
    BY <1>4, <2>1, <2>2 DEF Run
  <2>4. y \in BrokerType /\ y.at = "busy" /\ y.op = calls[c].op BY <1>0, <2>2 DEF BrokerType, CallType
  <2>5. brokers' \in [BrokerIds -> BrokerType] /\ brokers'[s] = y /\ \A b \in BrokerIds : b # s => brokers'[b] = BrokersNow[b]
    BY <1>1, <2>3, <2>4
  <2>6. /\ SessionTypes' /\ WindowInv' /\ ~halfDone' /\ (\A o \in CallIds : CallOK(calls[o])')
        /\ calls'[c].at = "running" /\ calls'[c].op = calls[c].op
        /\ \A o \in CallIds : calls'[o].at \in Occupied => o = c
    BY <1>0, <1>1, <1>2, <2>3, <2>5, HoldingCall DEF Occupied
  <2>7. \A b \in BrokerIds : b # s => brokers'[b].at \in {"free", "busy"} /\ slot'.broker # b
    BY <1>0, <1>1, <2>1, <2>5
  <2>8. MutexInv'
    <3>1. /\ holder' = c /\ c # NoCall /\ calls'[holder'].at = "running" /\ slot' # NoSession
          /\ calls'[holder'].op = brokers'[s].op
      BY <1>0, <1>4, <2>3, <2>4, <2>5, <2>6, NoSessionIs
    <3>2. slot'.broker = s /\ brokers'[s].at = "busy" BY <1>0, <2>1, <2>4, <2>5
    <3>3. \A b \in BrokerIds : brokers'[b].at # "idle" /\ brokers'[b].at # "prompt" BY <2>7, <3>2
    <3>. QED BY <2>6, <3>1, <3>2, <3>3 DEF MutexInv, Occupied
  <2>. QED BY <2>6, <2>8 DEF GuiInv
<1>5. CASE ~(SlotNow # NoSession /\ BrokersNow[SlotNow.broker].at = "idle")
  <2>1. brokers' = BrokersNow /\ calls' = [calls EXCEPT ![c] = Returned(c, "failed")] /\ UNCHANGED holder
    BY <1>5 DEF Run
  <2>2. Returned(c, "failed") \in CallType /\ CallOK(Returned(c, "failed"))
        /\ Returned(c, "failed").kind = calls[c].kind /\ Returned(c, "failed").at \notin Occupied
    BY <1>0, ReturnedCall DEF CallOuts
  <2>. QED BY <1>0, <1>1, <1>2, <1>3, <2>1, <2>2, BriefCall
<1>. QED BY <1>4, <1>5

\* The call that has the mutex gives it back.
LEMMA ReleasingCall ==
  ASSUME GuiInv, NEW c \in CallIds, c = holder, NEW x \in CallType, CallOK(x), calls' = [calls EXCEPT ![c] = x],
         x.at \notin Occupied, x.kind = calls[c].kind, holder' = NoCall, UNCHANGED <<ui, bundle>>, ~halfDone',
         slot' \in SlotType, brokers' \in [BrokerIds -> BrokerType],
         \A b \in BrokerIds : brokers'[b].at # "prompt" /\ (brokers'[b].at = "idle" => slot'.broker = b)
                              /\ (brokers'[b].at = "busy" => slot'.broker # b),
         slot' # NoSession => slot # NoSession \/ Settles(x)
  PROVE  GuiInv'
<1>1. /\ calls' \in [CallIds -> CallType] /\ (\A o \in CallIds : CallOK(calls[o])')
      /\ calls'[c] = x /\ \A o \in CallIds : o # c => calls'[o] = calls[o]
  BY CallsKeep
<1>2. calls[c].at \in Occupied /\ \A o \in CallIds : o # c => calls[o].at \notin Occupied
  BY NoSessionIs DEF GuiInv, MutexInv
<1>3. \A o \in CallIds : calls'[o].at \notin Occupied BY <1>1, <1>2
<1>4. MutexInv' BY <1>3, MutexFree
<1>5. ~Settles(calls[c]) BY <1>2 DEF Occupied, Settles
<1>6. WindowInv' BY <1>5, WindowRests
<1>7. SessionTypes' BY <1>1 DEF GuiInv, SessionTypes
<1>. QED BY <1>1, <1>4, <1>6, <1>7 DEF GuiInv

\* The password is accepted and the broker greets, or there is no broker.
LEMMA StartedStep ==
  ASSUME GuiInv, NEW c \in CallIds, Started(c)
  PROVE  GuiInv'
<1>0. SessionTypes /\ MutexInv /\ CallOK(calls[c]) /\ calls[c] \in CallType /\ brokers \in [BrokerIds -> BrokerType]
  BY DEF GuiInv, SessionTypes
<1>1. calls[c].at = "starting" /\ holder' = NoCall /\ UNCHANGED <<ui, bundle>> /\ ~halfDone' BY DEF GuiInv, Started
<1>2. holder = c /\ slot = NoSession BY <1>0, <1>1, NoSessionIs DEF MutexInv, Occupied
<1>3. PICK b \in BrokerIds :
        /\ brokers[b].at = "prompt"
        /\ \/ /\ slot' = [broker |-> b, age |-> 0]
              /\ brokers' = [brokers EXCEPT ![b].at = "idle", ![b].age = 0]
              /\ calls' = [calls EXCEPT ![c] = Returned(c, "ok")]
           \/ /\ brokers' = Closed(b)
              /\ calls' = [calls EXCEPT ![c] = Returned(c, "failed")]
              /\ UNCHANGED slot
  BY DEF Started
<1>4. \A e \in BrokerIds : e # b => brokers[e].at \in {"free", "busy"}
  <2>1. \A e \in BrokerIds : brokers[e].at # "idle" BY <1>0, <1>2, NoSessionIs DEF MutexInv
  <2>2. \A e \in BrokerIds : brokers[e].at = "prompt" => e = b BY <1>0, <1>3 DEF MutexInv
  <2>3. \A e \in BrokerIds : brokers[e].at \in {"free", "prompt", "idle", "busy"} BY <1>0 DEF BrokerType
  <2>. QED BY <2>1, <2>2, <2>3
<1>5. calls[c].kind = "auth" /\ calls[c].op = "none" BY <1>0, <1>1 DEF CallOK
<1>6. ASSUME NEW out \in {"ok", "failed"}
      PROVE  Returned(c, out) \in CallType /\ CallOK(Returned(c, out)) /\ Returned(c, out).kind = calls[c].kind
             /\ Returned(c, out).at \notin Occupied /\ (out = "ok" => Settles(Returned(c, out)))
  BY <1>0, <1>5, ReturnedCall DEF CallOuts, Settles
<1>7. CASE calls' = [calls EXCEPT ![c] = Returned(c, "ok")] /\ slot' = [broker |-> b, age |-> 0]
           /\ brokers' = [brokers EXCEPT ![b].at = "idle", ![b].age = 0]
  <2>1. PICK y : y = [[brokers[b] EXCEPT !.at = "idle"] EXCEPT !.age = 0] OBVIOUS
  <2>2. y \in BrokerType /\ y.at = "idle" BY <1>0, <2>1 DEF BrokerType
  <2>3. brokers' = [brokers EXCEPT ![b] = y] BY <1>0, <1>7, <2>1
  <2>4. brokers' \in [BrokerIds -> BrokerType] /\ brokers'[b] = y /\ \A e \in BrokerIds : e # b => brokers'[e] = brokers[e]
    BY <1>0, <2>2, <2>3
  <2>5. slot' \in SlotType /\ slot'.broker = b BY <1>7 DEF SlotType
  <2>6. \A e \in BrokerIds : brokers'[e].at # "prompt" /\ (brokers'[e].at = "idle" => slot'.broker = e)
                             /\ (brokers'[e].at = "busy" => slot'.broker # e)
    BY <1>4, <2>2, <2>4, <2>5
  <2>. QED BY <1>1, <1>2, <1>6, <1>7, <2>4, <2>5, <2>6, ReleasingCall
<1>8. CASE calls' = [calls EXCEPT ![c] = Returned(c, "failed")] /\ brokers' = Closed(b) /\ UNCHANGED slot
  <2>1. brokers' = [brokers EXCEPT ![b] = FreeBroker] BY <1>8 DEF Closed
  <2>2. brokers' \in [BrokerIds -> BrokerType] /\ \A e \in BrokerIds : brokers'[e].at \in {"free", "busy"}
    BY <1>0, <1>4, <2>1, FreeBrokerIs
  <2>3. slot' \in SlotType /\ slot' = NoSession /\ \A e \in BrokerIds : slot'.broker # e BY <1>2, <1>8, NoSessionIs
  <2>4. \A e \in BrokerIds : brokers'[e].at # "prompt" /\ (brokers'[e].at = "idle" => slot'.broker = e)
                             /\ (brokers'[e].at = "busy" => slot'.broker # e)
    BY <2>2, <2>3
  <2>. QED BY <1>1, <1>2, <1>6, <1>8, <2>2, <2>3, <2>4, ReleasingCall
<1>. QED BY <1>3, <1>7, <1>8

\* The answer of a run is taken whole: a page of agents only from one bundle.
LEMMA AnsweredCall ==
  ASSUME SessionTypes, NEW c \in CallIds, CallOK(calls[c]), calls[c].at = "running",
         NEW out \in {"ok", "failed", "restored", "timed out"}, out = "timed out" => calls[c].op \notin Transactions
  PROVE  Answered(c, out) \in CallType /\ CallOK(Answered(c, out)) /\ Answered(c, out).at \notin Occupied
         /\ Answered(c, out).kind = calls[c].kind
<1>0. calls[c] \in CallType /\ bundle \in Nat /\ out \in CallOuts BY DEF SessionTypes, CallOuts
<1>1. calls[c].kind = "run" /\ calls[c].out = "none" BY DEF CallOK
<1>2. CASE out # "ok" \/ calls[c].op # "agents"
  <2>1. Answered(c, out) = Returned(c, out) BY <1>2 DEF Answered
  <2>2. Returned(c, out) \in CallType /\ CallOK(Returned(c, out)) /\ Returned(c, out).kind = calls[c].kind
        /\ Returned(c, out).at \notin Occupied
    BY <1>0, <1>2, ReturnedCall
  <2>. QED BY <2>1, <2>2
<1>3. CASE ~(out # "ok" \/ calls[c].op # "agents") /\ calls[c].seen = 0
  <2>1. PICK x : x = Answered(c, out) OBVIOUS
  <2>2. x = [calls[c] EXCEPT !.at = "queued", !.seen = bundle] BY <1>3, <2>1 DEF Answered
  <2>3. x = [kind |-> "run", op |-> calls[c].op, at |-> "queued", out |-> "none", seen |-> bundle, got |-> calls[c].got]
    BY <1>0, <1>1, <2>2 DEF CallType
  <2>4. x \in CallType BY <1>0, <2>3 DEF CallType, CallPlaces, CallOuts
  <2>5. CallOK(x) /\ x.at \notin Occupied /\ x.kind = calls[c].kind BY <1>1, <2>3 DEF CallOK, Occupied
  <2>. QED BY <2>1, <2>4, <2>5
<1>4. CASE ~(out # "ok" \/ calls[c].op # "agents") /\ calls[c].seen # 0 /\ calls[c].seen = bundle
  <2>1. PICK x : x = Answered(c, out) OBVIOUS
  <2>2. x = [Returned(c, "ok") EXCEPT !.got = bundle] BY <1>4, <2>1 DEF Answered, ManifestAgrees
  <2>3. x = [kind |-> "run", op |-> "agents", at |-> "returned", out |-> "ok", seen |-> bundle, got |-> bundle]
    BY <1>0, <1>1, <1>4, <2>2 DEF CallType, Returned
  <2>4. x \in CallType BY <1>0, <2>3 DEF CallType, CallPlaces, CallOuts, CallOps, BrokerOps
  <2>5. CallOK(x) /\ x.at \notin Occupied /\ x.kind = calls[c].kind BY <1>1, <2>3 DEF CallOK, Occupied, Transactions
  <2>. QED BY <2>1, <2>4, <2>5
<1>5. CASE ~(out # "ok" \/ calls[c].op # "agents") /\ calls[c].seen # 0 /\ calls[c].seen # bundle
  <2>1. Answered(c, out) = Returned(c, "failed") BY <1>5 DEF Answered, ManifestAgrees
  <2>. QED BY <2>1, ReturnedCall DEF CallOuts
<1>. QED BY <1>2, <1>3, <1>4, <1>5

\* A broker that nobody waits for leaves.
LEMMA BrokerLeaves ==
  ASSUME GuiInv, NEW b \in BrokerIds, brokers' = Closed(b), brokers[b].at # "busy" \/ slot.broker # b,
         UNCHANGED <<ui, calls, holder, slot, bundle>>, ~halfDone'
  PROVE  GuiInv'
<1>0. SessionTypes /\ MutexInv /\ WindowInv /\ brokers \in [BrokerIds -> BrokerType] BY DEF GuiInv, SessionTypes
<1>1. brokers' = [brokers EXCEPT ![b] = FreeBroker] BY DEF Closed
<1>2. brokers' \in [BrokerIds -> BrokerType] /\ brokers'[b].at = "free" /\ \A e \in BrokerIds : e # b => brokers'[e] = brokers[e]
  BY <1>0, <1>1, FreeBrokerIs
<1>3. holder # NoCall /\ calls[holder].at = "running" => slot.broker # b BY <1>0 DEF MutexInv
<1>4. slot # NoSession => slot.broker \in BrokerIds BY <1>0 DEF SessionTypes, SlotType
<1>5. MutexInv' BY <1>0, <1>2, <1>3, <1>4 DEF MutexInv
<1>6. SessionTypes' BY <1>0, <1>2 DEF SessionTypes
<1>7. WindowInv' BY <1>0 DEF WindowInv, Settles
<1>8. \A o \in CallIds : CallOK(calls[o])' BY DEF GuiInv, CallOK
<1>. QED BY <1>5, <1>6, <1>7, <1>8 DEF GuiInv

\* The broker that the call at the mutex waits for.
LEMMA BusyBroker ==
  ASSUME GuiInv, NEW b \in BrokerIds, brokers[b].at = "busy", slot.broker = b
  PROVE  /\ holder \in CallIds /\ calls[holder].at = "running" /\ calls[holder].op = brokers[b].op
         /\ CallOK(calls[holder]) /\ slot \in [broker : BrokerIds, age : Nat]
         /\ \A e \in BrokerIds : e # b => brokers[e].at \in {"free", "busy"}
<1>0. SessionTypes /\ MutexInv /\ brokers \in [BrokerIds -> BrokerType] /\ holder \in CallIds \cup {NoCall}
  BY DEF GuiInv, SessionTypes
<1>1. holder \in CallIds /\ calls[holder].at = "running" /\ calls[holder].op = brokers[b].op BY <1>0 DEF MutexInv
<1>2. slot \in [broker : BrokerIds, age : Nat] BY <1>0, NoSessionIs DEF SessionTypes, SlotType
<1>3. \A e \in BrokerIds : e # b => brokers[e].at \notin {"idle", "prompt"} BY <1>0, <1>1 DEF MutexInv
<1>4. \A e \in BrokerIds : brokers[e].at \in {"free", "prompt", "idle", "busy"} BY <1>0 DEF BrokerType
<1>. QED BY <1>1, <1>2, <1>3, <1>4 DEF GuiInv

LEMMA AnswerStep ==
  ASSUME GuiInv, NEW b \in BrokerIds, brokers[b].at = "busy", NEW out \in {"ok", "failed", "restored", "timed out"},
         out = "timed out" => brokers[b].op \notin Transactions, BrokerAnswers(b, out), UNCHANGED <<ui, bundle>>, ~halfDone'
  PROVE  GuiInv'
<1>0. SessionTypes /\ brokers \in [BrokerIds -> BrokerType] BY DEF GuiInv, SessionTypes
<1>1. CASE slot.broker = b
  <2>1. /\ holder' = NoCall /\ brokers' = [brokers EXCEPT ![b] = [FreeBroker EXCEPT !.at = "idle"]]
        /\ slot' = [slot EXCEPT !.age = 0] /\ calls' = [calls EXCEPT ![holder] = Answered(holder, out)]
    BY <1>1 DEF BrokerAnswers
  <2>2. /\ holder \in CallIds /\ calls[holder].at = "running" /\ calls[holder].op = brokers[b].op
        /\ CallOK(calls[holder]) /\ slot \in [broker : BrokerIds, age : Nat]
        /\ \A e \in BrokerIds : e # b => brokers[e].at \in {"free", "busy"}
    BY <1>1, BusyBroker
  <2>3. PICK y : y = [FreeBroker EXCEPT !.at = "idle"] OBVIOUS
  <2>4. y \in BrokerType /\ y.at = "idle" BY <2>3 DEF FreeBroker, BrokerType, CallOps
  <2>5. /\ brokers' \in [BrokerIds -> BrokerType] /\ brokers'[b] = y
        /\ \A e \in BrokerIds : e # b => brokers'[e] = brokers[e]
    BY <1>0, <2>1, <2>3, <2>4
  <2>6. slot' \in [broker : BrokerIds, age : Nat] /\ slot'.broker = b BY <1>1, <2>1, <2>2
  <2>7. slot' \in SlotType /\ slot # NoSession BY <1>1, <2>6, NoSessionIs DEF SlotType
  <2>8. \A e \in BrokerIds : brokers'[e].at # "prompt" /\ (brokers'[e].at = "idle" => slot'.broker = e)
                             /\ (brokers'[e].at = "busy" => slot'.broker # e)
    BY <2>2, <2>4, <2>5, <2>6
  <2>9. PICK c \in CallIds : c = holder BY <2>2
  <2>10. Answered(c, out) \in CallType /\ CallOK(Answered(c, out)) /\ Answered(c, out).at \notin Occupied
         /\ Answered(c, out).kind = calls[c].kind
    BY <1>0, <2>2, <2>9, AnsweredCall
  <2>11. calls' = [calls EXCEPT ![c] = Answered(c, out)] BY <2>1, <2>9
  <2>. QED BY <2>1, <2>5, <2>7, <2>8, <2>9, <2>10, <2>11, ReleasingCall
<1>2. CASE slot.broker # b
  <2>1. brokers' = Closed(b) /\ UNCHANGED <<slot, calls, holder>> BY <1>2 DEF BrokerAnswers
  <2>. QED BY <1>2, <2>1, BrokerLeaves
<1>. QED BY <1>1, <1>2

LEMMA BrokerSteps ==
  ASSUME GuiInv, NEW b \in BrokerIds, OperationEnds(b) \/ OperationTimesOut(b) \/ BrokerTimesOut(b) \/ BrokerDies(b)
  PROVE  GuiInv'
<1>0. SessionTypes /\ brokers \in [BrokerIds -> BrokerType] /\ ~halfDone BY DEF GuiInv, SessionTypes
<1>1. CASE OperationEnds(b)
  <2>1. PICK out \in {"ok", "failed", "restored"} : BrokerAnswers(b, out) BY <1>1 DEF OperationEnds, Outcomes
  <2>2. brokers[b].at = "busy" /\ UNCHANGED <<ui, bundle>> /\ ~halfDone' BY <1>0, <1>1 DEF OperationEnds
  <2>. QED BY <2>1, <2>2, AnswerStep
<1>2. CASE OperationTimesOut(b)
  <2>1. brokers[b].at = "busy" /\ brokers[b].op \notin Transactions /\ BrokerAnswers(b, "timed out") /\ UNCHANGED <<ui, bundle>>
    BY <1>2 DEF OperationTimesOut, Unbounded, Transactions
  <2>3. \A e \in BrokerIds : e # b => brokers'[e] = brokers[e] BY <1>0, <2>1 DEF BrokerAnswers, Closed
  <2>2. ~halfDone' BY <1>0, <1>2, <2>1, <2>3 DEF OperationTimesOut, Notes, CutsTransaction
  <2>. QED BY <2>1, <2>2, AnswerStep
<1>3. CASE BrokerTimesOut(b)
  <2>1. /\ brokers[b].at # "busy" /\ brokers' = Closed(b) /\ UNCHANGED <<ui, calls, holder, slot, bundle>> /\ ~halfDone'
    BY <1>0, <1>3 DEF BrokerTimesOut
  <2>. QED BY <2>1, BrokerLeaves
<1>4. CASE BrokerDies(b)
  <2>1. brokers' = Closed(b) /\ UNCHANGED <<ui, slot, bundle>> /\ ~halfDone' BY <1>0, <1>4 DEF BrokerDies
  <2>2. CASE slot.broker = b /\ brokers[b].at = "busy"
    <3>1. calls' = [calls EXCEPT ![holder] = Returned(holder, "failed")] /\ holder' = NoCall BY <1>4, <2>2 DEF BrokerDies
    <3>2. /\ holder \in CallIds /\ CallOK(calls[holder]) /\ slot \in SlotType
          /\ \A e \in BrokerIds : e # b => brokers[e].at \in {"free", "busy"}
      BY <1>0, <2>2, BusyBroker DEF SessionTypes
    <3>3. brokers' = [brokers EXCEPT ![b] = FreeBroker] BY <2>1 DEF Closed
    <3>4. /\ brokers' \in [BrokerIds -> BrokerType] /\ brokers'[b].at = "free"
          /\ \A e \in BrokerIds : e # b => brokers'[e].at \in {"free", "busy"}
      BY <1>0, <3>2, <3>3, FreeBrokerIs
    <3>5. \A e \in BrokerIds : brokers'[e].at # "prompt" /\ (brokers'[e].at = "idle" => slot'.broker = e)
                               /\ (brokers'[e].at = "busy" => slot'.broker # e)
      BY <2>1, <2>2, <3>4
    <3>6. PICK c \in CallIds : c = holder BY <3>2
    <3>7. Returned(c, "failed") \in CallType /\ CallOK(Returned(c, "failed")) /\ Returned(c, "failed").at \notin Occupied
          /\ Returned(c, "failed").kind = calls[c].kind
      BY <1>0, <3>2, <3>6, ReturnedCall DEF CallOuts
    <3>8. calls' = [calls EXCEPT ![c] = Returned(c, "failed")] BY <3>1, <3>6
    <3>. QED BY <2>1, <3>1, <3>2, <3>4, <3>5, <3>6, <3>7, <3>8, ReleasingCall
  <2>3. CASE ~(slot.broker = b /\ brokers[b].at = "busy")
    <3>1. UNCHANGED <<calls, holder>> BY <1>4, <2>3 DEF BrokerDies
    <3>. QED BY <2>1, <2>3, <3>1, BrokerLeaves
  <2>. QED BY <2>2, <2>3
<1>. QED BY <1>1, <1>2, <1>3, <1>4

\* The window after a call: what it must still have outstanding when it is locked.
LEMMA ResolvedCall ==
  ASSUME GuiInv, NEW c \in CallIds, calls[c].at = "returned", NEW x \in CallType, CallOK(x), x.at \notin Occupied,
         x.kind # "auth", calls' = [calls EXCEPT ![c] = x], UNCHANGED <<holder, slot, brokers, halfDone, bundle>>,
         ui' = [locked |-> ui'.locked, authBusy |-> ui'.authBusy, idle |-> ui'.idle, touchPending |-> ui'.touchPending],
         calls[c].kind = "auth" \/ (ui.authBusy => ui'.authBusy), ui'.authBusy => ui'.locked,
         ui'.locked => Settles(x) \/ (ui.locked /\ ~Settles(calls[c]))
  PROVE  GuiInv'
<1>0. SessionTypes /\ WindowInv /\ ~halfDone BY DEF GuiInv
<1>1. /\ calls' \in [CallIds -> CallType] /\ (\A o \in CallIds : CallOK(calls[o])')
      /\ calls'[c] = x /\ \A o \in CallIds : o # c => calls'[o] = calls[o]
  BY CallsKeep
<1>2. calls[c].at \notin Occupied BY DEF Occupied
<1>3. MutexInv' BY <1>2, MutexRests
<1>5. SessionTypes' BY <1>0, <1>1 DEF SessionTypes
<1>6. ASSUME ui'.locked, slot' # NoSession PROVE \E o \in CallIds : Settles(calls[o])'
  <2>1. CASE Settles(x) BY <1>1, <2>1 DEF Settles
  <2>2. CASE ui.locked /\ ~Settles(calls[c])
    <3>1. PICK o \in CallIds : Settles(calls[o]) BY <1>0, <1>6, <2>2 DEF WindowInv
    <3>2. o # c BY <2>2, <3>1
    <3>. QED BY <1>1, <3>1, <3>2 DEF Settles
  <2>. QED BY <1>6, <2>1, <2>2
<1>7. \A o \in CallIds : calls'[o].kind = "auth" => o # c /\ calls[o].kind = "auth" BY <1>1
<1>8. \A o \in CallIds : calls'[o].kind = "auth" => ui'.authBusy BY <1>0, <1>7 DEF WindowInv
<1>9. WindowInv' BY <1>0, <1>6, <1>7, <1>8 DEF WindowInv
<1>. QED BY <1>0, <1>1, <1>3, <1>5, <1>9 DEF GuiInv

LEMMA AppEndsStep ==
  ASSUME GuiInv, AppEnds
  PROVE  GuiInv'
<1>0. SessionTypes /\ brokers \in [BrokerIds -> BrokerType] /\ ~halfDone BY DEF GuiInv, SessionTypes
<1>1. /\ ui' = LockedUi /\ calls' = [c \in CallIds |-> FreeCall] /\ holder' = NoCall /\ slot' = NoSession
      /\ UNCHANGED bundle /\ Notes
      /\ brokers' = [b \in BrokerIds |-> IF brokers[b].at = "busy" THEN brokers[b] ELSE FreeBroker]
  BY DEF AppEnds
<1>2. calls' \in [CallIds -> CallType] /\ \A c \in CallIds : calls'[c] = FreeCall BY <1>1, FreeCallIs
<1>3. brokers' \in [BrokerIds -> BrokerType] /\ \A b \in BrokerIds : brokers'[b].at \in {"free", "busy"}
  BY <1>0, <1>1, FreeBrokerIs
<1>10. ~halfDone' BY <1>0, <1>1 DEF Notes, CutsTransaction
<1>4. \A b \in BrokerIds : slot'.broker # b BY <1>1, NoSessionIs
<1>5. MutexInv' BY <1>1, <1>2, <1>3, <1>4, FreeCallIs, MutexFree
<1>6. ui' = [locked |-> ui'.locked, authBusy |-> ui'.authBusy, idle |-> ui'.idle, touchPending |-> ui'.touchPending]
      /\ ui'.authBusy = FALSE
  BY <1>1 DEF LockedUi
<1>7. SessionTypes' BY <1>0, <1>1, <1>2, <1>3, <1>6, NoSessionIs DEF SessionTypes
<1>8. WindowInv' BY <1>1, <1>2, <1>6, FreeCallIs DEF WindowInv
<1>9. \A o \in CallIds : CallOK(calls[o])' BY <1>2, FreeCallIs DEF CallOK
<1>. QED BY <1>5, <1>7, <1>8, <1>9, <1>10 DEF GuiInv

LEMMA ResolveStep ==
  ASSUME GuiInv, NEW c \in CallIds, Resolve(c)
  PROVE  GuiInv'
<1>0. SessionTypes /\ WindowInv /\ calls[c].at = "returned" BY DEF GuiInv, Resolve
<1>1. CASE calls[c].kind = "restart" BY <1>1, AppEndsStep DEF Resolve
<1>2. CASE calls[c].kind # "restart"
  <2>0. ui' = UiAfter(calls[c]) /\ calls' = [calls EXCEPT ![c] = CallAfter(calls[c])]
        /\ UNCHANGED <<holder, slot, brokers, halfDone, bundle>>
    BY <1>2 DEF Resolve
  <2>1. CASE calls[c].kind = "auth"
    <3>1. CallAfter(calls[c]) = FreeCall BY <2>1 DEF CallAfter
    <3>2. ui.locked BY <1>0, <2>1 DEF WindowInv
    <3>3. calls' = [calls EXCEPT ![c] = FreeCall] BY <2>0, <3>1
    <3>4. CASE calls[c].out = "ok"
      <4>1. ui' = [locked |-> FALSE, authBusy |-> FALSE, idle |-> 0, touchPending |-> ui.touchPending]
        BY <1>0, <2>0, <2>1, <3>4 DEF UiAfter, SessionTypes
      <4>2. /\ ui' = [locked |-> ui'.locked, authBusy |-> ui'.authBusy, idle |-> ui'.idle, touchPending |-> ui'.touchPending]
            /\ ~ui'.locked /\ ~ui'.authBusy
        BY <4>1
      <4>. QED BY <1>0, <2>0, <2>1, <3>3, <4>2, FreeCallIs, ResolvedCall
    <3>5. CASE calls[c].out # "ok"
      <4>1. ui' = [locked |-> TRUE, authBusy |-> FALSE, idle |-> ui.idle, touchPending |-> ui.touchPending]
        BY <1>0, <2>0, <2>1, <3>5 DEF UiAfter, SessionTypes
      <4>2. ui' = [locked |-> ui'.locked, authBusy |-> ui'.authBusy, idle |-> ui'.idle, touchPending |-> ui'.touchPending] /\ ~ui'.authBusy BY <4>1
      <4>3. ~Settles(calls[c]) BY <2>1, <3>5 DEF Settles
      <4>. QED BY <1>0, <2>0, <2>1, <3>2, <3>3, <4>2, <4>3, FreeCallIs, ResolvedCall
    <3>. QED BY <3>4, <3>5
  <2>2. CASE calls[c].kind = "touch"
    <3>0. ~Settles(calls[c]) BY <2>2 DEF Settles
    <3>1. ui' = [locked |-> ui'.locked, authBusy |-> ui.authBusy, idle |-> ui.idle, touchPending |-> FALSE]
      BY <1>0, <2>0, <2>2 DEF UiAfter, SessionTypes
    <3>2. /\ ui' = [locked |-> ui'.locked, authBusy |-> ui'.authBusy, idle |-> ui'.idle, touchPending |-> ui'.touchPending]
          /\ ui'.authBusy = ui.authBusy
      BY <3>1
    <3>3. ui'.locked = (ui.locked \/ calls[c].out # "ok") BY <1>0, <2>0, <2>2 DEF UiAfter, SessionTypes
    <3>4. (ui.authBusy => ui'.authBusy) /\ (ui'.authBusy => ui'.locked) BY <1>0, <3>2, <3>3 DEF WindowInv
    <3>5. CASE ~ui.locked /\ calls[c].out # "ok"
      <4>1. PICK x \in CallType : x = Queued("lock", "none") /\ CallOK(x) /\ x.kind = "lock" /\ x.at \notin Occupied
                                  /\ x.at = "queued"
        BY NewCalls DEF CallOps
      <4>2. calls' = [calls EXCEPT ![c] = x] /\ Settles(x) BY <2>0, <2>2, <3>5, <4>1 DEF CallAfter, Settles
      <4>. QED BY <1>0, <2>0, <3>2, <3>4, <4>1, <4>2, ResolvedCall
    <3>6. CASE ui.locked \/ calls[c].out = "ok"
      <4>1. calls' = [calls EXCEPT ![c] = FreeCall] BY <2>0, <3>6 DEF CallAfter
      <4>2. ui'.locked => ui.locked /\ ~Settles(calls[c]) BY <3>0, <3>3, <3>6
      <4>. QED BY <1>0, <2>0, <3>2, <3>4, <4>1, <4>2, FreeCallIs, ResolvedCall
    <3>. QED BY <3>5, <3>6
  <2>3. CASE calls[c].kind \notin {"auth", "touch"}
    <3>1. calls' = [calls EXCEPT ![c] = FreeCall] /\ ui' = ui BY <2>0, <2>3 DEF CallAfter, UiAfter
    <3>2. /\ ui' = [locked |-> ui'.locked, authBusy |-> ui'.authBusy, idle |-> ui'.idle, touchPending |-> ui'.touchPending]
          /\ ui'.authBusy = ui.authBusy /\ ui'.locked = ui.locked
      BY <1>0, <3>1 DEF SessionTypes
    <3>3. ~Settles(calls[c]) BY <1>0, <2>3 DEF Settles
    <3>4. (ui.authBusy => ui'.authBusy) /\ (ui'.authBusy => ui'.locked) /\ (ui'.locked => ui.locked)
      BY <1>0, <3>2 DEF WindowInv
    <3>. QED BY <1>0, <2>0, <3>1, <3>2, <3>3, <3>4, FreeCallIs, ResolvedCall
  <2>. QED BY <2>1, <2>2, <2>3
<1>. QED BY <1>1, <1>2

LEMMA SessionTickStep ==
  ASSUME GuiInv, SessionTick
  PROVE  GuiInv'
<1>0. /\ SessionTypes /\ MutexInv /\ WindowInv /\ brokers \in [BrokerIds -> BrokerType] /\ slot \in SlotType /\ ~halfDone
      /\ UNCHANGED <<calls, holder, halfDone, bundle>>
  BY DEF GuiInv, SessionTypes, SessionTick
<1>1. \A n \in Nat : Older(n, BrokerIdle) \in Nat BY DEF Older
<1>2. slot' \in SlotType /\ slot'.broker = slot.broker /\ (slot' = NoSession <=> slot = NoSession)
  <2>1. CASE slot = NoSession BY <1>0, <2>1 DEF SessionTick
  <2>2. CASE slot # NoSession
    <3>1. slot \in [broker : BrokerIds, age : Nat] BY <1>0, <2>2 DEF SlotType
    <3>2. slot' = [slot EXCEPT !.age = Older(@, BrokerIdle)] BY <2>2 DEF SessionTick
    <3>3. slot' \in [broker : BrokerIds, age : Nat] /\ slot'.broker = slot.broker BY <1>1, <3>1, <3>2
    <3>. QED BY <2>2, <3>3, NoSessionIs DEF SlotType
  <2>. QED BY <2>1, <2>2
<1>3. ASSUME NEW b \in BrokerIds
      PROVE  brokers'[b] \in BrokerType /\ brokers'[b].at = brokers[b].at /\ brokers'[b].op = brokers[b].op
  <2>1. CASE brokers[b].at = "idle"
    <3>1. PICK y : y = [brokers[b] EXCEPT !.age = Older(@, BrokerIdle)] OBVIOUS
    <3>2. y \in BrokerType /\ y.at = brokers[b].at /\ y.op = brokers[b].op BY <1>0, <1>1, <3>1 DEF BrokerType
    <3>3. brokers'[b] = y BY <2>1, <3>1 DEF SessionTick
    <3>. QED BY <3>2, <3>3
  <2>2. CASE brokers[b].at # "idle"
    <3>1. brokers'[b] = brokers[b] BY <2>2 DEF SessionTick
    <3>. QED BY <1>0, <3>1
  <2>. QED BY <2>1, <2>2
<1>4. brokers' \in [BrokerIds -> BrokerType]
  <2>1. PICK f : f = brokers' OBVIOUS
  <2>2. f = [b \in BrokerIds |-> f[b]] BY <2>1 DEF SessionTick
  <2>3. \A b \in BrokerIds : f[b] \in BrokerType BY <1>3, <2>1
  <2>. QED BY <2>1, <2>2, <2>3
<1>5. ui' = [locked |-> ui.locked, authBusy |-> ui.authBusy, idle |-> ui'.idle, touchPending |-> ui.touchPending]
  BY <1>0 DEF SessionTick, SessionTypes
<1>6. ui' = [locked |-> ui'.locked, authBusy |-> ui'.authBusy, idle |-> ui'.idle, touchPending |-> ui'.touchPending]
      /\ ui'.locked = ui.locked /\ ui'.authBusy = ui.authBusy
  BY <1>5
<1>7. SessionTypes' BY <1>0, <1>2, <1>4, <1>6 DEF SessionTypes
<1>8. slot # NoSession => slot.broker \in BrokerIds BY <1>0 DEF SlotType
<1>9. MutexInv' BY <1>0, <1>2, <1>3, <1>8 DEF MutexInv
<1>10. WindowInv' BY <1>0, <1>2, <1>6 DEF WindowInv, Settles
<1>11. \A o \in CallIds : CallOK(calls[o])' BY <1>0 DEF GuiInv, CallOK
<1>. QED BY <1>0, <1>7, <1>9, <1>10, <1>11 DEF GuiInv

LEMMA GuiInvInit == GuiInit => GuiInv
<1> SUFFICES ASSUME GuiInit PROVE GuiInv
  OBVIOUS
<1>1. /\ ui = LockedUi /\ calls = [c \in CallIds |-> FreeCall] /\ holder = NoCall /\ slot = NoSession
      /\ brokers = [b \in BrokerIds |-> FreeBroker] /\ ~halfDone /\ bundle = 1
  BY DEF GuiInit
<1>2. \A c \in CallIds : calls[c] = FreeCall BY <1>1
<1>3. \A b \in BrokerIds : brokers[b].at = "free" BY <1>1, FreeBrokerIs
<1>4. calls \in [CallIds -> CallType] /\ brokers \in [BrokerIds -> BrokerType] BY <1>1, FreeCallIs, FreeBrokerIs
<1>5. ui = [locked |-> ui.locked, authBusy |-> ui.authBusy, idle |-> ui.idle, touchPending |-> ui.touchPending]
      /\ ui.authBusy = FALSE
  BY <1>1 DEF LockedUi
<1>6. SessionTypes BY <1>1, <1>4, <1>5, NoSessionIs DEF SessionTypes
<1>7. MutexInv BY <1>1, <1>2, <1>3, FreeCallIs DEF MutexInv
<1>8. WindowInv BY <1>1, <1>2, <1>5, FreeCallIs DEF WindowInv
<1>. QED BY <1>1, <1>2, <1>6, <1>7, <1>8, FreeCallIs DEF GuiInv

LEMMA GuiInvStep == GuiInv /\ [GuiNext]_guiVars => GuiInv'
<1> SUFFICES ASSUME GuiInv, [GuiNext]_guiVars PROVE GuiInv'
  OBVIOUS
<1>0. SessionTypes /\ MutexInv /\ WindowInv /\ ~halfDone BY DEF GuiInv
<1>1. ASSUME NEW c \in FreeCalls, Unlock(c) \/ LockUi(c) \/ RecordActivity(c) \/ Operate(c) \/ RestartApp(c)
      PROVE  GuiInv'
  BY <1>1, UnlockStep, LockUiStep, WindowSteps
<1>2. ASSUME NEW c \in CallIds, Authenticate(c) PROVE GuiInv' BY <1>2, AuthenticateStep
<1>3. ASSUME NEW c \in CallIds, Started(c) PROVE GuiInv' BY <1>3, StartedStep
<1>4. ASSUME NEW c \in CallIds, TouchBroker(c) \/ RequireActive(c) \/ LockSession(c) PROVE GuiInv' BY <1>4, BriefSteps
<1>5. ASSUME NEW c \in CallIds, Run(c) PROVE GuiInv' BY <1>5, RunStep
<1>6. ASSUME NEW c \in CallIds, Resolve(c) PROVE GuiInv' BY <1>6, ResolveStep
<1>7. ASSUME NEW c \in CallIds,
             RefuseArguments(c) \/ Authorise(c) \/ RefusePassword(c) \/ FreshTimesOut(c) \/ FreshEnds(c)
      PROVE  GuiInv'
  BY <1>7, LooseSteps
<1>8. ASSUME NEW b \in BrokerIds, OperationEnds(b) \/ OperationTimesOut(b) \/ BrokerTimesOut(b) \/ BrokerDies(b)
      PROVE  GuiInv'
  BY <1>8, BrokerSteps
<1>9. CASE BundleMoves
  <2>1. UNCHANGED <<ui, calls, holder, slot, brokers, halfDone>> /\ bundle' = bundle + 1 BY <1>9 DEF BundleMoves
  <2>2. SessionTypes' BY <1>0, <2>1 DEF SessionTypes
  <2>3. MutexInv' BY <1>0, <2>1 DEF MutexInv
  <2>4. WindowInv' BY <1>0, <2>1 DEF WindowInv, Settles
  <2>5. \A o \in CallIds : CallOK(calls[o])' BY <2>1 DEF GuiInv, CallOK
  <2>. QED BY <1>0, <2>1, <2>2, <2>3, <2>4, <2>5 DEF GuiInv
<1>10. CASE Quit BY <1>10, AppEndsStep DEF Quit
<1>11. CASE SessionTick BY <1>11, SessionTickStep
<1>12. CASE UNCHANGED guiVars
  <2>1. UNCHANGED <<ui, calls, holder, slot, brokers, halfDone, bundle>> BY <1>12 DEF guiVars
  <2>2. SessionTypes' BY <1>0, <2>1 DEF SessionTypes
  <2>3. MutexInv' BY <1>0, <2>1 DEF MutexInv
  <2>4. WindowInv' BY <1>0, <2>1 DEF WindowInv, Settles
  <2>5. \A o \in CallIds : CallOK(calls[o])' BY <2>1 DEF GuiInv, CallOK
  <2>. QED BY <1>0, <2>1, <2>2, <2>3, <2>4, <2>5 DEF GuiInv
<1>. QED BY <1>1, <1>2, <1>3, <1>4, <1>5, <1>6, <1>7, <1>8, <1>9, <1>10, <1>11, <1>12 DEF GuiNext

\* The administrator session is sound for any number of calls and brokers and any
\* idle windows: no lock, expiry, limit, restart or quit ends a broker in the middle
\* of a transaction, a call that runs has the session to itself, no idle root broker
\* is outside the slot or behind a locked window whose calls have returned, and a
\* page of agents is one bundle's (session.rs, session.ts, admin.rs).
THEOREM SessionIsSoundAlways == GuiSpec => []SessionIsSound
<1>1. GuiInit => GuiInv BY GuiInvInit
<1>2. GuiInv /\ [GuiNext]_guiVars => GuiInv' BY GuiInvStep
<1>3. GuiInv => SessionIsSound
  <2> SUFFICES ASSUME GuiInv PROVE SessionIsSound
    OBVIOUS
  <2>1. TransactionsAreKept
    <3>1. ASSUME NEW c \in CallIds, calls[c].at = "running"
          PROVE  /\ holder = c /\ slot # NoSession
                 /\ brokers[slot.broker].at = "busy" /\ brokers[slot.broker].op = calls[c].op
      <4>1. holder = c /\ c # NoCall BY <3>1, NoSessionIs DEF GuiInv, MutexInv, Occupied
      <4>2. slot # NoSession /\ brokers[slot.broker].at = "busy" BY <3>1, <4>1 DEF GuiInv, MutexInv
      <4>3. slot.broker \in BrokerIds BY <4>2 DEF GuiInv, SessionTypes, SlotType
      <4>. QED BY <4>1, <4>2, <4>3 DEF GuiInv, MutexInv
    <3>. QED BY <3>1 DEF GuiInv, TransactionsAreKept
  <2>2. PageIsOneBundle BY DEF GuiInv, CallOK, PageIsOneBundle
  <2>3. \A b \in BrokerIds : brokers[b].at = "idle" => slot.broker = b BY DEF GuiInv, MutexInv
  <2>4. ASSUME ui.locked, FreeCalls = CallIds, NEW b \in BrokerIds, brokers[b].at = "idle" PROVE FALSE
    <3>1. slot # NoSession BY <2>3, <2>4, NoSessionIs
    <3>2. PICK c \in CallIds : Settles(calls[c]) BY <2>4, <3>1 DEF GuiInv, WindowInv
    <3>. QED BY <2>4, <3>2, FreeCallsAre
  <2>. QED BY <2>1, <2>2, <2>3, <2>4 DEF SessionIsSound, GrantIsHeld
<1>. QED BY <1>1, <1>2, <1>3, PTL DEF GuiSpec

-----------------------------------------------------------------------------
(* The provider accounts.                                                   *)

Runtimes == Builds \cup {Legacy, None}
JobType ==
  [cmd : {"none", "install", "rollback", "connect", "enable", "disable", "disconnect"}, of : Clients \cup {"none"},
   at : {"free", "begun", "fetching", "verified", "staging", "staged", "kept", "renamed", "checked", "enabled",
         "undo", "unsocketed", "logout"},
   want : Builds \cup {None}, got : Runtimes \cup {Wrong}, beside : BOOLEAN]
UnderLock == {"fetching", "verified", "staging", "staged", "kept", "renamed"}

\* What the step of a command says of it, of the lock, of the runtime it replaces and
\* of the worker units it stops.
JobOK(x, t, fs, lit, lk, wu) ==
  /\ x.at # "free" => x.of \in Clients /\ x.want \in Builds
  /\ x.at \in UnderLock => x.cmd \in {"install", "rollback"} /\ lk = t
  /\ x.at \in {"fetching", "verified", "kept"} => x.cmd = "install"
  /\ x.at = "renamed" => x.cmd = "rollback"
  /\ x.at \in UnderLock /\ x.cmd = "install" => t \in lit
  /\ x.at = "verified" /\ x.of = "codex" => x.got = x.want
  /\ x.at \in {"staging", "staged", "kept"} /\ x.cmd = "install" => fs[x.of].target # x.want
  /\ x.at \in {"staged", "kept"} /\ x.cmd = "install" => x.got = x.want
  /\ x.at = "kept" => fs[x.of].previous = fs[x.of].target
  /\ x.at \in {"staging", "staged"} /\ x.cmd = "rollback" => x.got = fs[x.of].previous /\ x.got # None
  /\ x.at = "unsocketed" => x.cmd \in {"disable", "disconnect"}
  /\ x.at \in {"unsocketed", "logout"} /\ x.cmd = "disconnect" /\ ~x.beside => ~wu.socket
  /\ x.at = "logout" /\ x.cmd = "disconnect" /\ ~x.beside => ~wu.service /\ ~wu.prompt

\* The two files of a provider are alike only between the renames.
FilesOK(p) ==
  /\ files[p].target = None => files[p].previous = None
  /\ files[p].previous = files[p].target /\ files[p].previous # None =>
       p \in halved \/ \E t \in Consoles : InWindow(t) /\ jobs[t].of = p

AccountsTypes ==
  /\ files \in [Clients -> [target : Runtimes, previous : Runtimes]]
  /\ jobs \in [Consoles -> JobType]
  /\ workerUnits = [socket |-> workerUnits.socket, service |-> workerUnits.service, prompt |-> workerUnits.prompt]

AccountsInv ==
  /\ AccountsTypes
  /\ \A t \in Consoles : JobOK(jobs[t], t, files, litter, runtimeLock, workerUnits)
  /\ \A p \in Clients : FilesOK(p)

-----------------------------------------------------------------------------

LEMMA NoJobIs ==
  NoJob \in JobType /\ NoJob.at = "free" /\ \A t, fs, lit, lk, wu : JobOK(NoJob, t, fs, lit, lk, wu)
<1>1. NoJob \in JobType BY DEF NoJob, JobType, Runtimes
<1>. QED BY <1>1 DEF NoJob, JobOK, UnderLock

\* One terminal takes a step: the others' commands stand, since what they rely on
\* changes only at the hands of the one that has the lock.
LEMMA OthersStand ==
  ASSUME AccountsInv, NEW t \in Consoles, NEW y \in JobType, jobs' = [jobs EXCEPT ![t] = y],
         JobOK(y, t, files', litter', runtimeLock', workerUnits'),
         runtimeLock' = runtimeLock \/ runtimeLock \in {None, t},
         \A u \in Consoles : u # t /\ u \in litter => u \in litter' \/ runtimeLock \in {None, t},
         files' = files \/ runtimeLock = t,
         workerUnits'.socket => workerUnits.socket, workerUnits'.service => workerUnits.service,
         workerUnits'.prompt => workerUnits.prompt
  PROVE  /\ jobs' \in [Consoles -> JobType] /\ jobs'[t] = y /\ (\A u \in Consoles : u # t => jobs'[u] = jobs[u])
         /\ \A u \in Consoles : JobOK(jobs'[u], u, files', litter', runtimeLock', workerUnits')
<1>0. jobs \in [Consoles -> JobType] BY DEF AccountsInv, AccountsTypes
<1>1. jobs' \in [Consoles -> JobType] /\ jobs'[t] = y /\ \A u \in Consoles : u # t => jobs'[u] = jobs[u] BY <1>0
<1>2. ASSUME NEW u \in Consoles, u # t PROVE JobOK(jobs[u], u, files', litter', runtimeLock', workerUnits')
  <2>1. JobOK(jobs[u], u, files, litter, runtimeLock, workerUnits) BY DEF AccountsInv
  <2>2. PICK x \in JobType : x = jobs[u] BY <1>0
  <2>3. CASE x.at \in UnderLock
    <3>1. runtimeLock = u BY <2>1, <2>2, <2>3 DEF JobOK
    <3>2. u # None BY AccountsAssumption
    <3>3. runtimeLock' = runtimeLock /\ files' = files /\ (u \in litter => u \in litter') BY <1>2, <3>1, <3>2
    <3>. QED BY <2>1, <2>2, <2>3, <3>3 DEF JobOK, UnderLock
  <2>4. CASE x.at \notin UnderLock BY <2>1, <2>2, <2>4 DEF JobOK, UnderLock
  <2>. QED BY <2>3, <2>4
<1>. QED BY <1>1, <1>2

\* A step that leaves the files alone.
LEMMA FilesRest ==
  ASSUME AccountsInv, NEW t \in Consoles, jobs' \in [Consoles -> JobType], UNCHANGED files,
         \A u \in Consoles : u # t => jobs'[u].cmd = jobs[u].cmd /\ jobs'[u].at = jobs[u].at /\ jobs'[u].of = jobs[u].of,
         halved \subseteq halved', InWindow(t) => jobs[t].of \in halved'
  PROVE  \A p \in Clients : FilesOK(p)'
<1>1. SUFFICES ASSUME NEW p \in Clients PROVE FilesOK(p)'
  OBVIOUS
<1>2. FilesOK(p) BY DEF AccountsInv
<1>3. ASSUME NEW u \in Consoles, InWindow(u), jobs[u].of = p
      PROVE  p \in halved' \/ \E e \in Consoles : InWindow(e)' /\ jobs'[e].of = p
  <2>1. CASE u = t BY <1>3, <2>1
  <2>2. CASE u # t
    <3>1. InWindow(u)' /\ jobs'[u].of = p BY <1>3, <2>2 DEF InWindow
    <3>. QED BY <3>1
  <2>. QED BY <2>1, <2>2
<1>. QED BY <1>2, <1>3 DEF FilesOK

\* The steps that change no file: each by what it does to the terminal's own command.
LEMMA AccountsStand ==
  ASSUME AccountsInv, NEW t \in Consoles, NEW y \in JobType, jobs' = [jobs EXCEPT ![t] = y], UNCHANGED files,
         JobOK(y, t, files', litter', runtimeLock', workerUnits'),
         runtimeLock' = runtimeLock \/ runtimeLock \in {None, t},
         \A u \in Consoles : u # t /\ u \in litter => u \in litter' \/ runtimeLock \in {None, t},
         workerUnits' = [socket |-> workerUnits'.socket, service |-> workerUnits'.service, prompt |-> workerUnits'.prompt],
         workerUnits'.socket => workerUnits.socket, workerUnits'.service => workerUnits.service,
         workerUnits'.prompt => workerUnits.prompt,
         halved \subseteq halved', InWindow(t) => jobs[t].of \in halved'
  PROVE  AccountsInv'
<1>1. /\ jobs' \in [Consoles -> JobType] /\ jobs'[t] = y /\ (\A u \in Consoles : u # t => jobs'[u] = jobs[u])
      /\ \A u \in Consoles : JobOK(jobs'[u], u, files', litter', runtimeLock', workerUnits')
  BY OthersStand
<1>2. \A p \in Clients : FilesOK(p)' BY <1>1, FilesRest
<1>3. AccountsTypes' BY <1>1 DEF AccountsInv, AccountsTypes
<1>4. \A u \in Consoles : JobOK(jobs[u], u, files, litter, runtimeLock, workerUnits)' BY <1>1 DEF JobOK
<1>. QED BY <1>2, <1>3, <1>4 DEF AccountsInv

JobPlaces == {"begun", "fetching", "verified", "staging", "staged", "kept", "renamed", "checked", "enabled", "undo",
              "unsocketed", "logout"}

\* A command goes on to its next step, with what it has got.
GetsTo(t, w, g) == jobs' = [jobs EXCEPT ![t].at = w, ![t].got = g]
LEMMA MovedJob ==
  ASSUME AccountsInv, NEW t \in Consoles, NEW w \in JobPlaces, NEW g \in Runtimes \cup {Wrong}, GetsTo(t, w, g)
  PROVE  \E y \in JobType : /\ jobs' = [jobs EXCEPT ![t] = y]
                            /\ y.cmd = jobs[t].cmd /\ y.of = jobs[t].of /\ y.at = w /\ y.want = jobs[t].want
                            /\ y.got = g /\ y.beside = jobs[t].beside
<1>0. jobs[t] \in JobType /\ jobs \in [Consoles -> JobType] BY DEF AccountsInv, AccountsTypes
<1>1. PICK y : y = [[jobs[t] EXCEPT !.at = w] EXCEPT !.got = g] OBVIOUS
<1>2. y = [cmd |-> jobs[t].cmd, of |-> jobs[t].of, at |-> w, want |-> jobs[t].want, got |-> g, beside |-> jobs[t].beside]
  BY <1>0, <1>1 DEF JobType
<1>3. y \in JobType BY <1>0, <1>2 DEF JobType, JobPlaces
<1>4. jobs' = [jobs EXCEPT ![t] = y] BY <1>0, <1>1 DEF GetsTo
<1>. QED BY <1>2, <1>3, <1>4

LEMMA GoesOn ==
  ASSUME AccountsInv, NEW t \in Consoles, NEW w \in JobPlaces, GoTo(t, w)
  PROVE  \E y \in JobType : /\ jobs' = [jobs EXCEPT ![t] = y]
                            /\ y.cmd = jobs[t].cmd /\ y.of = jobs[t].of /\ y.at = w /\ y.want = jobs[t].want
                            /\ y.got = jobs[t].got /\ y.beside = jobs[t].beside
<1>0. jobs[t] \in JobType /\ jobs \in [Consoles -> JobType] BY DEF AccountsInv, AccountsTypes
<1>1. PICK y : y = [jobs[t] EXCEPT !.at = w] OBVIOUS
<1>2. y = [cmd |-> jobs[t].cmd, of |-> jobs[t].of, at |-> w, want |-> jobs[t].want, got |-> jobs[t].got,
           beside |-> jobs[t].beside]
  BY <1>0, <1>1 DEF JobType
<1>3. y \in JobType BY <1>0, <1>2 DEF JobType, JobPlaces
<1>4. jobs' = [jobs EXCEPT ![t] = y] BY <1>0, <1>1 DEF GoTo
<1>. QED BY <1>2, <1>3, <1>4

\* A command ends.
LEMMA OverStands ==
  ASSUME AccountsInv, NEW t \in Consoles, jobs' = [jobs EXCEPT ![t] = NoJob], UNCHANGED files,
         runtimeLock' = (IF runtimeLock = t THEN None ELSE runtimeLock), litter \ {t} \subseteq litter',
         workerUnits' = [socket |-> workerUnits'.socket, service |-> workerUnits'.service, prompt |-> workerUnits'.prompt],
         workerUnits'.socket => workerUnits.socket, workerUnits'.service => workerUnits.service,
         workerUnits'.prompt => workerUnits.prompt,
         halved \subseteq halved', InWindow(t) => jobs[t].of \in halved'
  PROVE  AccountsInv'
<1>1. NoJob \in JobType /\ JobOK(NoJob, t, files', litter', runtimeLock', workerUnits') BY NoJobIs
<1>2. runtimeLock' = runtimeLock \/ runtimeLock \in {None, t} OBVIOUS
<1>3. \A u \in Consoles : u # t /\ u \in litter => u \in litter' \/ runtimeLock \in {None, t} OBVIOUS
<1>. QED BY <1>1, <1>2, <1>3, AccountsStand

LEMMA EndingSteps ==
  ASSUME AccountsInv, NEW t \in Consoles, Stop(t) \/ Cut(t) \/ KeepInstalled(t) \/ Connect(t) \/ EnableUndo(t) \/ Logout(t)
  PROVE  AccountsInv'
<1>0. /\ workerUnits = [socket |-> workerUnits.socket, service |-> workerUnits.service, prompt |-> workerUnits.prompt]
  BY DEF AccountsInv, AccountsTypes
<1>1. /\ jobs' = [jobs EXCEPT ![t] = NoJob] /\ UNCHANGED files /\ litter \ {t} \subseteq litter'
      /\ runtimeLock' = (IF runtimeLock = t THEN None ELSE runtimeLock)
  BY DEF Stop, Cut, KeepInstalled, Connect, EnableUndo, Logout, Over
<1>2. halved \subseteq halved' /\ (InWindow(t) => jobs[t].of \in halved')
  BY DEF Stop, Cut, KeepInstalled, Connect, EnableUndo, Logout, InWindow, JobAt
<1>3. /\ workerUnits' = [socket |-> workerUnits'.socket, service |-> workerUnits'.service, prompt |-> workerUnits'.prompt]
      /\ workerUnits'.socket => workerUnits.socket
      /\ workerUnits'.service => workerUnits.service
      /\ workerUnits'.prompt => workerUnits.prompt
  <2>1. CASE EnableUndo(t)
    <3>1. PICK steps \in 0..2 :
            workerUnits' = [socket |-> workerUnits.socket /\ steps = 0, service |-> workerUnits.service /\ steps < 2,
                            prompt |-> workerUnits.prompt /\ steps < 2]
      BY <2>1 DEF EnableUndo
    <3>2. /\ workerUnits'.socket = (workerUnits.socket /\ steps = 0)
          /\ workerUnits'.service = (workerUnits.service /\ steps < 2)
          /\ workerUnits'.prompt = (workerUnits.prompt /\ steps < 2)
      BY <3>1
    <3>3. workerUnits' = [socket |-> workerUnits'.socket, service |-> workerUnits'.service, prompt |-> workerUnits'.prompt]
      BY <3>1
    <3>. QED BY <3>2, <3>3
  <2>2. CASE UNCHANGED workerUnits BY <1>0, <2>2
  <2>. QED BY <2>1, <2>2 DEF Stop, Cut, KeepInstalled, Connect, Logout
<1>. QED BY <1>1, <1>2, <1>3, OverStands

\* A step within a command, files and units as they are.
LEMMA MovesOn ==
  ASSUME AccountsInv, NEW t \in Consoles, NEW y \in JobType, jobs' = [jobs EXCEPT ![t] = y],
         UNCHANGED <<files, workerUnits, halved>>, ~InWindow(t),
         JobOK(y, t, files, litter', runtimeLock', workerUnits),
         UNCHANGED <<litter, runtimeLock>> \/ runtimeLock \in {None, t}
  PROVE  AccountsInv'
<1>0. workerUnits = [socket |-> workerUnits.socket, service |-> workerUnits.service, prompt |-> workerUnits.prompt]
  BY DEF AccountsInv, AccountsTypes
<1>1. workerUnits' = [socket |-> workerUnits'.socket, service |-> workerUnits'.service, prompt |-> workerUnits'.prompt]
  BY <1>0
<1>2. JobOK(y, t, files', litter', runtimeLock', workerUnits') OBVIOUS
<1>. QED BY <1>1, <1>2, AccountsStand

LEMMA CommandSteps ==
  ASSUME AccountsInv, NEW t \in Consoles,
         BeginAccount(t) \/ PrepareRuntime(t) \/ VerifyManifest(t) \/ VerifyRelease(t) \/ Download(t) \/ Stage(t)
         \/ EnableChecked(t)
  PROVE  AccountsInv'
<1>0. /\ jobs \in [Consoles -> JobType] /\ jobs[t] \in JobType
      /\ files \in [Clients -> [target : Runtimes, previous : Runtimes]]
      /\ JobOK(jobs[t], t, files, litter, runtimeLock, workerUnits)
      /\ UNCHANGED <<files, workerUnits, halved>>
  BY DEF AccountsInv, AccountsTypes, BeginAccount, PrepareRuntime, VerifyManifest, VerifyRelease, Download, Stage,
         EnableChecked
<1>1. ~InWindow(t)
  BY DEF InWindow, JobAt, BeginAccount, PrepareRuntime, VerifyManifest, VerifyRelease, Download, Stage, EnableChecked
<1>2. CASE BeginAccount(t)
  <2>1. PICK p \in Clients, want \in Builds,
             cmd_ \in {"install", "rollback", "connect", "enable", "disable", "disconnect"} :
          jobs' = [jobs EXCEPT ![t] = [NoJob EXCEPT !.cmd = cmd_, !.of = p, !.at = "begun", !.want = want]]
    BY <1>2 DEF BeginAccount
  <2>2. PICK y : y = [NoJob EXCEPT !.cmd = cmd_, !.of = p, !.at = "begun", !.want = want] OBVIOUS
  <2>3. y = [cmd |-> cmd_, of |-> p, at |-> "begun", want |-> want, got |-> None, beside |-> FALSE]
    BY <2>2 DEF NoJob
  <2>4. y \in JobType BY <2>3 DEF JobType, Runtimes
  <2>5. JobOK(y, t, files, litter', runtimeLock', workerUnits) BY <2>3 DEF JobOK, UnderLock
  <2>6. jobs' = [jobs EXCEPT ![t] = y] /\ UNCHANGED <<litter, runtimeLock>> BY <1>2, <2>1, <2>2 DEF BeginAccount
  <2>. QED BY <1>0, <1>1, <2>4, <2>5, <2>6, MovesOn
<1>3. CASE PrepareRuntime(t)
  <2>0. /\ jobs[t].at = "begun" /\ jobs[t].cmd \in {"install", "rollback"} /\ runtimeLock = None /\ runtimeLock' = t
        /\ jobs[t].of \in Clients /\ jobs[t].want \in Builds
    BY <1>0, <1>3 DEF PrepareRuntime, JobAt, LockFree, JobOK
  <2>1. CASE jobs[t].cmd = "install"
    <3>1. GoTo(t, "fetching") /\ t \in litter' BY <1>3, <2>1 DEF PrepareRuntime
    <3>2. PICK y \in JobType : /\ jobs' = [jobs EXCEPT ![t] = y] /\ y.cmd = "install" /\ y.of = jobs[t].of
                               /\ y.at = "fetching" /\ y.want = jobs[t].want
      BY <2>1, <3>1, GoesOn DEF JobPlaces
    <3>3. JobOK(y, t, files, litter', runtimeLock', workerUnits) BY <2>0, <3>1, <3>2 DEF JobOK, UnderLock
    <3>. QED BY <1>0, <1>1, <2>0, <3>2, <3>3, MovesOn
  <2>2. CASE jobs[t].cmd = "rollback"
    <3>1. jobs' = [jobs EXCEPT ![t].at = "staging", ![t].got = files[jobs[t].of].previous]
          /\ files[jobs[t].of].previous # None
      BY <1>3, <2>2 DEF PrepareRuntime
    <3>2. PICK g \in Runtimes : g = files[jobs[t].of].previous BY <1>0, <2>0
    <3>3. PICK y \in JobType : /\ jobs' = [jobs EXCEPT ![t] = y] /\ y.cmd = "rollback"
                               /\ y.of = jobs[t].of /\ y.at = "staging" /\ y.want = jobs[t].want /\ y.got = g
      <4>1. GetsTo(t, "staging", g) BY <3>1, <3>2 DEF GetsTo
      <4>. QED BY <2>2, <4>1, MovedJob DEF JobPlaces
    <3>5. JobOK(y, t, files, litter', runtimeLock', workerUnits) BY <2>0, <3>1, <3>2, <3>3 DEF JobOK, UnderLock
    <3>. QED BY <1>0, <1>1, <2>0, <3>3, <3>5, MovesOn
  <2>. QED BY <2>0, <2>1, <2>2
<1>4. CASE VerifyManifest(t)
  <2>1. jobs[t].cmd = "install" /\ jobs[t].at = "fetching" /\ jobs[t].of = "claude" /\ GoTo(t, "verified")
        /\ UNCHANGED <<litter, runtimeLock>>
    BY <1>4 DEF VerifyManifest, JobAt
  <2>2. PICK y \in JobType : /\ jobs' = [jobs EXCEPT ![t] = y] /\ y.cmd = "install" /\ y.of = jobs[t].of
                             /\ y.at = "verified" /\ y.want = jobs[t].want
    BY <2>1, GoesOn DEF JobPlaces
  <2>3. JobOK(y, t, files, litter', runtimeLock', workerUnits) BY <1>0, <2>1, <2>2 DEF JobOK, UnderLock
  <2>. QED BY <1>0, <1>1, <2>1, <2>2, <2>3, MovesOn
<1>5. CASE VerifyRelease(t)
  <2>1. /\ jobs[t].cmd = "install" /\ jobs[t].at = "fetching" /\ UNCHANGED <<litter, runtimeLock>>
        /\ jobs' = [jobs EXCEPT ![t].at = "verified", ![t].got = jobs[t].want]
    BY <1>5 DEF VerifyRelease, JobAt
  <2>2. PICK g \in Runtimes : g = jobs[t].want BY <1>0, <2>1 DEF JobOK, Runtimes
  <2>3. PICK y \in JobType : /\ jobs' = [jobs EXCEPT ![t] = y] /\ y.cmd = "install"
                             /\ y.of = jobs[t].of /\ y.at = "verified" /\ y.want = jobs[t].want /\ y.got = g
    <3>1. GetsTo(t, "verified", g) /\ g \in Runtimes \cup {Wrong} /\ "verified" \in JobPlaces
      BY <2>1, <2>2 DEF GetsTo, JobPlaces
    <3>2. jobs[t].cmd = "install" BY <2>1
    <3>. QED BY <3>1, <3>2, MovedJob
  <2>5. JobOK(y, t, files, litter', runtimeLock', workerUnits) BY <1>0, <2>1, <2>2, <2>3 DEF JobOK, UnderLock
  <2>. QED BY <1>0, <1>1, <2>1, <2>3, <2>5, MovesOn
<1>6. CASE Download(t)
  <2>1. /\ jobs[t].cmd = "install" /\ jobs[t].at = "verified" /\ UNCHANGED <<litter, runtimeLock>>
        /\ files[jobs[t].of].target # jobs[t].want
    BY <1>6 DEF Download, JobAt, Matches
  <2>2. PICK g \in Runtimes \cup {Wrong} : GetsTo(t, "staging", g)
    BY <1>0, <1>6 DEF Download, Runtimes, JobType, GetsTo
  <2>3. PICK y \in JobType : /\ jobs' = [jobs EXCEPT ![t] = y] /\ y.cmd = "install"
                             /\ y.of = jobs[t].of /\ y.at = "staging" /\ y.want = jobs[t].want
    BY <2>1, <2>2, MovedJob DEF JobPlaces
  <2>5. JobOK(y, t, files, litter', runtimeLock', workerUnits) BY <1>0, <2>1, <2>3 DEF JobOK, UnderLock
  <2>. QED BY <1>0, <1>1, <2>1, <2>3, <2>5, MovesOn
<1>7. CASE Stage(t)
  <2>1. jobs[t].at = "staging" /\ (jobs[t].cmd = "install" => jobs[t].got = jobs[t].want) /\ GoTo(t, "staged")
        /\ UNCHANGED <<litter, runtimeLock>>
    BY <1>7 DEF Stage, Genuine
  <2>2. PICK y \in JobType : /\ jobs' = [jobs EXCEPT ![t] = y] /\ y.cmd = jobs[t].cmd /\ y.of = jobs[t].of
                             /\ y.at = "staged" /\ y.want = jobs[t].want /\ y.got = jobs[t].got
    BY <2>1, GoesOn DEF JobPlaces
  <2>3. JobOK(y, t, files, litter', runtimeLock', workerUnits) BY <1>0, <2>1, <2>2 DEF JobOK, UnderLock
  <2>. QED BY <1>0, <1>1, <2>1, <2>2, <2>3, MovesOn
<1>8. CASE EnableChecked(t)
  <2>1. jobs[t].at = "begun" /\ GoTo(t, "checked") /\ UNCHANGED <<litter, runtimeLock>> BY <1>8 DEF EnableChecked, JobAt
  <2>2. PICK y \in JobType : /\ jobs' = [jobs EXCEPT ![t] = y] /\ y.of = jobs[t].of /\ y.at = "checked"
                             /\ y.want = jobs[t].want
    BY <2>1, GoesOn DEF JobPlaces
  <2>3. JobOK(y, t, files, litter', runtimeLock', workerUnits) BY <1>0, <2>1, <2>2 DEF JobOK, UnderLock
  <2>. QED BY <1>0, <1>1, <2>1, <2>2, <2>3, MovesOn
<1>. QED BY <1>2, <1>3, <1>4, <1>5, <1>6, <1>7, <1>8

\* The terminal with the lock is the only one between two renames.
LEMMA OneInWindow ==
  ASSUME AccountsInv, NEW t \in Consoles, NEW u \in Consoles, runtimeLock = t, InWindow(u)
  PROVE  u = t
BY DEF AccountsInv, JobOK, InWindow, UnderLock

\* A command of p's between its two renames.
Between(y, p) == y.cmd \in {"install", "rollback"} /\ y.at \in {"kept", "renamed"} /\ y.of = p
OnlyFilesOf(p) == \A q \in Clients : q # p => files'[q] = files[q] /\ (q \in halved => q \in halved')
FilePairs == [Clients -> [target : Runtimes, previous : Runtimes]]

\* The holder of the lock changes one of the files of its provider.
LEMMA FileStep ==
  ASSUME AccountsInv, NEW t \in Consoles, NEW y \in JobType, jobs' = [jobs EXCEPT ![t] = y], runtimeLock = t,
         JobOK(y, t, files', litter', runtimeLock', workerUnits), UNCHANGED workerUnits,
         NEW p \in Clients, jobs[t].of = p, files' \in FilePairs,
         OnlyFilesOf(p),
         files'[p].target = None => files'[p].previous = None,
         p \in halved' \/ Between(y, p) \/ files'[p].previous # files'[p].target \/ files'[p].previous = None
  PROVE  AccountsInv'
<1>0. workerUnits = [socket |-> workerUnits.socket, service |-> workerUnits.service, prompt |-> workerUnits.prompt]
  BY DEF AccountsInv, AccountsTypes
<1>1. JobOK(y, t, files', litter', runtimeLock', workerUnits') OBVIOUS
<1>2. /\ jobs' \in [Consoles -> JobType] /\ jobs'[t] = y /\ (\A u \in Consoles : u # t => jobs'[u] = jobs[u])
      /\ \A u \in Consoles : JobOK(jobs'[u], u, files', litter', runtimeLock', workerUnits')
  BY <1>1, OthersStand
<1>3. AccountsTypes' BY <1>0, <1>2 DEF AccountsTypes, FilePairs
<1>4. \A u \in Consoles : JobOK(jobs[u], u, files, litter, runtimeLock, workerUnits)' BY <1>2 DEF JobOK
<1>5. FilesOK(p)'
  <2>1. Between(y, p) => InWindow(t)' /\ jobs'[t].of = p BY <1>2 DEF InWindow, Between
  <2>. QED BY <2>1 DEF FilesOK
<1>6. ASSUME NEW q \in Clients, q # p PROVE FilesOK(q)'
  <2>1. FilesOK(q) /\ files'[q] = files[q] /\ (q \in halved => q \in halved') BY <1>6 DEF AccountsInv, OnlyFilesOf
  <2>2. ~\E u \in Consoles : InWindow(u) /\ jobs[u].of = q BY <1>6, OneInWindow
  <2>. QED BY <2>1, <2>2 DEF FilesOK
<1>7. \A q \in Clients : FilesOK(q)' BY <1>5, <1>6
<1>. QED BY <1>3, <1>4, <1>7 DEF AccountsInv

LEMMA FileSteps ==
  ASSUME AccountsInv, NEW t \in Consoles, KeepPrevious(t) \/ ActivateRuntime(t) \/ ForgetPrevious(t)
  PROVE  AccountsInv'
<1>0. /\ jobs \in [Consoles -> JobType] /\ jobs[t] \in JobType
      /\ files \in [Clients -> [target : Runtimes, previous : Runtimes]]
      /\ JobOK(jobs[t], t, files, litter, runtimeLock, workerUnits)
      /\ UNCHANGED workerUnits
  BY DEF AccountsInv, AccountsTypes, KeepPrevious, ActivateRuntime, ForgetPrevious
<1>1. jobs[t].at \in {"staged", "kept", "renamed"} BY DEF KeepPrevious, ActivateRuntime, ForgetPrevious, JobAt
<1>2. runtimeLock = t /\ jobs[t].of \in Clients /\ jobs[t].want \in Builds BY <1>0, <1>1 DEF JobOK, UnderLock
<1>3. PICK p \in Clients : p = jobs[t].of BY <1>2
<1>4. files[p] \in [target : Runtimes, previous : Runtimes] /\ FilesOK(p) BY <1>0 DEF AccountsInv
<1>5. ASSUME NEW r \in Runtimes, files' = [files EXCEPT ![p].previous = r]
      PROVE  /\ files' \in FilePairs /\ files'[p].target = files[p].target
             /\ files'[p].previous = r /\ \A q \in Clients : q # p => files'[q] = files[q]
  <2>1. PICK z : z = [files[p] EXCEPT !.previous = r] OBVIOUS
  <2>2. z \in [target : Runtimes, previous : Runtimes] /\ z.target = files[p].target /\ z.previous = r
    BY <1>4, <1>5, <2>1
  <2>3. files' = [files EXCEPT ![p] = z] BY <1>0, <1>5, <2>1
  <2>. QED BY <1>0, <2>2, <2>3 DEF FilePairs
<1>6. ASSUME NEW r \in Runtimes, files' = [files EXCEPT ![p].target = r]
      PROVE  /\ files' \in FilePairs /\ files'[p].target = r
             /\ files'[p].previous = files[p].previous /\ \A q \in Clients : q # p => files'[q] = files[q]
  <2>1. PICK z : z = [files[p] EXCEPT !.target = r] OBVIOUS
  <2>2. z \in [target : Runtimes, previous : Runtimes] /\ z.previous = files[p].previous /\ z.target = r
    BY <1>4, <1>6, <2>1
  <2>3. files' = [files EXCEPT ![p] = z] BY <1>0, <1>6, <2>1
  <2>. QED BY <1>0, <2>2, <2>3 DEF FilePairs
<1>7. CASE KeepPrevious(t)
  <2>1. /\ jobs[t].cmd = "install" /\ jobs[t].at = "staged" /\ files[p].target # None /\ GoTo(t, "kept")
        /\ files' = [files EXCEPT ![p].previous = files[p].target] /\ UNCHANGED <<litter, runtimeLock>>
        /\ halved' = halved \ {p}
    BY <1>3, <1>7 DEF KeepPrevious, JobAt
  <2>2. PICK y \in JobType : /\ jobs' = [jobs EXCEPT ![t] = y] /\ y.cmd = "install" /\ y.of = p
                             /\ y.at = "kept" /\ y.want = jobs[t].want /\ y.got = jobs[t].got
    BY <1>3, <2>1, GoesOn DEF JobPlaces
  <2>3. /\ files' \in FilePairs /\ files'[p].target = files[p].target
        /\ files'[p].previous = files[p].target /\ \A q \in Clients : q # p => files'[q] = files[q]
    BY <1>4, <1>5, <2>1
  <2>4. JobOK(y, t, files', litter', runtimeLock', workerUnits)
    BY <1>0, <1>2, <1>3, <2>1, <2>2, <2>3 DEF JobOK, UnderLock
  <2>5. OnlyFilesOf(p) BY <2>1, <2>3 DEF OnlyFilesOf
  <2>6. Between(y, p) BY <2>2 DEF Between
  <2>7. y \in JobType /\ files'[p].target # None /\ UNCHANGED workerUnits /\ jobs' = [jobs EXCEPT ![t] = y] BY <1>0, <2>1, <2>2, <2>3
  <2>8. files' \in FilePairs BY <2>3
  <2>. QED BY <1>2, <1>3, <2>4, <2>5, <2>6, <2>7, <2>8, FileStep
<1>8. CASE ActivateRuntime(t)
  <2>1. files' = [files EXCEPT ![p].target = jobs[t].got] /\ UNCHANGED halved BY <1>3, <1>8 DEF ActivateRuntime
  <2>2. CASE jobs[t].cmd = "install"
    <3>1. /\ jobs[t].got = jobs[t].want /\ files[p].target # jobs[t].want
          /\ jobs[t].at = "kept" \/ (jobs[t].at = "staged" /\ files[p].target = None)
      BY <1>0, <1>3, <1>8, <2>2 DEF ActivateRuntime, JobAt, JobOK
    <3>2. jobs[t].got \in Runtimes /\ jobs[t].got # None BY <1>2, <3>1, AccountsAssumption DEF Runtimes
    <3>3. /\ files' \in FilePairs /\ files'[p].target = jobs[t].got
          /\ files'[p].previous = files[p].previous /\ \A q \in Clients : q # p => files'[q] = files[q]
      BY <1>6, <2>1, <3>2
    <3>4. files[p].previous = None \/ files[p].previous # jobs[t].want
      BY <1>0, <1>3, <1>4, <3>1 DEF JobOK, FilesOK
    <3>5. jobs' = [jobs EXCEPT ![t] = NoJob] BY <1>8, <2>2 DEF ActivateRuntime, Over
    <3>6. NoJob \in JobType /\ JobOK(NoJob, t, files', litter', runtimeLock', workerUnits) BY NoJobIs
    <3>7. OnlyFilesOf(p) BY <2>1, <3>3 DEF OnlyFilesOf
    <3>8. files'[p].target # None /\ ~(files'[p].previous = files'[p].target /\ files'[p].previous # None)
      BY <3>1, <3>2, <3>3, <3>4
    <3>9. PICK y \in JobType : y = NoJob BY <3>6
    <3>10. jobs' = [jobs EXCEPT ![t] = y] /\ JobOK(y, t, files', litter', runtimeLock', workerUnits) BY <3>5, <3>6, <3>9
    <3>11. UNCHANGED workerUnits BY <1>0
    <3>. QED BY <1>2, <1>3, <3>3, <3>7, <3>8, <3>9, <3>10, <3>11, FileStep
  <2>3. CASE jobs[t].cmd = "rollback"
    <3>1. jobs[t].at = "staged" /\ GoTo(t, "renamed") /\ UNCHANGED <<litter, runtimeLock>>
      BY <1>8, <2>3 DEF ActivateRuntime, JobAt
    <3>2. jobs[t].got = files[p].previous /\ jobs[t].got # None BY <1>0, <1>3, <2>3, <3>1 DEF JobOK
    <3>3. jobs[t].got \in Runtimes BY <1>4, <3>2
    <3>4. /\ files' \in FilePairs /\ files'[p].target = jobs[t].got
          /\ files'[p].previous = files[p].previous /\ \A q \in Clients : q # p => files'[q] = files[q]
      BY <1>6, <2>1, <3>3
    <3>5. PICK y \in JobType : /\ jobs' = [jobs EXCEPT ![t] = y] /\ y.cmd = "rollback" /\ y.of = p
                               /\ y.at = "renamed" /\ y.want = jobs[t].want
      BY <1>3, <2>3, <3>1, GoesOn DEF JobPlaces
    <3>6. JobOK(y, t, files', litter', runtimeLock', workerUnits)
      BY <1>2, <1>3, <3>1, <3>5 DEF JobOK, UnderLock
    <3>7. OnlyFilesOf(p) BY <2>1, <3>4 DEF OnlyFilesOf
    <3>8. Between(y, p) BY <3>5 DEF Between
    <3>9. y \in JobType /\ files'[p].target # None /\ UNCHANGED workerUnits /\ jobs' = [jobs EXCEPT ![t] = y] BY <1>0, <3>2, <3>4, <3>5
    <3>10. files' \in FilePairs BY <3>4
    <3>. QED BY <1>2, <1>3, <3>6, <3>7, <3>8, <3>9, <3>10, FileStep
  <2>. QED BY <1>8, <2>2, <2>3 DEF ActivateRuntime, JobAt
<1>9. CASE ForgetPrevious(t)
  <2>1. jobs' = [jobs EXCEPT ![t] = NoJob] BY <1>9 DEF ForgetPrevious, Over
  <2>2. NoJob \in JobType /\ JobOK(NoJob, t, files', litter', runtimeLock', workerUnits) BY NoJobIs
  <2>3. CASE files' = [files EXCEPT ![p].previous = None] /\ halved' = halved \ {p}
    <3>1. None \in Runtimes BY DEF Runtimes
    <3>2. /\ files' \in FilePairs
          /\ files'[p].previous = None /\ \A q \in Clients : q # p => files'[q] = files[q]
      BY <1>5, <2>3, <3>1
    <3>3. OnlyFilesOf(p) BY <2>3, <3>2 DEF OnlyFilesOf
    <3>. QED BY <1>0, <1>2, <1>3, <2>1, <2>2, <3>2, <3>3, FileStep
  <2>4. CASE UNCHANGED files /\ halved' = halved \cup {p}
    <3>1. files' \in FilePairs BY <1>0, <2>4 DEF FilePairs
    <3>2. OnlyFilesOf(p) BY <2>4 DEF OnlyFilesOf
    <3>3. (files'[p].target = None => files'[p].previous = None) /\ p \in halved' BY <1>4, <2>4 DEF FilesOK
    <3>4. PICK y \in JobType : y = NoJob BY <2>2
    <3>5. jobs' = [jobs EXCEPT ![t] = y] /\ JobOK(y, t, files', litter', runtimeLock', workerUnits) BY <2>1, <2>2, <3>4
    <3>6. UNCHANGED workerUnits BY <1>0
    <3>. QED BY <1>2, <1>3, <3>1, <3>2, <3>3, <3>4, <3>5, <3>6, FileStep
  <2>. QED BY <1>3, <1>9, <2>3, <2>4 DEF ForgetPrevious
<1>. QED BY <1>7, <1>8, <1>9

LEMMA WorkerSteps ==
  ASSUME AccountsInv, NEW t \in Consoles, EnableVerify(t) \/ StopSocket(t) \/ StopService(t)
  PROVE  AccountsInv'
<1>0. /\ workerUnits = [socket |-> workerUnits.socket, service |-> workerUnits.service, prompt |-> workerUnits.prompt]
      /\ JobOK(jobs[t], t, files, litter, runtimeLock, workerUnits)
      /\ UNCHANGED <<files, halved>>
  BY DEF AccountsInv, AccountsTypes, EnableVerify, StopSocket, StopService
<1>1. ~InWindow(t) BY DEF InWindow, JobAt, EnableVerify, StopSocket, StopService
<1>2. CASE EnableVerify(t)
  <2>1. jobs[t].at = "enabled" /\ UNCHANGED workerUnits BY <1>2 DEF EnableVerify, JobAt
  <2>2. CASE Over(t)
    <3>1. workerUnits' = [socket |-> workerUnits'.socket, service |-> workerUnits'.service, prompt |-> workerUnits'.prompt]
      BY <1>0, <2>1
    <3>2. /\ jobs' = [jobs EXCEPT ![t] = NoJob] /\ runtimeLock' = (IF runtimeLock = t THEN None ELSE runtimeLock)
          /\ litter \ {t} \subseteq litter' /\ halved \subseteq halved'
      BY <1>0, <2>2 DEF Over
    <3>. QED BY <1>0, <1>1, <2>1, <3>1, <3>2, OverStands
  <2>3. CASE GoTo(t, "undo") /\ UNCHANGED <<litter, runtimeLock>>
    <3>1. PICK y \in JobType : /\ jobs' = [jobs EXCEPT ![t] = y] /\ y.of = jobs[t].of /\ y.at = "undo"
                               /\ y.want = jobs[t].want
      BY <2>3, GoesOn DEF JobPlaces
    <3>2. JobOK(y, t, files, litter', runtimeLock', workerUnits) BY <1>0, <2>1, <3>1 DEF JobOK, UnderLock
    <3>. QED BY <1>0, <1>1, <2>1, <2>3, <3>1, <3>2, MovesOn
  <2>. QED BY <1>2, <2>2, <2>3 DEF EnableVerify
<1>3. CASE StopSocket(t)
  <2>1. /\ jobs[t].at = "begun" /\ jobs[t].cmd \in {"disable", "disconnect"} /\ GoTo(t, "unsocketed")
        /\ UNCHANGED <<litter, runtimeLock>> /\ workerUnits' = [workerUnits EXCEPT !.socket = FALSE]
    BY <1>3 DEF StopSocket, JobAt
  <2>2. workerUnits' = [socket |-> FALSE, service |-> workerUnits.service, prompt |-> workerUnits.prompt] BY <1>0, <2>1
  <2>3. /\ workerUnits' = [socket |-> workerUnits'.socket, service |-> workerUnits'.service, prompt |-> workerUnits'.prompt]
        /\ ~workerUnits'.socket /\ workerUnits'.service = workerUnits.service /\ workerUnits'.prompt = workerUnits.prompt
    BY <2>2
  <2>4. PICK y \in JobType : /\ jobs' = [jobs EXCEPT ![t] = y] /\ y.cmd = jobs[t].cmd /\ y.of = jobs[t].of
                             /\ y.at = "unsocketed" /\ y.want = jobs[t].want
    BY <2>1, GoesOn DEF JobPlaces
  <2>5. JobOK(y, t, files', litter', runtimeLock', workerUnits')
    BY <1>0, <2>1, <2>3, <2>4 DEF JobOK, UnderLock
  <2>. QED BY <1>0, <1>1, <2>1, <2>3, <2>4, <2>5, AccountsStand
<1>4. CASE StopService(t)
  <2>1. /\ jobs[t].at = "unsocketed" /\ jobs[t].cmd \in {"disable", "disconnect"}
        /\ workerUnits' = [workerUnits EXCEPT !.service = FALSE, !.prompt = FALSE]
    BY <1>0, <1>4 DEF StopService, JobOK
  <2>2. workerUnits' = [socket |-> workerUnits.socket, service |-> FALSE, prompt |-> FALSE] BY <1>0, <2>1
  <2>3. /\ workerUnits' = [socket |-> workerUnits'.socket, service |-> workerUnits'.service, prompt |-> workerUnits'.prompt]
        /\ workerUnits'.socket = workerUnits.socket /\ ~workerUnits'.service /\ ~workerUnits'.prompt
    BY <2>2
  <2>4. CASE Over(t)
    <3>1. /\ jobs' = [jobs EXCEPT ![t] = NoJob] /\ runtimeLock' = (IF runtimeLock = t THEN None ELSE runtimeLock)
          /\ litter \ {t} \subseteq litter' /\ halved \subseteq halved'
      BY <1>0, <2>4 DEF Over
    <3>. QED BY <1>0, <1>1, <2>3, <3>1, OverStands
  <2>5. CASE jobs[t].cmd = "disconnect" /\ GoTo(t, "logout") /\ UNCHANGED <<litter, runtimeLock>>
    <3>1. PICK y \in JobType : /\ jobs' = [jobs EXCEPT ![t] = y] /\ y.cmd = "disconnect" /\ y.of = jobs[t].of
                               /\ y.at = "logout" /\ y.want = jobs[t].want /\ y.beside = jobs[t].beside
      BY <2>5, GoesOn DEF JobPlaces
    <3>2. ~y.beside => ~workerUnits'.socket BY <1>0, <2>1, <2>3, <2>5, <3>1 DEF JobOK
    <3>3. JobOK(y, t, files', litter', runtimeLock', workerUnits')
      BY <1>0, <2>1, <2>3, <3>1, <3>2 DEF JobOK, UnderLock
    <3>. QED BY <1>0, <1>1, <2>3, <2>5, <3>1, <3>3, AccountsStand
  <2>. QED BY <1>4, <2>1, <2>4, <2>5 DEF StopService
<1>. QED BY <1>2, <1>3, <1>4

\* systemctl enable beside a disconnection, which is marked.
LEMMA EnableSocketStep ==
  ASSUME AccountsInv, NEW t \in Consoles, EnableSocket(t)
  PROVE  AccountsInv'
<1>0. /\ workerUnits = [socket |-> workerUnits.socket, service |-> workerUnits.service, prompt |-> workerUnits.prompt]
      /\ jobs \in [Consoles -> JobType] /\ files \in [Clients -> [target : Runtimes, previous : Runtimes]]
      /\ \A u \in Consoles : JobOK(jobs[u], u, files, litter, runtimeLock, workerUnits)
      /\ UNCHANGED <<files, litter, runtimeLock, halved>> /\ jobs[t].cmd = "enable" /\ jobs[t].at = "checked"
  BY DEF AccountsInv, AccountsTypes, EnableSocket, JobAt
<1>1. PICK up \in BOOLEAN, ok \in BOOLEAN :
         /\ workerUnits' = [workerUnits EXCEPT !.socket = @ \/ up]
         /\ jobs' = [u \in Consoles |->
                       IF u = t THEN [jobs[t] EXCEPT !.at = IF ok /\ up THEN "enabled" ELSE "undo"]
                       ELSE IF jobs[u].cmd = "disconnect" THEN [jobs[u] EXCEPT !.beside = TRUE]
                       ELSE jobs[u]]
  BY DEF EnableSocket
<1>2. /\ workerUnits' = [socket |-> workerUnits'.socket, service |-> workerUnits.service, prompt |-> workerUnits.prompt]
  BY <1>0, <1>1
<1>3. /\ workerUnits' = [socket |-> workerUnits'.socket, service |-> workerUnits'.service, prompt |-> workerUnits'.prompt]
      /\ workerUnits'.service = workerUnits.service /\ workerUnits'.prompt = workerUnits.prompt
  BY <1>2
<1>4. PICK w \in {"enabled", "undo"} : w = IF ok /\ up THEN "enabled" ELSE "undo" OBVIOUS
<1>5. ASSUME NEW u \in Consoles
      PROVE  /\ jobs'[u] \in JobType /\ jobs'[u].cmd = jobs[u].cmd /\ jobs'[u].of = jobs[u].of
             /\ (u # t => jobs'[u].at = jobs[u].at)
             /\ JobOK(jobs'[u], u, files', litter', runtimeLock', workerUnits')
  <2>0. jobs[u] \in JobType /\ JobOK(jobs[u], u, files, litter, runtimeLock, workerUnits) BY <1>0
  <2>1. CASE u = t
    <3>1. PICK y : y = [jobs[t] EXCEPT !.at = w] OBVIOUS
    <3>2. y = [cmd |-> jobs[t].cmd, of |-> jobs[t].of, at |-> w, want |-> jobs[t].want, got |-> jobs[t].got,
               beside |-> jobs[t].beside]
      BY <2>0, <2>1, <3>1 DEF JobType
    <3>3. y \in JobType BY <2>0, <2>1, <3>2 DEF JobType
    <3>4. JobOK(y, t, files', litter', runtimeLock', workerUnits')
      BY <1>0, <2>0, <2>1, <3>2 DEF JobOK, UnderLock
    <3>5. jobs'[t] = y BY <1>1, <1>4, <3>1
    <3>. QED BY <2>1, <3>2, <3>3, <3>4, <3>5
  <2>2. CASE u # t /\ jobs[u].cmd = "disconnect"
    <3>1. PICK y : y = [jobs[u] EXCEPT !.beside = TRUE] OBVIOUS
    <3>2. y = [cmd |-> jobs[u].cmd, of |-> jobs[u].of, at |-> jobs[u].at, want |-> jobs[u].want, got |-> jobs[u].got,
               beside |-> TRUE]
      BY <2>0, <3>1 DEF JobType
    <3>3. y \in JobType BY <2>0, <3>2 DEF JobType
    <3>4. JobOK(y, u, files', litter', runtimeLock', workerUnits')
      BY <1>0, <2>0, <2>2, <3>2 DEF JobOK, UnderLock
    <3>5. jobs'[u] = y BY <1>1, <2>2, <3>1
    <3>. QED BY <3>2, <3>3, <3>4, <3>5
  <2>3. CASE u # t /\ jobs[u].cmd # "disconnect"
    <3>1. jobs'[u] = jobs[u] BY <1>1, <2>3
    <3>2. JobOK(jobs[u], u, files', litter', runtimeLock', workerUnits')
      BY <1>0, <2>0, <2>3 DEF JobOK, UnderLock
    <3>. QED BY <2>0, <3>1, <3>2
  <2>. QED BY <2>1, <2>2, <2>3
<1>6. jobs' \in [Consoles -> JobType]
  <2>1. PICK f : f = jobs' OBVIOUS
  <2>2. f = [u \in Consoles |-> f[u]] BY <1>1, <2>1
  <2>3. \A u \in Consoles : f[u] \in JobType BY <1>5, <2>1
  <2>. QED BY <2>1, <2>2, <2>3
<1>7. ~InWindow(t) BY <1>0 DEF InWindow
<1>8. \A p \in Clients : FilesOK(p)' BY <1>0, <1>5, <1>6, <1>7, FilesRest
<1>9. AccountsTypes' BY <1>0, <1>3, <1>6 DEF AccountsTypes
<1>10. \A u \in Consoles : JobOK(jobs[u], u, files, litter, runtimeLock, workerUnits)' BY <1>5 DEF JobOK
<1>. QED BY <1>8, <1>9, <1>10 DEF AccountsInv

LEMMA PromptSteps ==
  ASSUME AccountsInv, PromptArrives \/ PromptEnds
  PROVE  AccountsInv'
<1>0. /\ workerUnits = [socket |-> workerUnits.socket, service |-> workerUnits.service, prompt |-> workerUnits.prompt]
      /\ AccountsTypes /\ UNCHANGED <<files, litter, runtimeLock, jobs, halved>>
  BY DEF AccountsInv, AccountsTypes, PromptArrives, PromptEnds
<1>1. /\ workerUnits' = [socket |-> workerUnits.socket, service |-> workerUnits'.service, prompt |-> workerUnits'.prompt]
  BY <1>0 DEF PromptArrives, PromptEnds
<1>2. /\ workerUnits' = [socket |-> workerUnits'.socket, service |-> workerUnits'.service, prompt |-> workerUnits'.prompt]
      /\ workerUnits'.socket = workerUnits.socket
  BY <1>1
<1>3. (~workerUnits.socket /\ ~workerUnits.service /\ ~workerUnits.prompt) =>
        (~workerUnits'.service /\ ~workerUnits'.prompt)
  BY DEF PromptArrives, PromptEnds
<1>4. ASSUME NEW u \in Consoles PROVE JobOK(jobs[u], u, files, litter, runtimeLock, workerUnits)'
  <2>1. JobOK(jobs[u], u, files, litter, runtimeLock, workerUnits) BY DEF AccountsInv
  <2>. QED BY <1>0, <1>2, <1>3, <2>1 DEF JobOK
<1>5. AccountsTypes' BY <1>0, <1>2 DEF AccountsTypes
<1>6. \A p \in Clients : FilesOK(p)' BY <1>0 DEF AccountsInv, FilesOK, InWindow
<1>. QED BY <1>4, <1>5, <1>6 DEF AccountsInv

LEMMA AccountsInvStep == AccountsInv /\ [AccountsNext]_accountsVars => AccountsInv'
<1> SUFFICES ASSUME AccountsInv, [AccountsNext]_accountsVars PROVE AccountsInv'
  OBVIOUS
<1>1. ASSUME NEW t \in Consoles,
             Stop(t) \/ Cut(t) \/ KeepInstalled(t) \/ Connect(t) \/ EnableUndo(t) \/ Logout(t)
      PROVE  AccountsInv'
  BY <1>1, EndingSteps
<1>2. ASSUME NEW t \in Consoles,
             BeginAccount(t) \/ PrepareRuntime(t) \/ VerifyManifest(t) \/ VerifyRelease(t) \/ Download(t) \/ Stage(t)
             \/ EnableChecked(t)
      PROVE  AccountsInv'
  BY <1>2, CommandSteps
<1>3. ASSUME NEW t \in Consoles, KeepPrevious(t) \/ ActivateRuntime(t) \/ ForgetPrevious(t) PROVE AccountsInv'
  BY <1>3, FileSteps
<1>4. ASSUME NEW t \in Consoles, EnableVerify(t) \/ StopSocket(t) \/ StopService(t) PROVE AccountsInv'
  BY <1>4, WorkerSteps
<1>5. ASSUME NEW t \in Consoles, EnableSocket(t) PROVE AccountsInv' BY <1>5, EnableSocketStep
<1>6. CASE PromptArrives \/ PromptEnds BY <1>6, PromptSteps
<1>7. CASE UNCHANGED accountsVars
  BY <1>7 DEF accountsVars, AccountsInv, AccountsTypes, JobOK, FilesOK, InWindow
<1>. QED BY <1>1, <1>2, <1>3, <1>4, <1>5, <1>6, <1>7 DEF AccountsNext

\* The provider accounts are sound for any terminals, providers and versions: no
\* command's work directory is swept, what is kept for a rollback differs from what
\* is in place but for the windows of the two renames, and a login is removed only
\* when no prompt runs under it (runtime.rs, ai_accounts.rs).
THEOREM AccountsAreSoundAlways == AccountsSpec => []AccountsAreSound
<1>1. AccountsInit => AccountsInv
  <2> SUFFICES ASSUME AccountsInit PROVE AccountsInv
    OBVIOUS
  <2>1. jobs \in [Consoles -> JobType] /\ \A t \in Consoles : jobs[t] = NoJob BY NoJobIs DEF AccountsInit
  <2>2. files \in [Clients -> [target : Runtimes, previous : Runtimes]] /\ \A p \in Clients : files[p].previous = None
    BY DEF AccountsInit, Runtimes
  <2>3. workerUnits = [socket |-> workerUnits.socket, service |-> workerUnits.service, prompt |-> workerUnits.prompt]
    BY DEF AccountsInit
  <2>. QED BY <2>1, <2>2, <2>3, NoJobIs DEF AccountsInv, AccountsTypes, FilesOK
<1>2. AccountsInv /\ [AccountsNext]_accountsVars => AccountsInv' BY AccountsInvStep
<1>3. AccountsInv => AccountsAreSound
  <2> SUFFICES ASSUME AccountsInv PROVE AccountsAreSound
    OBVIOUS
  <2>1. WorkIsKept BY DEF AccountsInv, JobOK, UnderLock, WorkIsKept
  <2>2. LogoutIsQuiet BY DEF AccountsInv, JobOK, LogoutIsQuiet, JobAt
  <2>3. RollbackIsAChange
    BY DEF AccountsInv, AccountsTypes, FilesOK, RollbackIsAChange, Runtimes
  <2>. QED BY <2>1, <2>2, <2>3 DEF AccountsAreSound
<1>. QED BY <1>1, <1>2, <1>3, PTL DEF AccountsSpec

-----------------------------------------------------------------------------
(* Updates of Core.                                                         *)

UpdateKinds == {"update", "repair", "migrate", "rollback"}
UpdatePlaces ==
    {"snapshot", "install", "replacing", "link", "restart", "tools", "tooling", "commit",
     "restore"}
Origins == CoreReleases \cup {0}
UpdateRuns ==
    [kind : UpdateKinds, at : UpdatePlaces, to : CoreReleases, from : CoreReleases,
     units : Origins, tools : Origins, restored : 0 .. 4, missed : SUBSET {"link", "tools"}]
CoreStates == {RunsRelease(r) : r \in CoreReleases} \cup {Down, Stopped}

UpdateTypes ==
    /\ installed \in [CoreReleases -> {"absent", "whole", "broken"}]
    /\ current \in CoreReleases
    /\ unitsOf \in Origins /\ toolsOf \in Origins
    /\ coreIs \in CoreStates
    /\ data \in Nat
    /\ snapshot \in [schema : Nat, committed : BOOLEAN]
    /\ update \in UpdateRuns \cup {NoUpdate}
    /\ plan \in [active : Origins, rollback : SUBSET CoreReleases]

IsWhole(r) == r \in CoreReleases /\ installed[r] = "whole"

\* The link's release can open the data, or the copy that will replace it.
DataOK ==
    /\ IsWhole(current)
    /\ data # 0 => data <= SchemaOf(current)
    /\ data = 0 => ~snapshot.committed /\ snapshot.schema \in 1 .. SchemaOf(current)

\* What a run goes between.
EndsOK ==
    /\ IsWhole(update.from) /\ IsWhole(update.to)
    /\ update.kind \in {"update", "rollback"} => SchemaOf(update.to) = SchemaOf(update.from)
    /\ update.kind = "repair" => update.to = update.from
    /\ update.kind = "migrate" => SchemaOf(update.to) > SchemaOf(update.from)

\* How far a run has come before it restores anything.
StageOK ==
    /\ update.at \in {"snapshot", "commit"} => update.kind = "migrate"
    /\ update.at \in {"snapshot", "install", "replacing", "link"} =>
         current = update.from /\ update.missed = {}
    /\ update.at \in {"restart", "tools", "tooling", "commit"} =>
         /\ current \in {update.from, update.to} /\ "tools" \notin update.missed
         /\ "link" \notin update.missed => current = update.to
    /\ update.at \in {"snapshot", "install"} => unitsOf = update.units
    /\ update.at \in {"link", "restart", "tools", "tooling", "commit"} => unitsOf = update.to
    /\ update.at \notin {"tooling", "commit"} /\ "tools" \notin update.missed =>
         toolsOf = update.tools
    /\ update.at = "commit" => toolsOf = update.to
    /\ update.at \in {"tools", "tooling", "commit"} =>
         data = SchemaOf(current) /\ coreIs \in {RunsRelease(current), Down}
    /\ update.at # "restore" => update.restored = 0

\* A migration that has taken its snapshot can go back to it.
CopyOK ==
    update.kind = "migrate" /\ update.at # "snapshot" =>
        ~snapshot.committed /\ snapshot.schema \in 1 .. SchemaOf(update.from)

\* How far a restoration has come: the data goes back before the link, which may stay
\* where it is.
BackOK ==
    update.at = "restore" =>
        /\ current \in {update.from, update.to}
        /\ update.kind = "repair" => current = update.from /\ update.restored = 0
        /\ update.kind \in {"update", "rollback"} =>
             /\ update.restored \in 0 .. 2
             /\ update.restored # 0 /\ "link" \notin update.missed => current = update.from
             /\ update.restored = 2 => unitsOf = update.units
        /\ update.kind = "migrate" =>
             /\ update.restored >= 3 /\ "link" \notin update.missed => current = update.from
             /\ update.restored = 1 => data = 0
             /\ update.restored >= 1 => coreIs = Stopped
             /\ update.restored >= 2 => data = snapshot.schema
             /\ update.restored = 4 => unitsOf = update.units

RunOK == update # NoUpdate => EndsOK /\ StageOK /\ CopyOK /\ BackOK

\* What housekeeping read stays true of the releases: its rollback target is kept,
\* and where there was none the versions have only gone up.
PlanOK ==
    plan # NoPlan =>
        /\ plan.active \in CoreReleases
        /\ \A q \in plan.rollback :
             IsWhole(q) /\ q # plan.active /\ SchemaOf(q) = SchemaOf(plan.active)
        /\ plan.rollback = {} =>
             /\ current >= plan.active
             /\ update # NoUpdate => update.from >= plan.active /\ update.to >= plan.active
             /\ \A r \in CoreReleases :
                  IsWhole(r) /\ SchemaOf(r) = SchemaOf(plan.active) => r >= plan.active

UpdateInv == UpdateTypes /\ DataOK /\ RunOK /\ PlanOK

\* What one step may do.
StepIsSafe == HostStarts' /\ ReportsAreTrue /\ RollbackIsKept

\* Nothing runs exactly where the updater is idle.
LEMMA IdleIsNone ==
  ASSUME UpdateTypes
  PROVE  UpdateAt("idle") <=> update = NoUpdate
BY DEF UpdateTypes, UpdateRuns, UpdatePlaces, UpdateAt, NoUpdate

LEMMA ReleaseFacts ==
  ASSUME NEW r \in CoreReleases
  PROVE  r \in Nat /\ r # 0 /\ SchemaOf(r) \in Nat /\ SchemaOf(r) # 0
BY UpdateAssumption

LEMMA CoreIsApart ==
  ASSUME NEW r
  PROVE  RunsRelease(r) # Down /\ RunsRelease(r) # Stopped /\ Down # Stopped
BY DEF RunsRelease, Down, Stopped

\* What a start may come to.
LEMMA StartEffect ==
  ASSUME UpdateTypes, DataOK, NEW s \in CoreStarts
  PROVE  /\ s[1] \in {RunsRelease(current), Down} /\ s[2] \in Nat
         /\ data = 0 => s[1] = Down /\ s[2] = 0
         /\ data # 0 => s[2] # 0 /\ data <= s[2] /\ s[2] <= SchemaOf(current)
         /\ s[1] = RunsRelease(current) => data # 0 /\ s[2] = SchemaOf(current)
<1>1. current \in CoreReleases /\ data \in Nat /\ SchemaOf(current) \in Nat
  BY ReleaseFacts DEF UpdateTypes
<1>2. data # 0 => data <= SchemaOf(current) BY DEF DataOK
<1>3. CASE data = 0
  BY <1>3, CoreIsApart DEF CoreStarts
<1>4. CASE data # 0
  <2>1. ~(data = 0 \/ data > SchemaOf(current)) BY <1>1, <1>2, <1>4
  <2>2. s = <<RunsRelease(current), SchemaOf(current)>>
          \/ \E d \in data .. SchemaOf(current) : s = <<Down, d>>
    BY <2>1 DEF CoreStarts
  <2>3. CASE s = <<RunsRelease(current), SchemaOf(current)>>
    BY <1>1, <1>2, <1>4, <2>3, CoreIsApart, ReleaseFacts
  <2>4. CASE \E d \in data .. SchemaOf(current) : s = <<Down, d>>
    <3>1. PICK d \in data .. SchemaOf(current) : s = <<Down, d>> BY <2>4
    <3>. QED BY <1>1, <1>4, <3>1, CoreIsApart
  <2>. QED BY <2>2, <2>3, <2>4
<1>. QED BY <1>3, <1>4

\* The data a step leaves can be opened where the link stays.
DataGoes ==
    /\ data' \in Nat
    /\ data = 0 => data' = 0
    /\ data # 0 => data' # 0 /\ data' <= SchemaOf(current)

LEMMA StartGoes ==
  ASSUME UpdateTypes, DataOK, StartCore
  PROVE  DataGoes /\ coreIs' \in {RunsRelease(current), Down}
<1>1. PICK s \in CoreStarts : coreIs' = s[1] /\ data' = s[2] BY DEF StartCore
<1>. QED BY <1>1, StartEffect DEF DataGoes

LEMMA SameData ==
  ASSUME UpdateTypes, DataOK, data' = data
  PROVE  DataGoes
BY DEF DataGoes, UpdateTypes, DataOK

LEMMA DataStays ==
  ASSUME DataOK, DataGoes, installed' = installed, current' = current,
         snapshot' = snapshot \/ data # 0
  PROVE  DataOK'
BY DEF DataOK, DataGoes, IsWhole

\* A plan survives where the releases stay and the link moves within the run.
LinkMoves ==
    \/ current' = current
    \/ update # NoUpdate /\ current' \in {update.from, update.to}

RunStays ==
    \/ update' = NoUpdate
    \/ update # NoUpdate /\ update'.from = update.from /\ update'.to = update.to

LEMMA PlanStays ==
  ASSUME PlanOK, plan' = plan \/ plan' = NoPlan, installed' = installed, LinkMoves, RunStays
  PROVE  PlanOK'
<1>1. CASE plan' = NoPlan BY <1>1 DEF PlanOK
<1>2. CASE plan' = plan /\ plan # NoPlan
  <2>1. plan.active \in CoreReleases
        /\ \A q \in plan.rollback :
             IsWhole(q)' /\ q # plan.active /\ SchemaOf(q) = SchemaOf(plan.active)
    BY <1>2 DEF PlanOK, IsWhole
  <2>2. ASSUME plan.rollback = {}
        PROVE  /\ current' >= plan.active
               /\ update' # NoUpdate =>
                    update'.from >= plan.active /\ update'.to >= plan.active
               /\ \A r \in CoreReleases :
                    IsWhole(r)' /\ SchemaOf(r) = SchemaOf(plan.active) => r >= plan.active
    BY <1>2, <2>2 DEF PlanOK, IsWhole, LinkMoves, RunStays
  <2>. QED BY <1>2, <2>1, <2>2 DEF PlanOK
<1>. QED BY <1>1, <1>2

\* Anything may end a run, or happen with none, that leaves link and releases alone.
LEMMA RunEnds ==
  ASSUME UpdateInv, update' = NoUpdate, DataGoes, installed' = installed, current' = current,
         plan' = plan \/ plan' = NoPlan, unitsOf' \in Origins, toolsOf' \in Origins,
         coreIs' \in CoreStates, snapshot' \in [schema : Nat, committed : BOOLEAN],
         snapshot' = snapshot \/ data # 0
  PROVE  UpdateInv'
<1>1. UpdateTypes /\ DataOK /\ PlanOK BY DEF UpdateInv
<1>2. DataOK' BY <1>1, DataStays
<1>3. PlanOK' BY <1>1, PlanStays DEF LinkMoves, RunStays
<1>4. NoPlan \in [active : Origins, rollback : SUBSET CoreReleases] BY DEF NoPlan, Origins
<1>5. UpdateTypes' BY <1>1, <1>4 DEF UpdateTypes, DataGoes
<1>6. RunOK' BY DEF RunOK
<1>. QED BY <1>2, <1>3, <1>5, <1>6 DEF UpdateInv

\* A step that keeps the releases and reports nothing that must be true.
Unreported ==
    \/ told' = told
    \/ told'.what \notin {"activated", "restored", "inspect"}
    \/ told'.what # "activated" /\ told'.critical

LEMMA SafeStep ==
  ASSUME UpdateInv', installed' = installed, ReportsAreTrue
  PROVE  StepIsSafe
<1>1. HostStarts'
  <2>1. DataOK' /\ UpdateTypes' BY DEF UpdateInv
  <2>. QED BY <2>1, ReleaseFacts DEF DataOK, HostStarts, IsWhole, UpdateTypes
<1>. QED BY <1>1 DEF StepIsSafe, RollbackIsKept

LEMMA QuietStep ==
  ASSUME UpdateInv', installed' = installed, Unreported
  PROVE  StepIsSafe
BY SafeStep DEF Unreported, ReportsAreTrue

\* What ends a run quietly: fail, a kill, and a restoration that CRITICAL tells of.
LEMMA EndsQuietly ==
  ASSUME Fails \/ Silence \/ NotActivated(TRUE)
  PROVE  Unreported /\ update' = NoUpdate
<1>1. PICK what \in {"failed", "nothing", "restored", "inspect"}, critical \in BOOLEAN :
        /\ told' = [what |-> what, release |-> 0, critical |-> critical]
        /\ update' = NoUpdate
        /\ what \in {"restored", "inspect"} => critical
  BY DEF Fails, Silence, NotActivated, Reports
<1>. QED BY <1>1 DEF Unreported

LEMMA KnownStates ==
  ASSUME UpdateTypes
  PROVE  {RunsRelease(current), Down, Stopped} \subseteq CoreStates
         /\ coreIs \in CoreStates /\ unitsOf \in Origins /\ toolsOf \in Origins
         /\ 0 \in Origins /\ snapshot \in [schema : Nat, committed : BOOLEAN]
         /\ (update # NoUpdate => update.units \in Origins /\ update.tools \in Origins
              /\ update.to \in Origins /\ update.to \in CoreReleases
              /\ update.from \in CoreReleases)
BY DEF UpdateTypes, CoreStates, Origins, UpdateRuns

\* The steps that end a run without success.
LEMMA RunIsGivenUp ==
  ASSUME UpdateInv,
         UpdaterKilled \/ RestoreFails \/ RepairFails \/ InstallRefused
           \/ Snapshot(FALSE) \/ UnitsFail(TRUE) \/ UnitsFail(FALSE)
  PROVE  UpdateInv' /\ StepIsSafe
<1>0. UpdateTypes /\ DataOK BY DEF UpdateInv
<1>1. installed' = installed /\ current' = current /\ plan' = plan /\ snapshot' = snapshot
      /\ toolsOf' = toolsOf
  BY DEF UpdaterKilled, RestoreFails, RepairFails, InstallRefused, Snapshot, UnitsFail
<1>2. Unreported /\ update' = NoUpdate
  <2>1. Silence \/ Fails \/ NotActivated(TRUE)
    BY DEF UpdaterKilled, RestoreFails, RepairFails, InstallRefused, Snapshot, UnitsFail
  <2>. QED BY <2>1, EndsQuietly
<1>3. update # NoUpdate
  BY <1>0, IdleIsNone
  DEF UpdaterKilled, RestoreFails, RepairFails, InstallRefused, Snapshot, UnitsFail, UpdateAt,
      NoUpdate
<1>4. unitsOf' \in Origins
  BY <1>0, <1>3, KnownStates
  DEF UpdaterKilled, RestoreFails, RepairFails, InstallRefused, Snapshot, UnitsFail
<1>5. StartCore \/ (coreIs' \in {coreIs, Stopped} /\ data' = data)
  BY DEF UpdaterKilled, RestoreFails, RepairFails, InstallRefused, Snapshot, UnitsFail
<1>6. DataGoes BY <1>0, <1>5, StartGoes, SameData
<1>7. coreIs' \in CoreStates BY <1>0, <1>5, StartGoes, KnownStates
<1>8. toolsOf' \in Origins /\ snapshot' \in [schema : Nat, committed : BOOLEAN]
  BY <1>0, <1>1, KnownStates
<1>9. UpdateInv' BY <1>1, <1>2, <1>4, <1>6, <1>7, <1>8, RunEnds
<1>. QED BY <1>1, <1>2, <1>9, QuietStep

\* A run inside which Core's state and data change: nothing a run relies on does.
LEMMA RunGoesOn ==
  ASSUME UpdateInv, DataGoes, coreIs' \in {RunsRelease(current), Down}, update' = update,
         update # NoUpdate => coreIs # Stopped /\ data <= data',
         installed' = installed, current' = current, unitsOf' = unitsOf, toolsOf' = toolsOf,
         snapshot' = snapshot, plan' = plan
  PROVE  UpdateInv'
<1>0. UpdateTypes /\ DataOK /\ RunOK /\ PlanOK BY DEF UpdateInv
<1>1. DataOK' BY <1>0, DataStays
<1>2. PlanOK' BY <1>0, PlanStays DEF LinkMoves, RunStays
<1>3. UpdateTypes' BY <1>0, KnownStates DEF UpdateTypes, DataGoes
<1>4. ASSUME update # NoUpdate PROVE EndsOK' /\ StageOK' /\ CopyOK' /\ BackOK'
  <2>0. EndsOK /\ StageOK /\ CopyOK /\ BackOK BY <1>0, <1>4 DEF RunOK
  <2>1. EndsOK' BY <2>0 DEF EndsOK, IsWhole
  <2>2. CopyOK' BY <2>0 DEF CopyOK
  <2>3. data \in Nat /\ data' \in Nat /\ SchemaOf(current) \in Nat /\ SchemaOf(current) # 0
    BY <1>0, ReleaseFacts DEF UpdateTypes, DataGoes
  <2>4. data = SchemaOf(current) => data' = data BY <1>4, <2>3 DEF DataGoes
  <2>5. StageOK' BY <2>0, <2>4 DEF StageOK
  <2>6. update.restored \in 0 .. 4 BY <1>0, <1>4 DEF UpdateTypes, UpdateRuns
  <2>7. BackOK' BY <1>4, <2>0, <2>6 DEF BackOK
  <2>. QED BY <2>1, <2>2, <2>5, <2>7
<1>5. RunOK' BY <1>4 DEF RunOK
<1>. QED BY <1>1, <1>2, <1>3, <1>5 DEF UpdateInv

\* Core dies and is started again, whatever the updater does.
LEMMA CoreComesAndGoes ==
  ASSUME UpdateInv, CoreDies \/ SystemdRestarts
  PROVE  UpdateInv' /\ StepIsSafe
<1>0. UpdateTypes /\ DataOK BY DEF UpdateInv
<1>1. UNCHANGED <<installed, current, unitsOf, toolsOf, snapshot, update, told, plan>>
  BY DEF CoreDies, SystemdRestarts
<1>2. coreIs # Stopped BY CoreIsApart DEF CoreDies, SystemdRestarts, Stopped
<1>3. CASE CoreDies
  <2>1. coreIs' = Down /\ data' = data BY <1>3 DEF CoreDies
  <2>2. DataGoes /\ data <= data' BY <1>0, <2>1, SameData DEF UpdateTypes
  <2>3. UpdateInv' BY <1>1, <1>2, <2>1, <2>2, RunGoesOn
  <2>. QED BY <1>1, <2>3, QuietStep DEF Unreported
<1>4. CASE SystemdRestarts
  <2>1. PICK s \in CoreStarts : coreIs' = s[1] /\ data' = s[2]
    BY <1>4 DEF SystemdRestarts, StartCore
  <2>2. data # 0 BY <1>4 DEF SystemdRestarts
  <2>3. DataGoes /\ data <= data' /\ coreIs' \in {RunsRelease(current), Down}
    BY <1>0, <2>1, <2>2, StartEffect DEF DataGoes
  <2>4. UpdateInv' BY <1>1, <1>2, <2>3, RunGoesOn
  <2>. QED BY <1>1, <2>4, QuietStep DEF Unreported
<1>. QED BY <1>3, <1>4

LEMMA PowerIsLost ==
  ASSUME UpdateInv, PowerLoss
  PROVE  UpdateInv' /\ StepIsSafe
<1>0. UpdateTypes /\ DataOK BY DEF UpdateInv
<1>1. /\ installed' = installed /\ current' = current /\ plan' = NoPlan /\ snapshot' = snapshot
      /\ toolsOf' = toolsOf /\ unitsOf' = unitsOf /\ data' = data /\ coreIs' = Down
  BY DEF PowerLoss
<1>2. Unreported /\ update' = NoUpdate
  <2>1. CASE UpdateAt("idle") BY <1>0, <2>1, IdleIsNone DEF PowerLoss, Unreported
  <2>2. CASE ~UpdateAt("idle") BY <2>2, EndsQuietly DEF PowerLoss
  <2>. QED BY <2>1, <2>2
<1>3. DataGoes BY <1>0, <1>1, SameData
<1>4. UpdateInv' BY <1>0, <1>1, <1>2, <1>3, KnownStates, RunEnds
<1>. QED BY <1>1, <1>2, <1>4, QuietStep

LEMMA OwnerHelps ==
  ASSUME UpdateInv, OwnerRecovers
  PROVE  UpdateInv' /\ StepIsSafe
<1>0. UpdateTypes /\ DataOK /\ PlanOK BY DEF UpdateInv
<1>1. UNCHANGED <<installed, current, unitsOf, toolsOf, snapshot, update, told, plan>>
  BY DEF OwnerRecovers
<1>2. update = NoUpdate BY <1>0, IdleIsNone DEF OwnerRecovers
<1>3. CASE data = 0
  <2>1. data' = snapshot.schema /\ coreIs' = coreIs BY <1>3 DEF OwnerRecovers
  <2>2. snapshot.schema \in 1 .. SchemaOf(current) BY <1>0, <1>3 DEF DataOK
  <2>3. SchemaOf(current) \in Nat BY <1>0, ReleaseFacts DEF UpdateTypes
  <2>4. DataOK' BY <1>0, <1>1, <2>1, <2>2, <2>3 DEF DataOK, IsWhole
  <2>5. PlanOK' BY <1>0, <1>1, <1>2, PlanStays DEF LinkMoves, RunStays
  <2>6. UpdateTypes' BY <1>0, <1>1, <2>1 DEF UpdateTypes
  <2>7. RunOK' BY <1>1, <1>2 DEF RunOK
  <2>8. UpdateInv' BY <2>4, <2>5, <2>6, <2>7 DEF UpdateInv
  <2>. QED BY <1>1, <2>8, QuietStep DEF Unreported
<1>4. CASE data # 0
  <2>1. StartCore BY <1>4 DEF OwnerRecovers
  <2>2. DataGoes /\ coreIs' \in CoreStates BY <1>0, <2>1, StartGoes, KnownStates
  <2>3. UpdateInv' BY <1>0, <1>1, <1>2, <2>2, KnownStates, RunEnds
  <2>. QED BY <1>1, <2>3, QuietStep DEF Unreported
<1>. QED BY <1>3, <1>4

\* What a run's step to another place leaves of the record.
LEMMA StepRecord ==
  ASSUME UpdateTypes, update # NoUpdate, NEW at \in UpdatePlaces, StepTo(at)
  PROVE  /\ update' \in UpdateRuns /\ update' # NoUpdate /\ update'.at = at
         /\ update'.kind = update.kind /\ update'.to = update.to /\ update'.from = update.from
         /\ update'.units = update.units /\ update'.tools = update.tools
         /\ update'.restored = update.restored /\ update'.missed = update.missed
<1>1. update \in UpdateRuns BY DEF UpdateTypes
<1>2. update' = [update EXCEPT !.at = at] BY DEF StepTo
<1>3. at # "idle" BY DEF UpdatePlaces
<1>. QED BY <1>1, <1>2, <1>3 DEF UpdateRuns, NoUpdate

\* One step further with the restoration.
LEMMA RestoredRecord ==
  ASSUME UpdateTypes, update # NoUpdate, update.restored < 4, RestoredOne
  PROVE  /\ update' \in UpdateRuns /\ update' # NoUpdate /\ update'.at = update.at
         /\ update'.kind = update.kind /\ update'.to = update.to /\ update'.from = update.from
         /\ update'.units = update.units /\ update'.tools = update.tools
         /\ update'.restored = update.restored + 1 /\ update'.missed = update.missed
<1>1. update \in UpdateRuns BY DEF UpdateTypes
<1>2. update' = [update EXCEPT !.restored = @ + 1] BY DEF RestoredOne
<1>3. update.restored + 1 \in 0 .. 4 BY <1>1 DEF UpdateRuns
<1>4. update.at # "idle" BY <1>1 DEF UpdateRuns, UpdatePlaces
<1>. QED BY <1>1, <1>2, <1>3, <1>4 DEF UpdateRuns, NoUpdate

\* What every step inside a run keeps.
InsideRun ==
    /\ update # NoUpdate /\ update' # NoUpdate /\ update' \in UpdateRuns
    /\ update'.kind = update.kind /\ update'.to = update.to /\ update'.from = update.from
    /\ update'.units = update.units /\ update'.tools = update.tools
    /\ installed' = installed /\ plan' = plan

\* The places before the data is touched, and those behind them, for a step inside a run.
LEMMA InsideKeeps ==
  ASSUME UpdateInv, InsideRun, LinkMoves, unitsOf' \in Origins, toolsOf' \in Origins,
         coreIs' \in CoreStates, data' \in Nat,
         snapshot' \in [schema : Nat, committed : BOOLEAN],
         DataOK', StageOK', CopyOK', BackOK'
  PROVE  UpdateInv'
<1>0. UpdateTypes /\ RunOK /\ PlanOK BY DEF UpdateInv
<1>1. PlanOK' BY <1>0, PlanStays DEF InsideRun, RunStays
<1>2. EndsOK BY <1>0 DEF InsideRun, RunOK
<1>3. EndsOK' BY <1>2 DEF EndsOK, IsWhole, InsideRun
<1>4. current' \in CoreReleases BY <1>0, KnownStates DEF LinkMoves, UpdateTypes
<1>5. UpdateTypes' BY <1>0, <1>4 DEF UpdateTypes, InsideRun
<1>6. RunOK' BY <1>3 DEF RunOK
<1>. QED BY <1>1, <1>5, <1>6 DEF UpdateInv

\* A step inside a run that leaves the snapshot keeps the way back.
LEMMA CopyStays ==
  ASSUME CopyOK, InsideRun, snapshot' = snapshot, update.at # "snapshot"
  PROVE  CopyOK'
BY DEF CopyOK, InsideRun

\* What a run at a place knows.
LEMMA RunKnows ==
  ASSUME UpdateInv, update # NoUpdate
  PROVE  /\ UpdateTypes /\ DataOK /\ EndsOK /\ StageOK /\ CopyOK /\ BackOK
         /\ update.to \in CoreReleases /\ update.from \in CoreReleases
         /\ update.restored \in 0 .. 4 /\ update.kind \in UpdateKinds
         /\ SchemaOf(update.to) \in Nat /\ SchemaOf(update.from) \in Nat
         /\ SchemaOf(update.from) <= SchemaOf(update.to)
<1>1. UpdateTypes /\ DataOK /\ EndsOK /\ StageOK /\ CopyOK /\ BackOK BY DEF UpdateInv, RunOK
<1>2. /\ update.to \in CoreReleases /\ update.from \in CoreReleases
      /\ update.restored \in 0 .. 4 /\ update.kind \in UpdateKinds
  BY <1>1 DEF UpdateTypes, UpdateRuns
<1>3. SchemaOf(update.to) \in Nat /\ SchemaOf(update.from) \in Nat BY <1>2, ReleaseFacts
<1>4. SchemaOf(update.from) <= SchemaOf(update.to)
  BY <1>1, <1>2, <1>3 DEF EndsOK, UpdateKinds
<1>. QED BY <1>1, <1>2, <1>3, <1>4

\* A step inside a run that leaves link and data alone.
LEMMA SnapshotIsTaken ==
  ASSUME UpdateInv, Snapshot(TRUE)
  PROVE  UpdateInv' /\ StepIsSafe
<1>1. /\ update.at = "snapshot" /\ data # 0 /\ coreIs' = Stopped
      /\ snapshot' = [schema |-> data, committed |-> FALSE] /\ StepTo("install")
      /\ UNCHANGED <<data, told, installed, current, unitsOf, toolsOf, plan>>
  BY DEF Snapshot, UpdateAt
<1>2. update # NoUpdate BY <1>1 DEF NoUpdate
<1>3. UpdateTypes /\ DataOK /\ EndsOK /\ StageOK /\ CopyOK /\ BackOK BY <1>2, RunKnows
<1>4. "install" \in UpdatePlaces BY DEF UpdatePlaces
<1>5. InsideRun /\ update'.at = "install" /\ update'.restored = update.restored
      /\ update'.missed = update.missed
  BY <1>1, <1>2, <1>3, <1>4, StepRecord DEF InsideRun
<1>6. DataOK' BY <1>1, <1>3 DEF DataOK, IsWhole
<1>7. StageOK' BY <1>1, <1>3, <1>5 DEF StageOK, InsideRun
<1>8. data \in Nat /\ data <= SchemaOf(current) /\ SchemaOf(current) \in Nat
  BY <1>1, <1>3, ReleaseFacts DEF UpdateTypes, DataOK
<1>9. snapshot'.schema \in 1 .. SchemaOf(current) /\ ~snapshot'.committed BY <1>1, <1>8
<1>10. current = update.from BY <1>1, <1>3 DEF StageOK
<1>11. CopyOK' BY <1>5, <1>9, <1>10 DEF CopyOK, InsideRun
<1>12. BackOK' BY <1>5 DEF BackOK
<1>13. snapshot' \in [schema : Nat, committed : BOOLEAN] BY <1>1, <1>8
<1>14. UpdateInv'
  BY <1>1, <1>3, <1>5, <1>6, <1>7, <1>8, <1>11, <1>12, <1>13, KnownStates, InsideKeeps
  DEF LinkMoves
<1>. QED BY <1>1, <1>14, QuietStep DEF Unreported

\* The units are replaced, then the link: from a place to the next.
LEMMA UnitsAreReplaced ==
  ASSUME UpdateInv, InstallUnits \/ UnitsInstalled
  PROVE  UpdateInv' /\ StepIsSafe
<1>1. /\ update.at \in {"install", "replacing"}
      /\ UNCHANGED <<installed, current, toolsOf, data, snapshot, told, plan>>
      /\ coreIs' \in {coreIs, Stopped}
  BY DEF InstallUnits, UnitsInstalled, UpdateAt
<1>2. update # NoUpdate BY <1>1 DEF NoUpdate
<1>3. UpdateTypes /\ DataOK /\ EndsOK /\ StageOK /\ CopyOK /\ BackOK BY <1>2, RunKnows
<1>4. {"replacing", "restart", "link"} \subseteq UpdatePlaces BY DEF UpdatePlaces
<1>5. PICK at \in {"replacing", "restart", "link"} :
        /\ StepTo(at)
        /\ at = "restart" => update.kind = "repair"
        /\ at = "replacing" => unitsOf' = 0
        /\ at # "replacing" => unitsOf' = update.to
  BY DEF InstallUnits, UnitsInstalled
<1>6. InsideRun /\ update'.at = at /\ update'.restored = update.restored
      /\ update'.missed = update.missed
  BY <1>1, <1>2, <1>3, <1>4, <1>5, StepRecord DEF InsideRun
<1>7. DataOK' BY <1>1, <1>3 DEF DataOK, IsWhole
<1>8. current = update.from /\ toolsOf = update.tools /\ update.restored = 0
      /\ update.missed = {}
  BY <1>1, <1>3 DEF StageOK
<1>9. update.kind = "repair" => update.to = update.from BY <1>3 DEF EndsOK
<1>10. StageOK' BY <1>1, <1>5, <1>6, <1>8, <1>9 DEF StageOK, InsideRun
<1>11. CopyOK' BY <1>1, <1>3, <1>6, CopyStays
<1>12. BackOK' BY <1>5, <1>6 DEF BackOK
<1>13. unitsOf' \in Origins BY <1>2, <1>3, <1>5, KnownStates
<1>14. coreIs' \in CoreStates BY <1>1, <1>3, KnownStates
<1>15. data' \in Nat BY <1>1, <1>3 DEF UpdateTypes
<1>16. UpdateInv'
  BY <1>1, <1>3, <1>6, <1>7, <1>10, <1>11, <1>12, <1>13, <1>14, <1>15, KnownStates, InsideKeeps
  DEF LinkMoves
<1>. QED BY <1>1, <1>16, QuietStep DEF Unreported

LEMMA LinkIsSwitched ==
  ASSUME UpdateInv, NEW works \in BOOLEAN, SwitchLink(works)
  PROVE  UpdateInv' /\ StepIsSafe
<1>1. /\ update.at = "link" /\ current' = IF works THEN update.to ELSE current
      /\ update' = [update EXCEPT !.at = "restart", !.missed = IF works THEN {} ELSE {"link"}]
      /\ UNCHANGED <<installed, unitsOf, toolsOf, coreIs, data, snapshot, told, plan>>
  BY DEF SwitchLink, UpdateAt
<1>2. update # NoUpdate BY <1>1 DEF NoUpdate
<1>3. UpdateTypes /\ DataOK /\ EndsOK /\ StageOK /\ CopyOK /\ BackOK BY <1>2, RunKnows
<1>4. PICK missed \in {{}, {"link"}} :
        /\ update' = [update EXCEPT !.at = "restart", !.missed = missed]
        /\ "link" \notin missed => works
  BY <1>1
<1>5. InsideRun /\ update'.at = "restart" /\ update'.restored = update.restored
      /\ update'.missed = missed
  <2>1. update \in UpdateRuns BY <1>2, <1>3 DEF UpdateTypes
  <2>2. missed \in SUBSET {"link", "tools"} BY <1>4
  <2>3. "restart" \in UpdatePlaces BY DEF UpdatePlaces
  <2>4. update' \in UpdateRuns BY <1>4, <2>1, <2>2, <2>3 DEF UpdateRuns
  <2>5. /\ update'.at = "restart" /\ update'.missed = missed
        /\ update'.restored = update.restored /\ update'.kind = update.kind
        /\ update'.to = update.to /\ update'.from = update.from
        /\ update'.units = update.units /\ update'.tools = update.tools
    BY <1>4, <2>1 DEF UpdateRuns
  <2>6. update' # NoUpdate BY <2>5 DEF NoUpdate
  <2>. QED BY <1>1, <1>2, <2>4, <2>5, <2>6 DEF InsideRun
<1>6. /\ current = update.from /\ SchemaOf(update.from) <= SchemaOf(update.to)
      /\ SchemaOf(update.from) \in Nat /\ SchemaOf(update.to) \in Nat
  BY <1>1, <1>2, <1>3, RunKnows DEF StageOK
<1>7. DataOK'
  <2>1. IsWhole(update.to) BY <1>3 DEF EndsOK
  <2>2. data \in Nat /\ snapshot.schema \in Nat BY <1>3 DEF UpdateTypes
  <2>. QED BY <1>1, <1>3, <1>6, <2>1, <2>2 DEF DataOK, IsWhole
<1>8. StageOK' BY <1>1, <1>3, <1>4, <1>5, <1>6 DEF StageOK, InsideRun
<1>9. CopyOK' BY <1>1, <1>3, <1>5, CopyStays
<1>10. BackOK' BY <1>5 DEF BackOK
<1>11. data' \in Nat BY <1>1, <1>3 DEF UpdateTypes
<1>12. LinkMoves BY <1>1, <1>2 DEF LinkMoves
<1>13. UpdateInv'
  BY <1>1, <1>3, <1>5, <1>7, <1>8, <1>9, <1>10, <1>11, <1>12, KnownStates, InsideKeeps
<1>. QED BY <1>1, <1>13, QuietStep DEF Unreported

LEMMA ServicesRestart ==
  ASSUME UpdateInv, RestartServices
  PROVE  UpdateInv' /\ StepIsSafe
<1>1. /\ update.at = "restart"
      /\ UNCHANGED <<installed, current, unitsOf, toolsOf, snapshot, told, plan>>
  BY DEF RestartServices, UpdateAt
<1>2. update # NoUpdate BY <1>1 DEF NoUpdate
<1>3. UpdateTypes /\ DataOK /\ EndsOK /\ StageOK /\ CopyOK /\ BackOK BY <1>2, RunKnows
<1>4. {"tools", "restore"} \subseteq UpdatePlaces BY DEF UpdatePlaces
<1>5. PICK at \in {"tools", "restore"} :
        /\ StepTo(at) /\ DataGoes /\ coreIs' \in {RunsRelease(current), Down, Stopped}
        /\ at = "tools" => coreIs' = RunsRelease(current) /\ data' = SchemaOf(current)
  <2>1. CASE coreIs' = Stopped /\ StepTo("restore") /\ UNCHANGED data
    BY <1>3, <2>1, SameData, CoreIsApart
  <2>2. ASSUME NEW s \in CoreStarts, coreIs' = s[1], data' = s[2],
               (s[1] = RunsRelease(current) /\ StepTo("tools")) \/ StepTo("restore")
        PROVE  \E at \in {"tools", "restore"} :
                 /\ StepTo(at) /\ DataGoes /\ coreIs' \in {RunsRelease(current), Down, Stopped}
                 /\ at = "tools" => coreIs' = RunsRelease(current) /\ data' = SchemaOf(current)
    <3>1. DataGoes /\ coreIs' \in {RunsRelease(current), Down, Stopped}
          /\ (s[1] = RunsRelease(current) => data' = SchemaOf(current))
      BY <1>3, <2>2, StartEffect DEF DataGoes
    <3>. QED BY <2>2, <3>1
  <2>. QED BY <2>1, <2>2 DEF RestartServices
<1>6. InsideRun /\ update'.at = at /\ update'.restored = update.restored
      /\ update'.missed = update.missed
  BY <1>1, <1>2, <1>3, <1>4, <1>5, StepRecord DEF InsideRun
<1>7. DataOK' BY <1>1, <1>3, <1>5, DataStays
<1>8. /\ current \in {update.from, update.to} /\ unitsOf = update.to
      /\ "link" \notin update.missed => current = update.to
      /\ "tools" \notin update.missed /\ toolsOf = update.tools /\ update.restored = 0
  BY <1>1, <1>3 DEF StageOK
<1>9. StageOK' BY <1>1, <1>5, <1>6, <1>8 DEF StageOK, InsideRun
<1>10. CopyOK' BY <1>1, <1>3, <1>6, CopyStays
<1>11. update.kind = "repair" => update.to = update.from BY <1>3 DEF EndsOK
<1>12. BackOK' BY <1>1, <1>6, <1>8, <1>11 DEF BackOK, InsideRun
<1>13. coreIs' \in CoreStates BY <1>3, <1>5, KnownStates
<1>14. data' \in Nat BY <1>5 DEF DataGoes
<1>15. UpdateInv'
  BY <1>1, <1>3, <1>6, <1>7, <1>9, <1>10, <1>12, <1>13, <1>14, KnownStates, InsideKeeps
  DEF LinkMoves
<1>. QED BY <1>1, <1>15, QuietStep DEF Unreported

LEMMA ToolsAreReplaced ==
  ASSUME UpdateInv,
         ReplaceTools \/ \E left \in {update.tools, update.to, 0} : ToolsFail(left)
  PROVE  UpdateInv' /\ StepIsSafe
<1>1. /\ update.at \in {"tools", "tooling"}
      /\ UNCHANGED <<installed, current, unitsOf, coreIs, data, snapshot, told, plan>>
  BY DEF ReplaceTools, ToolsFail, UpdateAt
<1>2. update # NoUpdate BY <1>1 DEF NoUpdate
<1>3. UpdateTypes /\ DataOK /\ EndsOK /\ StageOK /\ CopyOK /\ BackOK BY <1>2, RunKnows
<1>4. update \in UpdateRuns BY <1>2, <1>3 DEF UpdateTypes
<1>5. PICK at \in {"tooling", "restore"}, missed \in SUBSET {"link", "tools"} :
        /\ update' = [update EXCEPT !.at = at, !.missed = missed]
        /\ "link" \in missed <=> "link" \in update.missed
        /\ at = "tooling" => toolsOf' = 0 /\ missed = update.missed
        /\ at = "restore" /\ "tools" \notin missed => toolsOf' = update.tools
        /\ toolsOf' \in {update.tools, update.to, 0}
  <2>0. update.missed \in SUBSET {"link", "tools"} BY <1>4 DEF UpdateRuns
  <2>1. ASSUME ReplaceTools
        PROVE  \E missed \in SUBSET {"link", "tools"} :
                 /\ update' = [update EXCEPT !.at = "tooling", !.missed = missed]
                 /\ missed = update.missed /\ toolsOf' = 0
    <3>1. [update EXCEPT !.at = "tooling", !.missed = update.missed]
            = [update EXCEPT !.at = "tooling"]
      BY <1>4 DEF UpdateRuns
    <3>2. toolsOf' = 0 /\ update' = [update EXCEPT !.at = "tooling", !.missed = update.missed]
      BY <2>1, <3>1 DEF ReplaceTools, StepTo
    <3>3. PICK missed \in SUBSET {"link", "tools"} : missed = update.missed BY <2>0
    <3>4. update' = [update EXCEPT !.at = "tooling", !.missed = missed] BY <3>2, <3>3
    <3>. QED BY ONLY <3>2, <3>3, <3>4
  <2>2. ASSUME NEW left \in {update.tools, update.to, 0}, ToolsFail(left)
        PROVE  \E missed \in SUBSET {"link", "tools"} :
                 /\ update' = [update EXCEPT !.at = "restore", !.missed = missed]
                 /\ "link" \in missed <=> "link" \in update.missed
                 /\ "tools" \notin missed => toolsOf' = update.tools
                 /\ toolsOf' \in {update.tools, update.to, 0}
    <3>1. PICK missed : missed = IF left = update.tools THEN update.missed
                                 ELSE update.missed \cup {"tools"}
      OBVIOUS
    <3>2. update' = [update EXCEPT !.at = "restore", !.missed = missed] /\ toolsOf' = left
      BY <2>2, <3>1 DEF ToolsFail
    <3>3. /\ missed \in SUBSET {"link", "tools"}
          /\ "link" \in missed <=> "link" \in update.missed
      BY <2>0, <3>1
    <3>4. "tools" \notin missed => left = update.tools BY <3>1
    <3>. QED BY <2>2, <3>2, <3>3, <3>4, Zenon
  <2>. QED BY <2>1, <2>2
<1>6. InsideRun /\ update'.at = at /\ update'.restored = update.restored
      /\ update'.missed = missed
  BY <1>1, <1>2, <1>4, <1>5 DEF InsideRun, UpdateRuns, UpdatePlaces, NoUpdate
<1>7. DataOK' BY <1>1, <1>3 DEF DataOK, IsWhole
<1>8. /\ current \in {update.from, update.to} /\ unitsOf = update.to
      /\ "link" \notin update.missed => current = update.to
      /\ "tools" \notin update.missed /\ update.restored = 0
      /\ data = SchemaOf(current) /\ coreIs \in {RunsRelease(current), Down}
  BY <1>1, <1>3 DEF StageOK
<1>9. StageOK' BY <1>1, <1>5, <1>6, <1>8 DEF StageOK, InsideRun
<1>10. CopyOK' BY <1>1, <1>3, <1>6, CopyStays
<1>11. update.kind = "repair" => update.to = update.from BY <1>3 DEF EndsOK
<1>12. BackOK' BY <1>1, <1>6, <1>8, <1>11 DEF BackOK, InsideRun
<1>13. toolsOf' \in Origins BY <1>2, <1>3, <1>5, KnownStates
<1>14. data' \in Nat BY <1>1, <1>3 DEF UpdateTypes
<1>15. UpdateInv'
  BY <1>1, <1>3, <1>6, <1>7, <1>9, <1>10, <1>12, <1>13, <1>14, KnownStates, InsideKeeps
  DEF LinkMoves
<1>. QED BY <1>1, <1>15, QuietStep DEF Unreported

\* A run that reports success has everything of one release.
LEMMA SuccessIsTrue ==
  ASSUME UpdateInv', Activated, installed' = installed,
         "link" \notin update.missed => current' = update.to,
         unitsOf' = update.to, toolsOf' = update.to,
         data' = SchemaOf(current'), coreIs' \in {RunsRelease(current'), Down}
  PROVE  StepIsSafe
<1>1. told'.what = "activated" /\ told'.release = update.to BY DEF Activated, Reports
<1>2. ReportsAreTrue BY <1>1 DEF ReportsAreTrue
<1>. QED BY <1>2, SafeStep

LEMMA ToolsAreIn ==
  ASSUME UpdateInv, ToolsInstalled
  PROVE  UpdateInv' /\ StepIsSafe
<1>1. /\ update.at = "tooling" /\ toolsOf' = update.to
      /\ UNCHANGED <<installed, current, unitsOf, coreIs, data, snapshot, plan>>
  BY DEF ToolsInstalled, UpdateAt
<1>2. update # NoUpdate BY <1>1 DEF NoUpdate
<1>3. UpdateTypes /\ DataOK /\ EndsOK /\ StageOK /\ CopyOK /\ BackOK BY <1>2, RunKnows
<1>4. /\ current \in {update.from, update.to} /\ unitsOf = update.to
      /\ "link" \notin update.missed => current = update.to
      /\ "tools" \notin update.missed /\ update.restored = 0
      /\ data = SchemaOf(current) /\ coreIs \in {RunsRelease(current), Down}
  BY <1>1, <1>3 DEF StageOK
<1>5. toolsOf' \in Origins BY <1>1, <1>2, <1>3, KnownStates
<1>6. CASE update.kind = "migrate"
  <2>1. StepTo("commit") /\ told' = told BY <1>6 DEF ToolsInstalled
  <2>2. "commit" \in UpdatePlaces BY DEF UpdatePlaces
  <2>3. InsideRun /\ update'.at = "commit" /\ update'.restored = update.restored
        /\ update'.missed = update.missed
    BY <1>1, <1>2, <1>3, <2>1, <2>2, StepRecord DEF InsideRun
  <2>4. DataOK' BY <1>1, <1>3 DEF DataOK, IsWhole
  <2>5. StageOK' BY <1>1, <1>4, <1>6, <2>3 DEF StageOK, InsideRun
  <2>6. CopyOK' BY <1>1, <1>3, <2>3, CopyStays
  <2>7. BackOK' BY <2>3 DEF BackOK
  <2>8. data' \in Nat BY <1>1, <1>3 DEF UpdateTypes
  <2>9. UpdateInv'
    BY <1>1, <1>3, <1>5, <2>3, <2>4, <2>5, <2>6, <2>7, <2>8, KnownStates, InsideKeeps
    DEF LinkMoves
  <2>. QED BY <1>1, <2>1, <2>9, QuietStep DEF Unreported
<1>7. CASE update.kind # "migrate"
  <2>1. Activated BY <1>7 DEF ToolsInstalled
  <2>2. update' = NoUpdate BY <2>1 DEF Activated, Reports
  <2>3. DataGoes BY <1>1, <1>3, SameData
  <2>4. UpdateInv' BY <1>1, <1>3, <1>5, <2>2, <2>3, KnownStates, RunEnds
  <2>. QED BY <1>1, <1>4, <2>1, <2>4, SuccessIsTrue
<1>. QED BY <1>6, <1>7

LEMMA SnapshotIsCommitted ==
  ASSUME UpdateInv, NEW works \in BOOLEAN, CommitSnapshot(works)
  PROVE  UpdateInv' /\ StepIsSafe
<1>1. /\ update.at = "commit"
      /\ UNCHANGED <<installed, current, unitsOf, toolsOf, coreIs, data, plan>>
      /\ Activated \/ Fails
  BY DEF CommitSnapshot, UpdateAt
<1>2. update # NoUpdate BY <1>1 DEF NoUpdate
<1>3. UpdateTypes /\ DataOK /\ EndsOK /\ StageOK /\ CopyOK /\ BackOK BY <1>2, RunKnows
<1>4. /\ "link" \notin update.missed => current = update.to
      /\ unitsOf = update.to /\ toolsOf = update.to
      /\ data = SchemaOf(current) /\ coreIs \in {RunsRelease(current), Down}
  BY <1>1, <1>3 DEF StageOK
<1>5. data # 0 BY <1>3, <1>4, ReleaseFacts DEF UpdateTypes
<1>6. snapshot' = [snapshot EXCEPT !.committed = TRUE] \/ snapshot' = snapshot
  BY DEF CommitSnapshot
<1>7. snapshot' \in [schema : Nat, committed : BOOLEAN] BY <1>3, <1>6 DEF UpdateTypes
<1>8. update' = NoUpdate BY <1>1 DEF Activated, Fails, Reports
<1>9. DataGoes BY <1>1, <1>3, SameData
<1>10. UpdateInv' BY <1>1, <1>3, <1>5, <1>7, <1>8, <1>9, KnownStates, RunEnds
<1>11. CASE Activated
  BY <1>1, <1>4, <1>10, <1>11, SuccessIsTrue
<1>12. CASE Fails
  <2>1. Unreported BY <1>12, EndsQuietly
  <2>. QED BY <1>1, <1>10, <2>1, QuietStep
<1>. QED BY <1>1, <1>11, <1>12

\* Which step of a restoration comes when.
LEMMA RestoreSteps ==
  ASSUME UpdateInv, NEW step \in {"move", "data", "link", "units", "restart"}, Restoring(step)
  PROVE  /\ update # NoUpdate /\ update.at = "restore"
         /\ update.kind \in {"migrate", "update", "rollback"}
         /\ update.kind = "migrate" =>
              update.restored = CASE step = "move" -> 0 [] step = "data" -> 1
                                  [] step = "link" -> 2 [] step = "units" -> 3
                                  [] step = "restart" -> 4
         /\ update.kind # "migrate" =>
              /\ step \in {"link", "units", "restart"}
              /\ update.restored = CASE step = "link" -> 0 [] step = "units" -> 1
                                     [] step = "restart" -> 2
<1>1. update.at = "restore" /\ update.kind # "repair" BY DEF Restoring, UpdateAt
<1>2. update # NoUpdate BY <1>1 DEF NoUpdate
<1>3. update.kind \in {"migrate", "update", "rollback"} /\ update.restored \in 0 .. 4
      /\ BackOK
  BY <1>1, <1>2, RunKnows DEF UpdateKinds
<1>4. CASE update.kind = "migrate"
  <2>1. <<"move", "data", "link", "units", "restart">>[update.restored + 1] = step
    BY <1>4 DEF Restoring, RestoreOrder
  <2>2. update.restored \in {0, 1, 2, 3, 4} BY <1>3
  <2>. QED BY <1>1, <1>2, <1>4, <2>1, <2>2
<1>5. CASE update.kind # "migrate"
  <2>1. <<"link", "units", "restart">>[update.restored + 1] = step
    BY <1>5 DEF Restoring, RestoreOrder
  <2>2. update.restored \in {0, 1, 2} BY <1>1, <1>3, <1>5 DEF BackOK
  <2>. QED BY <1>1, <1>2, <1>3, <1>5, <2>1, <2>2
<1>. QED BY <1>4, <1>5

\* A step of the restoration: what it needs of the parts that it changes.
LEMMA RestorationGoesOn ==
  ASSUME UpdateInv, update # NoUpdate, update.at = "restore",
         InsideRun, update'.at = "restore",
         "tools" \in update'.missed <=> "tools" \in update.missed,
         toolsOf' = toolsOf, snapshot' = snapshot,
         told' = told, LinkMoves, unitsOf' \in Origins, coreIs' \in CoreStates, data' \in Nat,
         DataOK', BackOK'
  PROVE  UpdateInv' /\ StepIsSafe
<1>2. UpdateTypes /\ StageOK /\ CopyOK BY RunKnows
<1>5. CopyOK' BY <1>2, CopyStays
<1>6. StageOK' BY <1>2 DEF StageOK, InsideRun
<1>7. toolsOf' \in Origins /\ snapshot' \in [schema : Nat, committed : BOOLEAN]
  BY <1>2, KnownStates
<1>8. UpdateInv' BY <1>5, <1>6, <1>7, InsideKeeps
<1>. QED BY <1>8, QuietStep DEF Unreported, InsideRun

\* What a restoration step that is looked at leaves of the record.
LEMMA RestorationRecord ==
  ASSUME UpdateInv, NEW step \in {"move", "data", "units"}, Restoring(step), RestoredOne,
         installed' = installed, plan' = plan
  PROVE  /\ InsideRun /\ update'.at = "restore" /\ update'.missed = update.missed
         /\ update'.restored = update.restored + 1
<1>1. /\ update # NoUpdate /\ update.at = "restore"
      /\ update.kind \in {"migrate", "update", "rollback"} /\ update.restored < 4
  BY RestoreSteps
<1>2. UpdateTypes BY <1>1, RunKnows
<1>. QED BY <1>1, <1>2, RestoredRecord DEF InsideRun

LEMMA DataIsMoved ==
  ASSUME UpdateInv, MoveData
  PROVE  UpdateInv' /\ StepIsSafe
<1>1. /\ Restoring("move") /\ ~snapshot.committed /\ coreIs' = Stopped /\ data' = 0
      /\ RestoredOne
      /\ UNCHANGED <<installed, current, unitsOf, toolsOf, snapshot, told, plan>>
  BY DEF MoveData
<1>2. /\ update # NoUpdate /\ update.at = "restore" /\ update.kind = "migrate"
      /\ update.restored = 0
  BY <1>1, RestoreSteps
<1>3. /\ UpdateTypes /\ DataOK /\ CopyOK /\ BackOK
      /\ SchemaOf(update.to) \in Nat /\ SchemaOf(update.from) \in Nat
      /\ SchemaOf(update.from) <= SchemaOf(update.to)
  BY <1>2, RunKnows
<1>4. current \in {update.from, update.to} BY <1>2, <1>3 DEF BackOK
<1>5. snapshot.schema \in 1 .. SchemaOf(current)
  BY <1>2, <1>3, <1>4 DEF CopyOK
<1>6. DataOK' BY <1>1, <1>3, <1>5 DEF DataOK, IsWhole
<1>7. /\ InsideRun /\ update'.at = "restore" /\ update'.missed = update.missed
      /\ update'.restored = 1
  BY <1>1, <1>2, RestorationRecord
<1>8. BackOK' BY <1>1, <1>2, <1>4, <1>7 DEF BackOK, InsideRun
<1>9. unitsOf' \in Origins /\ coreIs' \in CoreStates /\ data' \in Nat
  BY <1>1, <1>3, KnownStates
<1>. QED BY <1>1, <1>2, <1>6, <1>7, <1>8, <1>9, RestorationGoesOn DEF LinkMoves

LEMMA DataIsBack ==
  ASSUME UpdateInv, RestoreData
  PROVE  UpdateInv' /\ StepIsSafe
<1>1. /\ Restoring("data") /\ data' = snapshot.schema /\ RestoredOne
      /\ UNCHANGED <<installed, current, unitsOf, toolsOf, coreIs, snapshot, told, plan>>
  BY DEF RestoreData
<1>2. /\ update # NoUpdate /\ update.at = "restore" /\ update.kind = "migrate"
      /\ update.restored = 1
  BY <1>1, RestoreSteps
<1>3. /\ UpdateTypes /\ DataOK /\ CopyOK /\ BackOK
      /\ SchemaOf(update.to) \in Nat /\ SchemaOf(update.from) \in Nat
      /\ SchemaOf(update.from) <= SchemaOf(update.to)
  BY <1>2, RunKnows
<1>4. current \in {update.from, update.to} /\ coreIs = Stopped BY <1>2, <1>3 DEF BackOK
<1>5. snapshot.schema \in 1 .. SchemaOf(current)
  BY <1>2, <1>3, <1>4 DEF CopyOK
<1>6. DataOK' BY <1>1, <1>3, <1>4, <1>5 DEF DataOK, IsWhole
<1>7. /\ InsideRun /\ update'.at = "restore" /\ update'.missed = update.missed
      /\ update'.restored = 2
  BY <1>1, <1>2, RestorationRecord
<1>8. BackOK' BY <1>1, <1>2, <1>4, <1>7 DEF BackOK, InsideRun
<1>9. unitsOf' \in Origins /\ coreIs' \in CoreStates /\ data' \in Nat
  BY <1>1, <1>3, KnownStates DEF UpdateTypes
<1>. QED BY <1>1, <1>2, <1>6, <1>7, <1>8, <1>9, RestorationGoesOn DEF LinkMoves

\* The link goes back only when the data is of a schema that the old release knows.
LEMMA LinkIsBack ==
  ASSUME UpdateInv, NEW works \in BOOLEAN, LinkBack(works)
  PROVE  UpdateInv' /\ StepIsSafe
<1>1. /\ Restoring("link") /\ current' = IF works THEN update.from ELSE current
      /\ UNCHANGED <<installed, unitsOf, toolsOf, coreIs, data, snapshot, told, plan>>
  BY DEF LinkBack
<1>2. /\ update # NoUpdate /\ update.at = "restore"
      /\ update.kind = "migrate" => update.restored = 2
      /\ update.kind # "migrate" => update.restored = 0
      /\ update.kind \in {"migrate", "update", "rollback"}
  BY <1>1, RestoreSteps
<1>3. /\ UpdateTypes /\ DataOK /\ EndsOK /\ CopyOK /\ BackOK
      /\ SchemaOf(update.to) \in Nat /\ SchemaOf(update.from) \in Nat
  BY <1>2, RunKnows
<1>4. /\ current \in {update.from, update.to} /\ current' \in {update.from, current}
      /\ update.kind = "migrate" => coreIs = Stopped /\ data = snapshot.schema
  BY <1>1, <1>2, <1>3 DEF BackOK
<1>5. IsWhole(update.from) BY <1>3 DEF EndsOK
<1>6. DataOK'
  <2>1. CASE current' = current BY <1>1, <1>3, <2>1 DEF DataOK, IsWhole
  <2>2. CASE current' = update.from /\ update.kind = "migrate"
    <3>1. snapshot.schema \in 1 .. SchemaOf(update.from) BY <1>2, <1>3, <2>2 DEF CopyOK
    <3>. QED BY <1>1, <1>3, <1>4, <1>5, <2>2, <3>1 DEF DataOK, IsWhole
  <2>3. CASE current' = update.from /\ update.kind # "migrate"
    <3>1. SchemaOf(update.to) = SchemaOf(update.from) BY <1>2, <1>3, <2>3 DEF EndsOK
    <3>. QED BY <1>1, <1>3, <1>4, <1>5, <2>3, <3>1 DEF DataOK, IsWhole
  <2>. QED BY <1>4, <2>1, <2>2, <2>3
<1>7. update \in UpdateRuns /\ update.missed \in SUBSET {"link", "tools"}
      /\ update.restored \in {0, 2}
  BY <1>2, <1>3 DEF UpdateTypes, UpdateRuns
<1>8. PICK missed : missed = IF works THEN update.missed \ {"link"}
                             ELSE update.missed \cup {"link"}
  OBVIOUS
<1>9. PICK n \in 0 .. 4 : n = update.restored + 1 BY <1>7
<1>10. update' = [update EXCEPT !.restored = n, !.missed = missed]
  BY <1>8, <1>9 DEF LinkBack
<1>11. /\ missed \in SUBSET {"link", "tools"}
       /\ "link" \notin missed => works
       /\ "tools" \in missed <=> "tools" \in update.missed
  BY <1>7, <1>8
<1>12. /\ InsideRun /\ update'.at = "restore" /\ update'.missed = missed
       /\ update'.restored = n
  BY <1>1, <1>2, <1>7, <1>10, <1>11 DEF InsideRun, UpdateRuns, UpdatePlaces, NoUpdate
<1>13. update.kind = "migrate" => n = 3 BY <1>2, <1>9
<1>14. update.kind # "migrate" => n = 1 BY <1>2, <1>9
<1>15. BackOK'
  BY <1>1, <1>2, <1>4, <1>11, <1>12, <1>13, <1>14 DEF BackOK, InsideRun
<1>16. unitsOf' \in Origins /\ coreIs' \in CoreStates /\ data' \in Nat
  BY <1>1, <1>3, KnownStates DEF UpdateTypes
<1>17. LinkMoves BY <1>2, <1>4 DEF LinkMoves
<1>. QED BY <1>1, <1>2, <1>6, <1>11, <1>12, <1>15, <1>16, <1>17, RestorationGoesOn

LEMMA UnitsAreBack ==
  ASSUME UpdateInv, UnitsBack
  PROVE  UpdateInv' /\ StepIsSafe
<1>1. /\ Restoring("units") /\ coreIs' = Stopped /\ unitsOf' = update.units /\ RestoredOne
      /\ UNCHANGED <<installed, current, toolsOf, data, snapshot, told, plan>>
  BY DEF UnitsBack
<1>2. /\ update # NoUpdate /\ update.at = "restore"
      /\ update.kind = "migrate" => update.restored = 3
      /\ update.kind # "migrate" => update.restored = 1
      /\ update.kind \in {"migrate", "update", "rollback"}
  BY <1>1, RestoreSteps
<1>3. UpdateTypes /\ DataOK /\ BackOK BY <1>2, RunKnows
<1>4. /\ current \in {update.from, update.to}
      /\ "link" \notin update.missed => current = update.from
      /\ update.kind = "migrate" => data = snapshot.schema
  BY <1>2, <1>3 DEF BackOK
<1>5. DataOK' BY <1>1, <1>3 DEF DataOK, IsWhole
<1>6. /\ InsideRun /\ update'.at = "restore" /\ update'.missed = update.missed
      /\ update'.restored = update.restored + 1
  BY <1>1, RestorationRecord
<1>8. BackOK' BY <1>1, <1>2, <1>4, <1>6 DEF BackOK, InsideRun
<1>7. unitsOf' \in Origins /\ coreIs' \in CoreStates /\ data' \in Nat
  BY <1>1, <1>2, <1>3, KnownStates DEF UpdateTypes
<1>. QED BY <1>1, <1>2, <1>5, <1>6, <1>8, <1>7, RestorationGoesOn DEF LinkMoves

LEMMA RestoredIsTrue ==
  ASSUME UpdateInv, RestartRestored
  PROVE  UpdateInv' /\ StepIsSafe
<1>1. Restoring("restart")
      /\ UNCHANGED <<installed, current, unitsOf, toolsOf, snapshot, plan>>
  BY DEF RestartRestored
<1>2. /\ update # NoUpdate /\ update.at = "restore"
      /\ update.kind = "migrate" => update.restored = 4
      /\ update.kind # "migrate" => update.restored = 2
      /\ update.kind \in {"migrate", "update", "rollback"}
  BY <1>1, RestoreSteps
<1>3. UpdateTypes /\ DataOK /\ StageOK /\ BackOK BY <1>2, RunKnows
<1>4. /\ unitsOf = update.units
      /\ "link" \notin update.missed => current = update.from
  BY <1>2, <1>3 DEF BackOK
<1>5. "tools" \notin update.missed => toolsOf = update.tools BY <1>2, <1>3 DEF StageOK
<1>6. PICK s \in CoreStarts :
        /\ coreIs' = s[1] /\ data' = s[2]
        /\ \/ s[1] = RunsRelease(current) /\ NotActivated(FALSE)
           \/ NotActivated(TRUE)
  BY DEF RestartRestored
<1>7. DataGoes /\ coreIs' \in CoreStates
      /\ (s[1] = RunsRelease(current) => data' = SchemaOf(current))
  BY <1>3, <1>6, StartEffect, KnownStates DEF DataGoes
<1>8. update' = NoUpdate BY <1>6 DEF NotActivated, Reports
<1>9. UpdateInv' BY <1>1, <1>3, <1>7, <1>8, KnownStates, RunEnds
<1>10. CASE s[1] = RunsRelease(current) /\ NotActivated(FALSE)
  <2>1. told'.what \in {"restored", "inspect"} BY <1>10 DEF NotActivated, Reports
  <2>2. ReportsAreTrue BY <1>1, <1>4, <1>5, <1>6, <1>7, <1>10, <2>1 DEF ReportsAreTrue
  <2>. QED BY <1>1, <1>9, <2>2, SafeStep
<1>11. CASE NotActivated(TRUE)
  <2>1. Unreported BY <1>11, EndsQuietly
  <2>. QED BY <1>1, <1>9, <2>1, QuietStep
<1>. QED BY <1>6, <1>10, <1>11

\* A release that is refused before anything of it is installed.
LEMMA RefusalIsTrue ==
  ASSUME UpdateInv, ActivationRefused
  PROVE  UpdateInv' /\ StepIsSafe
<1>1. /\ UpdateAt("install") /\ update.at = "install" /\ NotActivated(FALSE)
      /\ UNCHANGED <<installed, current, unitsOf, toolsOf, coreIs, data, snapshot, plan>>
  BY DEF ActivationRefused, UpdateAt
<1>2. update # NoUpdate BY <1>1 DEF NoUpdate
<1>3. UpdateTypes /\ DataOK /\ StageOK BY <1>2, RunKnows
<1>4. unitsOf = update.units /\ toolsOf = update.tools /\ current = update.from
  BY <1>1, <1>3 DEF StageOK
<1>5. update' = NoUpdate /\ told'.what \in {"restored", "inspect"}
  BY <1>1 DEF NotActivated, Reports
<1>6. DataGoes BY <1>1, <1>3, SameData
<1>7. UpdateInv' BY <1>1, <1>3, <1>5, <1>6, KnownStates, RunEnds
<1>8. ReportsAreTrue BY <1>1, <1>4, <1>5 DEF ReportsAreTrue
<1>. QED BY <1>1, <1>7, <1>8, SafeStep

\* A run begins with where it comes from.
LEMMA BeginRecord ==
  ASSUME UpdateTypes, NEW kind \in UpdateKinds, NEW at \in {"install", "snapshot"},
         NEW to \in CoreReleases, Begins(kind, at, to)
  PROVE  /\ update = NoUpdate /\ update' \in UpdateRuns /\ update' # NoUpdate
         /\ update'.kind = kind /\ update'.at = at /\ update'.to = to
         /\ update'.from = current /\ update'.units = unitsOf /\ update'.tools = toolsOf
         /\ update'.restored = 0 /\ update'.missed = {} /\ Unreported
<1>1. update = NoUpdate BY IdleIsNone DEF Begins
<1>2. update' = [kind |-> kind, at |-> at, to |-> to, from |-> current, units |-> unitsOf,
                 tools |-> toolsOf, restored |-> 0, missed |-> {}]
  BY DEF Begins
<1>3. current \in CoreReleases /\ unitsOf \in Origins /\ toolsOf \in Origins
  BY DEF UpdateTypes
<1>4. at \in UpdatePlaces /\ at # "idle" /\ 0 \in 0 .. 4
      /\ {} \in SUBSET {"link", "tools"}
  BY DEF UpdatePlaces
<1>5. Unreported BY DEF Begins, Quiet, Unreported
<1>. QED BY <1>1, <1>2, <1>3, <1>4, <1>5 DEF UpdateRuns, NoUpdate

LEMMA VersionsGoUp ==
  ASSUME NEW r \in CoreReleases, NEW s \in CoreReleases
  PROVE  /\ SchemaOf(r) < SchemaOf(s) => r < s
         /\ r <= s => SchemaOf(r) <= SchemaOf(s)
<1>1. r \in Nat /\ s \in Nat /\ SchemaOf(r) \in Nat /\ SchemaOf(s) \in Nat BY ReleaseFacts
<1>2. (r < s => SchemaOf(r) <= SchemaOf(s)) /\ (s < r => SchemaOf(s) <= SchemaOf(r))
  BY UpdateAssumption
<1>. QED BY <1>1, <1>2

\* Where housekeeping found no rollback target, no run goes below what it read.
LEMMA NoneBelow ==
  ASSUME UpdateTypes, PlanOK, plan # NoPlan, plan.rollback = {}, NEW r \in CoreReleases,
         IsWhole(r), SchemaOf(current) <= SchemaOf(r)
  PROVE  r >= plan.active
<1>1. /\ plan.active \in CoreReleases /\ current \in CoreReleases /\ current >= plan.active
      /\ SchemaOf(r) = SchemaOf(plan.active) => r >= plan.active
  BY DEF PlanOK, UpdateTypes
<1>2. /\ r \in Nat /\ plan.active \in Nat /\ current \in Nat /\ SchemaOf(r) \in Nat
      /\ SchemaOf(plan.active) \in Nat /\ SchemaOf(current) \in Nat
  BY <1>1, ReleaseFacts
<1>3. SchemaOf(plan.active) <= SchemaOf(current) BY <1>1, <1>2, VersionsGoUp
<1>4. SchemaOf(plan.active) < SchemaOf(r) => plan.active < r BY <1>1, VersionsGoUp
<1>. QED BY <1>1, <1>2, <1>3, <1>4

\* A run that begins on the releases that are there.
LEMMA RunBegins ==
  ASSUME UpdateInv, NEW kind \in {"repair", "migrate", "rollback"},
         NEW at \in {"install", "snapshot"}, NEW to \in CoreReleases, Begins(kind, at, to),
         IsWhole(to), SchemaOf(current) <= SchemaOf(to),
         kind = "migrate" <=> at = "snapshot", kind = "repair" => to = current,
         kind = "rollback" => SchemaOf(to) = SchemaOf(current),
         kind = "migrate" => SchemaOf(to) > SchemaOf(current),
         UNCHANGED <<installed, current, unitsOf, toolsOf, coreIs, data, snapshot, plan>>
  PROVE  UpdateInv' /\ StepIsSafe
<1>0. UpdateTypes /\ DataOK /\ PlanOK BY DEF UpdateInv
<1>1. kind \in UpdateKinds BY DEF UpdateKinds
<1>2. /\ update = NoUpdate /\ update' \in UpdateRuns /\ update' # NoUpdate
      /\ update'.kind = kind /\ update'.at = at /\ update'.to = to
      /\ update'.from = current /\ update'.units = unitsOf /\ update'.tools = toolsOf
      /\ update'.restored = 0 /\ update'.missed = {} /\ Unreported
  BY <1>0, <1>1, BeginRecord
<1>3. UpdateTypes' BY <1>0, <1>2 DEF UpdateTypes
<1>4. DataOK' BY <1>0 DEF DataOK, IsWhole
<1>5. EndsOK'
  <2>1. IsWhole(current) BY <1>0 DEF DataOK
  <2>. QED BY <1>2, <2>1 DEF EndsOK, IsWhole
<1>6. StageOK' BY <1>2 DEF StageOK
<1>7. CopyOK' BY <1>2 DEF CopyOK
<1>8. BackOK' BY <1>2 DEF BackOK
<1>9. PlanOK'
  <2>1. SUFFICES ASSUME plan # NoPlan PROVE PlanOK' BY DEF PlanOK
  <2>2. plan.active \in CoreReleases
        /\ \A q \in plan.rollback :
             IsWhole(q)' /\ q # plan.active /\ SchemaOf(q) = SchemaOf(plan.active)
    BY <1>0, <2>1 DEF PlanOK, IsWhole
  <2>3. ASSUME plan.rollback = {}
        PROVE  /\ current >= plan.active /\ to >= plan.active
               /\ \A r \in CoreReleases :
                    IsWhole(r)' /\ SchemaOf(r) = SchemaOf(plan.active) => r >= plan.active
    <3>1. to >= plan.active BY <1>0, <2>1, <2>3, NoneBelow
    <3>. QED BY <1>0, <2>1, <2>3, <3>1 DEF PlanOK, IsWhole
  <2>. QED BY <1>2, <2>2, <2>3 DEF PlanOK
<1>10. UpdateInv' BY <1>3, <1>4, <1>5, <1>6, <1>7, <1>8, <1>9 DEF UpdateInv, RunOK
<1>. QED BY <1>2, <1>10, QuietStep

LEMMA OldReleaseRuns ==
  ASSUME UpdateInv, Repair \/ \E r \in CoreReleases : Migrate(r) \/ RollBack(r)
  PROVE  UpdateInv' /\ StepIsSafe
<1>0. UpdateTypes /\ DataOK BY DEF UpdateInv
<1>1. current \in CoreReleases /\ SchemaOf(current) \in Nat /\ IsWhole(current)
  BY <1>0, ReleaseFacts DEF UpdateTypes, DataOK
<1>2. CASE Repair
  <2>1. Begins("repair", "install", current)
        /\ UNCHANGED <<installed, current, unitsOf, toolsOf, coreIs, data, snapshot, plan>>
    BY <1>2 DEF Repair
  <2>. QED BY <1>1, <2>1, RunBegins
<1>3. ASSUME NEW r \in CoreReleases, Migrate(r) PROVE UpdateInv' /\ StepIsSafe
  <2>1. /\ IsWhole(r) /\ SchemaOf(r) > SchemaOf(current) /\ Begins("migrate", "snapshot", r)
        /\ UNCHANGED <<installed, current, unitsOf, toolsOf, coreIs, data, snapshot, plan>>
    BY <1>3 DEF Migrate, IsWhole
  <2>2. SchemaOf(current) <= SchemaOf(r) BY <1>1, <2>1, ReleaseFacts
  <2>. QED BY <2>1, <2>2, RunBegins
<1>4. ASSUME NEW r \in CoreReleases, RollBack(r) PROVE UpdateInv' /\ StepIsSafe
  <2>1. /\ IsWhole(r) /\ SchemaOf(r) = SchemaOf(current) /\ Begins("rollback", "install", r)
        /\ UNCHANGED <<installed, current, unitsOf, toolsOf, coreIs, data, snapshot, plan>>
    BY <1>4 DEF RollBack, RollbackCapable, IsWhole
  <2>2. SchemaOf(current) <= SchemaOf(r) BY <1>1, <2>1
  <2>. QED BY <2>1, <2>2, RunBegins
<1>. QED BY <1>2, <1>3, <1>4

\* The run that begins, if one does, does not go below the active release.
UpwardRun ==
    \/ update' = NoUpdate
    \/ /\ update'.from \in CoreReleases /\ update'.to \in CoreReleases
       /\ update'.from >= current /\ update'.to >= current

\* A release that is put in place takes nothing away.
LEMMA ReleaseIsAdded ==
  ASSUME UpdateInv, NEW r \in CoreReleases, r > current,
         installed' = [installed EXCEPT ![r] = "whole"], UNCHANGED <<current, data, snapshot, plan>>
  PROVE  /\ installed' \in [CoreReleases -> {"absent", "whole", "broken"}]
         /\ DataOK' /\ RollbackIsKept /\ IsWhole(r)' /\ IsWhole(current)'
         /\ UpwardRun => PlanOK'
<1>0. UpdateTypes /\ DataOK /\ PlanOK BY DEF UpdateInv
<1>1. installed' \in [CoreReleases -> {"absent", "whole", "broken"}] BY <1>0 DEF UpdateTypes
<1>2. \A q \in CoreReleases :
        installed'[q] = IF q = r THEN "whole" ELSE installed[q]
  BY <1>0 DEF UpdateTypes
<1>3. \A q : IsWhole(q)' <=> IsWhole(q) \/ q = r BY <1>2 DEF IsWhole
<1>4. IsWhole(current) /\ IsWhole(current)' /\ IsWhole(r)' BY <1>0, <1>3 DEF DataOK
<1>5. DataOK' BY <1>0, <1>4 DEF DataOK
<1>6. RollbackIsKept
  <2>1. \A q \in CoreReleases : RollbackCapable(q) => RollbackCapable(q)'
    BY <1>2 DEF RollbackCapable
  <2>. QED BY <2>1 DEF RollbackIsKept
<1>7. ASSUME UpwardRun, plan # NoPlan PROVE PlanOK'
  <2>1. plan.active \in CoreReleases
        /\ \A q \in plan.rollback :
             IsWhole(q)' /\ q # plan.active /\ SchemaOf(q) = SchemaOf(plan.active)
    BY <1>0, <1>3, <1>7 DEF PlanOK
  <2>2. ASSUME plan.rollback = {}
        PROVE  /\ current >= plan.active
               /\ update' # NoUpdate =>
                    update'.from >= plan.active /\ update'.to >= plan.active
               /\ \A q \in CoreReleases :
                    IsWhole(q)' /\ SchemaOf(q) = SchemaOf(plan.active) => q >= plan.active
    <3>1. /\ current >= plan.active
          /\ \A q \in CoreReleases :
               IsWhole(q) /\ SchemaOf(q) = SchemaOf(plan.active) => q >= plan.active
      BY <1>0, <1>7, <2>2 DEF PlanOK
    <3>2. current \in Nat /\ plan.active \in Nat /\ r \in Nat
      BY <1>0, <2>1, ReleaseFacts DEF UpdateTypes
    <3>3. r >= plan.active BY <3>1, <3>2
    <3>4. update' # NoUpdate => update'.from >= plan.active /\ update'.to >= plan.active
      <4>1. SUFFICES ASSUME update' # NoUpdate
                     PROVE  update'.from >= plan.active /\ update'.to >= plan.active
        OBVIOUS
      <4>2. /\ update'.from \in CoreReleases /\ update'.to \in CoreReleases
            /\ update'.from >= current /\ update'.to >= current
        BY <1>7, <4>1 DEF UpwardRun
      <4>3. update'.from \in Nat /\ update'.to \in Nat BY <4>2, ReleaseFacts
      <4>. QED BY <3>1, <3>2, <4>2, <4>3
    <3>5. \A q \in CoreReleases :
            IsWhole(q)' /\ SchemaOf(q) = SchemaOf(plan.active) => q >= plan.active
      BY <1>3, <3>1, <3>3
    <3>. QED BY <3>1, <3>4, <3>5
  <2>. QED BY <2>1, <2>2 DEF PlanOK
<1>8. plan = NoPlan => PlanOK' BY DEF PlanOK
<1>. QED BY <1>1, <1>3, <1>4, <1>5, <1>6, <1>7, <1>8

LEMMA NewReleaseRuns ==
  ASSUME UpdateInv, NEW r \in CoreReleases, Update(r)
  PROVE  UpdateInv' /\ StepIsSafe
<1>0. UpdateTypes /\ DataOK BY DEF UpdateInv
<1>1. /\ r > current /\ SchemaOf(r) = SchemaOf(current) /\ Begins("update", "install", r)
      /\ installed' = [installed EXCEPT ![r] = "whole"]
      /\ UNCHANGED <<current, unitsOf, toolsOf, coreIs, data, snapshot, plan>>
  BY DEF Update
<1>2. current \in CoreReleases /\ current \in Nat /\ r \in Nat
  BY <1>0, ReleaseFacts DEF UpdateTypes
<1>3. "update" \in UpdateKinds BY DEF UpdateKinds
<1>4. /\ update = NoUpdate /\ update' \in UpdateRuns /\ update' # NoUpdate
      /\ update'.kind = "update" /\ update'.at = "install" /\ update'.to = r
      /\ update'.from = current /\ update'.units = unitsOf /\ update'.tools = toolsOf
      /\ update'.restored = 0 /\ update'.missed = {} /\ Unreported
  BY <1>0, <1>1, <1>3, BeginRecord
<1>5. UpwardRun BY <1>1, <1>2, <1>4 DEF UpwardRun
<1>6. /\ installed' \in [CoreReleases -> {"absent", "whole", "broken"}]
      /\ DataOK' /\ RollbackIsKept /\ IsWhole(r)' /\ IsWhole(current)' /\ PlanOK'
  BY <1>1, <1>5, ReleaseIsAdded
<1>7. UpdateTypes' BY <1>0, <1>1, <1>4, <1>6 DEF UpdateTypes
<1>8. EndsOK' BY <1>1, <1>4, <1>6 DEF EndsOK, IsWhole
<1>9. StageOK' BY <1>1, <1>4 DEF StageOK
<1>10. CopyOK' BY <1>4 DEF CopyOK
<1>11. BackOK' BY <1>4 DEF BackOK
<1>12. UpdateInv' BY <1>6, <1>7, <1>8, <1>9, <1>10, <1>11 DEF UpdateInv, RunOK
<1>13. HostStarts' BY <1>6, <1>7, ReleaseFacts DEF DataOK, HostStarts, IsWhole, UpdateTypes
<1>. QED BY <1>4, <1>6, <1>12, <1>13 DEF StepIsSafe, ReportsAreTrue, Unreported

LEMMA ReleaseIsStaged ==
  ASSUME UpdateInv, NEW r \in CoreReleases, StageRelease(r)
  PROVE  UpdateInv' /\ StepIsSafe
<1>0. UpdateTypes /\ DataOK BY DEF UpdateInv
<1>1. /\ r > current /\ installed' = [installed EXCEPT ![r] = "whole"]
      /\ UNCHANGED <<current, unitsOf, toolsOf, coreIs, data, snapshot, update, told, plan>>
  BY DEF StageRelease
<1>2. update' = NoUpdate BY <1>0, <1>1, IdleIsNone DEF StageRelease
<1>3. UpwardRun BY <1>2 DEF UpwardRun
<1>4. /\ installed' \in [CoreReleases -> {"absent", "whole", "broken"}]
      /\ DataOK' /\ RollbackIsKept /\ PlanOK'
  BY <1>1, <1>3, ReleaseIsAdded
<1>5. UpdateTypes' BY <1>0, <1>1, <1>4 DEF UpdateTypes
<1>6. UpdateInv' BY <1>2, <1>4, <1>5 DEF UpdateInv, RunOK
<1>7. HostStarts' BY <1>4, <1>5, ReleaseFacts DEF DataOK, HostStarts, IsWhole, UpdateTypes
<1>. QED BY <1>1, <1>4, <1>6, <1>7 DEF StepIsSafe, ReportsAreTrue

LEMMA NewestIsOne ==
  ASSUME NEW S \in SUBSET CoreReleases, S # {}
  PROVE  Newest(S) \in S
<1>1. IsFiniteSet(S) /\ S \subseteq Nat BY UpdateAssumption, FS_Subset, ReleaseFacts
<1>2. \E r \in S : \A s \in S : s <= r BY <1>1, LargestOf
<1>. QED BY <1>2 DEF Newest

LEMMA HousekeepingReads ==
  ASSUME UpdateInv, PlanHousekeeping
  PROVE  UpdateInv' /\ StepIsSafe
<1>0. UpdateTypes /\ DataOK BY DEF UpdateInv
<1>1. UNCHANGED <<installed, current, unitsOf, toolsOf, coreIs, data, snapshot, update, told>>
  BY DEF PlanHousekeeping
<1>2. update' = NoUpdate BY <1>0, <1>1, IdleIsNone DEF PlanHousekeeping
<1>. DEFINE capable == {r \in CoreReleases : RollbackCapable(r)}
<1>3. PICK back : plan' = [active |-> current, rollback |-> back]
                  /\ back = IF capable = {} THEN {} ELSE {Newest(capable)}
  BY DEF PlanHousekeeping
<1>4. current \in CoreReleases /\ current \in Nat BY <1>0, ReleaseFacts DEF UpdateTypes
<1>5. back \subseteq capable /\ (back = {} => capable = {})
  <2>1. capable \in SUBSET CoreReleases OBVIOUS
  <2>2. capable # {} => Newest(capable) \in capable BY <2>1, NewestIsOne
  <2>. HIDE DEF capable
  <2>. QED BY <1>3, <2>2
<1>6. \A q \in back : IsWhole(q)' /\ q # current /\ SchemaOf(q) = SchemaOf(current)
  BY <1>1, <1>5 DEF RollbackCapable, IsWhole
<1>7. back = {} => \A r \in CoreReleases :
        IsWhole(r)' /\ SchemaOf(r) = SchemaOf(current) => r >= current
  BY <1>1, <1>4, <1>5 DEF RollbackCapable, IsWhole
<1>8. plan'.active = current /\ plan'.rollback = back BY <1>3
<1>9. PlanOK' BY <1>1, <1>2, <1>4, <1>6, <1>7, <1>8 DEF PlanOK
<1>10. plan' \in [active : Origins, rollback : SUBSET CoreReleases]
  BY <1>3, <1>4, <1>5 DEF Origins
<1>11. UpdateTypes' BY <1>0, <1>1, <1>10 DEF UpdateTypes
<1>12. DataOK' BY <1>0, <1>1 DEF DataOK, IsWhole
<1>13. UpdateInv' BY <1>2, <1>9, <1>11, <1>12 DEF UpdateInv, RunOK
<1>. QED BY <1>1, <1>13, QuietStep DEF Unreported

LEMMA HousekeepingDeletes ==
  ASSUME UpdateInv, NEW gone \in SUBSET CoreReleases, NEW left \in {"absent", "broken"},
         Housekeep(gone, left)
  PROVE  UpdateInv' /\ StepIsSafe
<1>0. UpdateTypes /\ DataOK /\ PlanOK BY DEF UpdateInv
<1>1. /\ UNCHANGED <<current, unitsOf, toolsOf, coreIs, data, snapshot, update, told>>
      /\ plan # NoPlan /\ plan' = NoPlan /\ current = plan.active
  BY DEF Housekeep, PlanIsCurrent
<1>2. update' = NoUpdate BY <1>0, <1>1, IdleIsNone DEF Housekeep
<1>3. installed' = [r \in CoreReleases |->
        IF r \notin gone THEN installed[r] ELSE IF r = Newest(gone) THEN left ELSE "absent"]
  BY DEF Housekeep
<1>4. installed' \in [CoreReleases -> {"absent", "whole", "broken"}]
  BY <1>0, <1>3 DEF UpdateTypes
<1>5. \A r \in CoreReleases : r \notin gone => installed'[r] = installed[r] BY <1>3
<1>6. \A r \in gone : r < current /\ r \notin plan.rollback
  BY <1>1 DEF Housekeep, Removable
<1>7. current \in CoreReleases /\ current \in Nat BY <1>0, ReleaseFacts DEF UpdateTypes
<1>8. current \notin gone BY <1>6, <1>7
<1>9. DataOK' BY <1>0, <1>1, <1>5, <1>7, <1>8 DEF DataOK, IsWhole
<1>10. RollbackIsKept
  <2>1. SUFFICES ASSUME NEW r \in CoreReleases, RollbackCapable(r)
                 PROVE  \E q \in CoreReleases : RollbackCapable(q)'
    BY DEF RollbackIsKept
  <2>2. CASE plan.rollback = {}
    <3>1. r >= current BY <1>0, <1>1, <2>1, <2>2 DEF PlanOK, RollbackCapable, IsWhole
    <3>2. r \notin gone
      <4>1. r \in Nat BY <2>1, ReleaseFacts
      <4>. QED BY <1>6, <1>7, <3>1, <4>1
    <3>. QED BY <1>1, <1>5, <2>1, <3>2 DEF RollbackCapable
  <2>3. CASE plan.rollback # {}
    <3>1. PICK q \in plan.rollback : TRUE BY <2>3
    <3>2. q \in CoreReleases /\ q \notin gone /\ installed[q] = "whole" /\ q # current
          /\ SchemaOf(q) = SchemaOf(current)
      BY <1>0, <1>1, <1>6, <3>1 DEF PlanOK, IsWhole
    <3>. QED BY <1>1, <1>5, <3>2 DEF RollbackCapable
  <2>. QED BY <2>2, <2>3
<1>11. NoPlan \in [active : Origins, rollback : SUBSET CoreReleases] BY DEF NoPlan, Origins
<1>12. UpdateTypes' BY <1>0, <1>1, <1>4, <1>11 DEF UpdateTypes
<1>13. PlanOK' BY <1>1 DEF PlanOK
<1>14. UpdateInv' BY <1>2, <1>9, <1>12, <1>13 DEF UpdateInv, RunOK
<1>15. HostStarts' BY <1>9, <1>12, ReleaseFacts DEF DataOK, HostStarts, IsWhole, UpdateTypes
<1>. QED BY <1>1, <1>10, <1>14, <1>15 DEF StepIsSafe, ReportsAreTrue

LEMMA UpdateInvStarts == UpdateInit => UpdateInv
<1>1. SUFFICES ASSUME UpdateInit PROVE UpdateInv OBVIOUS
<1>2. current \in CoreReleases /\ current \in Nat /\ SchemaOf(current) \in Nat
      /\ SchemaOf(current) # 0
  BY <1>1, ReleaseFacts DEF UpdateInit
<1>3. UpdateTypes
  BY <1>1, <1>2 DEF UpdateInit, UpdateTypes, Origins, CoreStates, NoCopy, NoPlan
<1>4. DataOK BY <1>1, <1>2 DEF UpdateInit, DataOK, IsWhole
<1>. QED BY <1>1, <1>3, <1>4 DEF UpdateInit, UpdateInv, RunOK, PlanOK

LEMMA UpdateStep ==
  ASSUME UpdateInv, UpdateNext
  PROVE  UpdateInv' /\ StepIsSafe
<1>1. ASSUME NEW r \in CoreReleases, Update(r) \/ StageRelease(r) \/ Migrate(r) \/ RollBack(r)
      PROVE  UpdateInv' /\ StepIsSafe
  BY <1>1, NewReleaseRuns, ReleaseIsStaged, OldReleaseRuns
<1>2. ASSUME NEW works \in BOOLEAN,
             \/ Snapshot(works) \/ UnitsFail(works) \/ CommitSnapshot(works)
             \/ SwitchLink(works) \/ LinkBack(works)
      PROVE  UpdateInv' /\ StepIsSafe
  <2>1. CASE CommitSnapshot(works) BY <2>1, SnapshotIsCommitted
  <2>2. CASE works = TRUE /\ (Snapshot(TRUE) \/ UnitsFail(TRUE))
    BY <2>2, SnapshotIsTaken, RunIsGivenUp
  <2>3. CASE works = FALSE /\ (Snapshot(FALSE) \/ UnitsFail(FALSE)) BY <2>3, RunIsGivenUp
  <2>. QED BY <1>2, <2>1, <2>2, <2>3, LinkIsSwitched, LinkIsBack
<1>3. ASSUME NEW gone \in SUBSET CoreReleases, NEW left \in {"absent", "broken"},
             Housekeep(gone, left)
      PROVE  UpdateInv' /\ StepIsSafe
  BY <1>3, HousekeepingDeletes
<1>4. CASE InstallRefused \/ RestoreFails \/ RepairFails \/ UpdaterKilled
  BY <1>4, RunIsGivenUp
<1>5. CASE InstallUnits \/ UnitsInstalled BY <1>5, UnitsAreReplaced
<1>6. CASE ReplaceTools \/ \E left \in {update.tools, update.to, 0} : ToolsFail(left)
  BY <1>6, ToolsAreReplaced
<1>7. CASE CoreDies \/ SystemdRestarts BY <1>7, CoreComesAndGoes
<1>. QED
  BY <1>1, <1>2, <1>3, <1>4, <1>5, <1>6, <1>7, OldReleaseRuns, ServicesRestart, ToolsAreIn,
     DataIsMoved, DataIsBack, UnitsAreBack, RestoredIsTrue, RefusalIsTrue, PowerIsLost,
     OwnerHelps, HousekeepingReads
  DEF UpdateNext

LEMMA UpdateStutters ==
  ASSUME UpdateInv, UNCHANGED updateVars
  PROVE  UpdateInv'
<1>. USE DEF updateVars
<1>1. UpdateTypes' BY DEF UpdateInv, UpdateTypes
<1>2. DataOK' BY DEF UpdateInv, DataOK, IsWhole
<1>3. RunOK' BY DEF UpdateInv, RunOK, EndsOK, StageOK, CopyOK, BackOK, IsWhole
<1>4. PlanOK' BY DEF UpdateInv, PlanOK, IsWhole
<1>. QED BY <1>1, <1>2, <1>3, <1>4 DEF UpdateInv

\* An update, a migration, a rollback, a restoration or housekeeping may stop anywhere: the
\* release that the link names is there and can open the data; what a run reports without
\* the line CRITICAL is true, as far as its unchecked renames worked; and the release that
\* a rollback would take is kept (deploy/systemd/update-core-release.sh).
THEOREM UpdatesAreSafeAlways == UpdateSpec => UpdatesAreSafe
<1>1. UpdateInv /\ [UpdateNext]_updateVars => UpdateInv' BY UpdateStep, UpdateStutters
<1>2. UpdateInv /\ [UpdateNext]_updateVars
        => [HostStarts' /\ ReportsAreTrue /\ RollbackIsKept]_updateVars
  BY UpdateStep DEF StepIsSafe
<1>. QED BY <1>1, <1>2, UpdateInvStarts, PTL DEF UpdateSpec, UpdatesAreSafe

=============================================================================
