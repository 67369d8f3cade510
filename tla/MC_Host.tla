------------------------------ MODULE MC_Host ------------------------------
(***************************************************************************)
(* Small instances, side by side, of the host's administration tools: the  *)
(* console, the replacement of the tools with the schema migration, the    *)
(* commands that change Core's files, the window's administrator session,  *)
(* the provider accounts and the updates of Core.  A behaviour is a        *)
(* behaviour of one of them, `part`.                                       *)
(***************************************************************************)
EXTENDS AdminConsole, ToolingPair, HostCommands, AdminSession, ProviderAccounts, CoreUpdate

VARIABLE part

\* The second release migrates the schema.
ReleaseSchema(r) == IF r = 1 THEN 1 ELSE 2

hostParts == {"console", "tooling", "commands", "gui", "accounts", "update"}

HostPartInit ==
    /\ ConsoleInit /\ ToolingInit /\ HostInit /\ GuiInit /\ AccountsInit /\ UpdateInit
    /\ part = "console" \/ root = "Overview"
    /\ part = "tooling" \/ (tool = [t \in Tools |-> "old"] /\ settings)
    /\ part = "commands" \/ (persona = NoPersona /\ candidate = CHOOSE p \in Personas : TRUE)
    /\ current = 1

HostPartNext ==
    \/ part = "console" /\ ConsoleNext
         /\ UNCHANGED <<part, toolingVars, hostVars, guiVars, accountsVars, updateVars>>
    \/ part = "tooling" /\ ToolingNext
         /\ UNCHANGED <<part, consoleVars, hostVars, guiVars, accountsVars, updateVars>>
    \/ part = "commands" /\ HostNext
         /\ UNCHANGED <<part, consoleVars, toolingVars, guiVars, accountsVars, updateVars>>
    \/ part = "gui" /\ GuiNext
         /\ UNCHANGED <<part, consoleVars, toolingVars, hostVars, accountsVars, updateVars>>
    \/ part = "accounts" /\ AccountsNext
         /\ UNCHANGED <<part, consoleVars, toolingVars, hostVars, guiVars, updateVars>>
    \/ part = "update" /\ UpdateNext
         /\ UNCHANGED <<part, consoleVars, toolingVars, hostVars, guiVars, accountsVars>>
=============================================================================
