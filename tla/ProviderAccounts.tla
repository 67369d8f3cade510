-------------------------- MODULE ProviderAccounts --------------------------
(***************************************************************************)
(* `jarvis accounts`: the official command line clients of two providers,  *)
(* their logins and their worker units, changed from several terminals.    *)
(* Installing and rolling back a client takes one lock for both providers, *)
(* because their work directories lie in one directory that every command  *)
(* sweeps; connect, disconnect and the worker commands take none.  A       *)
(* command may be killed at any step.                                      *)
(***************************************************************************)
EXTENDS Naturals

CONSTANTS
    Consoles,    \* terminals the commands run in
    Clients,     \* the providers: "claude", "codex"
    Builds,      \* published versions, all of them reviewed
    MaxCuts      \* commands that are killed

VARIABLES
    files,     \* of each provider: the runtime and the copy for a rollback
    litter,    \* work directories, by the terminal that made them
    runtimeLock, \* the terminal that holds LOCK
    jobs,      \* the command of each terminal
    workerUnits,     \* the Claude socket, its resident service, a prompt it runs
    login,     \* the Claude worker is logged in
    cuts,      \* kills so far
    halved       \* providers whose two files a kill left in between

accountsVars == <<files, litter, runtimeLock, jobs, workerUnits, login, cuts, halved>>

None == "none"
Legacy == "legacy"     \* a runtime from before the verified installer
Wrong == "wrong"       \* bytes that are of no published version

ASSUME AccountsAssumption == None \notin Consoles \cup Builds

NoJob == [cmd |-> "none", of |-> "none", at |-> "free", want |-> None, got |-> None,
          beside |-> FALSE]

AccountsInit ==
    /\ files = [p \in Clients |-> [target |-> IF p = "claude" THEN Legacy ELSE None,
                                previous |-> None]]
    /\ litter = {}
    /\ runtimeLock = None
    /\ jobs = [t \in Consoles |-> NoJob]
    /\ workerUnits = [socket |-> FALSE, service |-> FALSE, prompt |-> FALSE]
    /\ login = FALSE
    /\ cuts = 0
    /\ halved = {}

JobAt(t, cmd, at) == jobs[t].cmd = cmd /\ jobs[t].at = at
GoTo(t, at) == jobs' = [jobs EXCEPT ![t].at = at]

\* run and audited: the attempt is recorded before anything else; without the
\* record there is no command.
BeginAccount(t) ==
    /\ jobs[t].at = "free"
    /\ \E p \in Clients, want \in Builds,
          cmd \in {"install", "rollback", "connect", "enable", "disable", "disconnect"} :
         /\ cmd \notin {"install", "rollback"} => p = "claude"
         /\ cmd # "install" => want = CHOOSE v \in Builds : TRUE
         /\ jobs' = [jobs EXCEPT ![t] = [NoJob EXCEPT !.cmd = cmd, !.of = p,
                                                      !.at = "begun", !.want = want]]
    /\ UNCHANGED <<files, litter, runtimeLock, workerUnits, login, cuts, halved>>

\* The command ends, with its outcome in the audit log; temporary files go with it.
Over(t) ==
    /\ jobs' = [jobs EXCEPT ![t] = NoJob]
    /\ litter' = litter \ {t}
    /\ runtimeLock' = IF runtimeLock = t THEN None ELSE runtimeLock

\* Between the two renames of an install or a rollback.
InWindow(t) == jobs[t].cmd \in {"install", "rollback"} /\ jobs[t].at \in {"kept", "renamed"}

\* A host tool that is not root's, a download that fails or is too large, a
\* signature that is not the pinned key's, an unsafe directory: the command stops.
Stop(t) ==
    /\ jobs[t].at \notin {"free", "renamed", "undo"}
    /\ Over(t)
    /\ halved' = IF InWindow(t) THEN halved \cup {jobs[t].of} ELSE halved
    /\ UNCHANGED <<files, workerUnits, login, cuts>>

Cut(t) ==
    /\ jobs[t].at # "free" /\ cuts < MaxCuts
    /\ cuts' = cuts + 1
    /\ jobs' = [jobs EXCEPT ![t] = NoJob]
    /\ runtimeLock' = IF runtimeLock = t THEN None ELSE runtimeLock
    /\ halved' = IF InWindow(t) THEN halved \cup {jobs[t].of} ELSE halved
    /\ UNCHANGED <<files, litter, workerUnits, login>>

-----------------------------------------------------------------------------
\* Fault: each provider's commands exclude only each other.
LockFreePerProvider(t) ==
    IF runtimeLock = None THEN TRUE ELSE jobs[runtimeLock].of # jobs[t].of

\* mutation_lock on the one path both providers share: busy is an error.
LockFree(t) == runtimeLock = None

\* remove_stale: under the lock every work directory is somebody's leftover.
Swept == {}

\* check_destination, then work_directory; a rollback needs a previous runtime.
PrepareRuntime(t) ==
    /\ JobAt(t, "install", "begun") \/ JobAt(t, "rollback", "begun")
    /\ LockFree(t)
    /\ jobs[t].cmd = "rollback" => files[jobs[t].of].previous # None
    /\ runtimeLock' = t
    /\ IF jobs[t].cmd = "install"
       THEN litter' = Swept \cup {t} /\ GoTo(t, "fetching")
       ELSE /\ litter' = Swept
            /\ jobs' = [jobs EXCEPT ![t].at = "staging", ![t].got = files[jobs[t].of].previous]
    /\ UNCHANGED <<files, workerUnits, login, cuts, halved>>

\* Claude: the manifest carries the pinned key's signature and names the version.
VerifyManifest(t) ==
    /\ JobAt(t, "install", "fetching") /\ jobs[t].of = "claude"
    /\ GoTo(t, "verified")
    /\ UNCHANGED <<files, litter, runtimeLock, workerUnits, login, cuts, halved>>

\* Codex: metadata, bundle and archive are downloaded, and the one file of the
\* archive is verified by cosign, before anything is compared.
VerifyRelease(t) ==
    /\ JobAt(t, "install", "fetching") /\ jobs[t].of = "codex"
    /\ jobs' = [jobs EXCEPT ![t].at = "verified", ![t].got = jobs[t].want]
    /\ UNCHANGED <<files, litter, runtimeLock, workerUnits, login, cuts, halved>>

\* installed_matches: the version that is installed already is left alone, and so
\* is the copy of the one before it.
Matches(t) == files[jobs[t].of].target = jobs[t].want

KeepInstalled(t) ==
    /\ JobAt(t, "install", "verified") /\ Matches(t)
    /\ Over(t)
    /\ UNCHANGED <<files, workerUnits, login, cuts, halved>>

\* The client itself is fetched (Codex has it already).
Download(t) ==
    /\ JobAt(t, "install", "verified") /\ ~Matches(t)
    /\ \E bytes \in IF jobs[t].of = "codex" THEN {jobs[t].got} ELSE Builds \cup {Wrong} :
         jobs' = [jobs EXCEPT ![t].at = "staging", ![t].got = bytes]
    /\ UNCHANGED <<files, litter, runtimeLock, workerUnits, login, cuts, halved>>

\* replace_target copies to a stage and compares what it copied; a rollback
\* restores whatever it has.
Genuine(t) == jobs[t].cmd = "install" => jobs[t].got = jobs[t].want

Stage(t) ==
    /\ jobs[t].at = "staging" /\ Genuine(t)
    /\ GoTo(t, "staged")
    /\ UNCHANGED <<files, litter, runtimeLock, workerUnits, login, cuts, halved>>

\* keep_previous: an install first copies the runtime it replaces.
KeepPrevious(t) ==
    /\ JobAt(t, "install", "staged") /\ files[jobs[t].of].target # None
    /\ files' = [files EXCEPT ![jobs[t].of].previous = files[jobs[t].of].target]
    /\ GoTo(t, "kept")
    /\ halved' = halved \ {jobs[t].of}
    /\ UNCHANGED <<litter, runtimeLock, workerUnits, login, cuts>>

\* The rename into place.
ActivateRuntime(t) ==
    /\ \/ JobAt(t, "install", "kept") \/ JobAt(t, "rollback", "staged")
       \/ JobAt(t, "install", "staged") /\ files[jobs[t].of].target = None
    /\ files' = [files EXCEPT ![jobs[t].of].target = jobs[t].got]
    /\ IF jobs[t].cmd = "install" THEN Over(t)
       ELSE GoTo(t, "renamed") /\ UNCHANGED <<litter, runtimeLock>>
    /\ UNCHANGED <<workerUnits, login, cuts, halved>>

\* rollback: the copy has been restored and is removed, or cannot be.
ForgetPrevious(t) ==
    /\ JobAt(t, "rollback", "renamed")
    /\ \/ /\ files' = [files EXCEPT ![jobs[t].of].previous = None]
          /\ halved' = halved \ {jobs[t].of}
       \/ UNCHANGED files /\ halved' = halved \cup {jobs[t].of}
    /\ Over(t)
    /\ UNCHANGED <<workerUnits, login, cuts>>

-----------------------------------------------------------------------------
\* Logins and worker workerUnits, without a lock.

\* ensure_claude_runtime_compatible: the client's version is a reviewed one.
Compatible == files["claude"].target \in Builds

\* connect: the client's own login, then its status is asked.
Connect(t) ==
    /\ JobAt(t, "connect", "begun") /\ Compatible
    /\ login' = TRUE
    /\ Over(t)
    /\ UNCHANGED <<files, workerUnits, cuts, halved>>

\* worker enable: release, login and version are checked first,
EnableChecked(t) ==
    /\ JobAt(t, "enable", "begun") /\ login /\ Compatible
    /\ GoTo(t, "checked")
    /\ UNCHANGED <<files, litter, runtimeLock, workerUnits, login, cuts, halved>>

\* systemctl enable --now, which may fail having enabled the socket or not;
\* a disconnection it passes is marked.
EnableSocket(t) ==
    /\ JobAt(t, "enable", "checked")
    /\ \E up, ok \in BOOLEAN :
         /\ workerUnits' = [workerUnits EXCEPT !.socket = @ \/ up]
         /\ jobs' = [u \in Consoles |->
                       IF u = t THEN [jobs[t] EXCEPT !.at = IF ok /\ up THEN "enabled" ELSE "undo"]
                       ELSE IF jobs[u].cmd = "disconnect" THEN [jobs[u] EXCEPT !.beside = TRUE]
                       ELSE jobs[u]]
    /\ UNCHANGED <<files, litter, runtimeLock, login, cuts, halved>>

\* runtime_state after it: a socket that is not there is taken back too.
EnableVerify(t) ==
    /\ JobAt(t, "enable", "enabled")
    /\ IF workerUnits.socket \/ workerUnits.service THEN Over(t)
       ELSE GoTo(t, "undo") /\ UNCHANGED <<litter, runtimeLock>>
    /\ UNCHANGED <<files, workerUnits, login, cuts, halved>>

\* The undo's own failures are ignored.
EnableUndo(t) ==
    /\ JobAt(t, "enable", "undo")
    /\ \E steps \in 0..2 :
         workerUnits' = [socket |-> workerUnits.socket /\ steps = 0,
                         service |-> workerUnits.service /\ steps < 2,
                         prompt |-> workerUnits.prompt /\ steps < 2]
    /\ Over(t)
    /\ UNCHANGED <<files, login, cuts, halved>>

\* stop_subscription_runtime: first the socket, then the service and its prompt.
StopSocket(t) ==
    /\ JobAt(t, "disable", "begun") \/ JobAt(t, "disconnect", "begun")
    /\ workerUnits' = [workerUnits EXCEPT !.socket = FALSE]
    /\ GoTo(t, "unsocketed")
    /\ UNCHANGED <<files, litter, runtimeLock, login, cuts, halved>>

StopService(t) ==
    /\ jobs[t].at = "unsocketed"
    /\ workerUnits' = [workerUnits EXCEPT !.service = FALSE, !.prompt = FALSE]
    /\ IF jobs[t].cmd = "disable" THEN Over(t)
       ELSE GoTo(t, "logout") /\ UNCHANGED <<litter, runtimeLock>>
    /\ UNCHANGED <<files, login, cuts, halved>>

Logout(t) ==
    /\ JobAt(t, "disconnect", "logout")
    /\ login' = FALSE
    /\ Over(t)
    /\ UNCHANGED <<files, workerUnits, cuts, halved>>

\* Core connects to the socket; the worker checks the version and the login and
\* runs the client.
PromptArrives ==
    /\ workerUnits.socket \/ workerUnits.service
    /\ workerUnits' = [workerUnits EXCEPT !.service = workerUnits.socket \/ @,
                              !.prompt = @ \/ (login /\ Compatible)]
    /\ UNCHANGED <<files, litter, runtimeLock, jobs, login, cuts, halved>>

PromptEnds ==
    /\ workerUnits.prompt
    /\ workerUnits' = [workerUnits EXCEPT !.prompt = FALSE]
    /\ UNCHANGED <<files, litter, runtimeLock, jobs, login, cuts, halved>>

AccountsNext ==
    \/ \E t \in Consoles :
         \/ BeginAccount(t) \/ Stop(t) \/ Cut(t) \/ PrepareRuntime(t) \/ VerifyManifest(t)
         \/ VerifyRelease(t) \/ KeepInstalled(t)
         \/ Download(t) \/ Stage(t) \/ KeepPrevious(t) \/ ActivateRuntime(t) \/ ForgetPrevious(t)
         \/ Connect(t) \/ EnableChecked(t) \/ EnableSocket(t) \/ EnableVerify(t)
         \/ EnableUndo(t) \/ StopSocket(t) \/ StopService(t) \/ Logout(t)
    \/ PromptArrives \/ PromptEnds

AccountsSpec == AccountsInit /\ [][AccountsNext]_accountsVars

-----------------------------------------------------------------------------
\* No command takes the work directory of another that still uses it (remove_stale
\* of one provider sweeps the directory of both).
WorkIsKept == \A t \in Consoles :
    jobs[t].cmd = "install" /\ jobs[t].at \in {"fetching", "verified", "staging", "staged", "kept"}
    => t \in litter

\* The runtime in place is a published version or what was there before Jarvis, and
\* the copy kept for a rollback is another one, unless a kill or a failed removal
\* struck between the two renames
\* (replace_target, keep_previous, rollback).
RollbackIsAChange == \A p \in Clients :
    /\ files[p].target \in Builds \cup {Legacy, None}
    /\ files[p].previous \in Builds \cup {Legacy, None}
    /\ files[p].previous = files[p].target /\ files[p].previous # None =>
         p \in halved \/ \E t \in Consoles : InWindow(t) /\ jobs[t].of = p

\* A disconnection removes the login only when no prompt runs under it, unless the
\* socket was enabled meanwhile (disconnect stops the workerUnits first).
LogoutIsQuiet == \A t \in Consoles :
    JobAt(t, "disconnect", "logout") /\ ~jobs[t].beside => ~workerUnits.prompt

\* The provider accounts are sound.
AccountsAreSound == WorkIsKept /\ RollbackIsAChange /\ LogoutIsQuiet
=============================================================================
