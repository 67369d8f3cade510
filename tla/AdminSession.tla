---------------------------- MODULE AdminSession ----------------------------
(***************************************************************************)
(* The administrator session of the Core Admin application.  The window    *)
(* (session.ts) calls the backend from any number of worker threads; the   *)
(* backend keeps one root broker behind a mutex (session.rs), started by a *)
(* password, that runs one typed operation at a time (admin.rs) and leaves *)
(* when it has been idle too long or its pipe closes.  Migrations, device  *)
(* and worker changes need the session but never use its grant: each asks  *)
(* for a password of its own.  The mutex is not fair, so calls take it in  *)
(* any order.                                                              *)
(***************************************************************************)
EXTENDS Naturals, FiniteSets

CONSTANTS
    CallIds,      \* calls of the window that can be outstanding at once
    BrokerIds,    \* root broker processes
    UiIdle,       \* IDLE_TIMEOUT_MS of the window
    BrokerIdle,         \* IDLE_TIMEOUT of the broker and of the backend's view of it
    MaxBundle,    \* agent bundles installed while the application is used
    MaxEnds       \* brokers that die, and applications that quit

ASSUME SessionAssumption == UiIdle \in Nat \ {0} /\ BrokerIdle \in Nat /\ UiIdle < BrokerIdle

VARIABLES
    ui,       \* the window: SessionState, and the touch it has outstanding
    calls,    \* the backend calls the window has outstanding
    holder,   \* the call that holds the mutex of SessionManager
    slot,     \* its content: a broker and the age of the last activity
    brokers,  \* the broker processes
    halfDone, \* a transaction was killed before it ended
    bundle,   \* the agent bundle that is active
    ends      \* deaths and quits so far

guiVars == <<ui, calls, holder, slot, brokers, halfDone, bundle, ends>>

NoCall == "no call"
NoSession == [broker |-> "none", age |-> 0]
LockedUi == [locked |-> TRUE, authBusy |-> FALSE, idle |-> 0, touchPending |-> FALSE]
FreeCall == [kind |-> "none", op |-> "none", at |-> "free", out |-> "none",
             seen |-> 0, got |-> 0]
FreeBroker == [at |-> "free", age |-> 0, op |-> "none"]

ASSUME NamesAssumption == NoCall \notin CallIds /\ NoSession.broker \notin BrokerIds

\* One class per way an operation runs.  A broker's reads and most changes have a
\* time limit; a persona change has none, nor have a migration and the terminal in
\* which a login or a credential is typed.
BrokerOps == {"limited", "agents", "persona"}
FreshOps == {"migrate", "terminal", "device"}
Transactions == {"persona", "migrate"}
Unbounded == {"persona", "migrate", "terminal"}

GuiInit ==
    /\ ui = LockedUi
    /\ calls = [c \in CallIds |-> FreeCall]
    /\ holder = NoCall
    /\ slot = NoSession
    /\ brokers = [b \in BrokerIds |-> FreeBroker]
    /\ halfDone = FALSE
    /\ bundle = 1
    /\ ends = 0

FreeCalls == {c \in CallIds : calls[c].at = "free"}
Queued(kind, op) == [FreeCall EXCEPT !.kind = kind, !.op = op, !.at = "queued"]
Returned(c, out) == [calls[c] EXCEPT !.at = "returned", !.out = out]
\* Fault: a lock closes the session without waiting for the request that runs.
WaitingUnlessLock(c, kind) ==
    calls[c].at = "queued" /\ calls[c].kind = kind /\ (holder = NoCall \/ kind = "lock")

\* lock_slot: whatever a call does to the session, it waits for the mutex.
Waiting(c, kind) == calls[c].at = "queued" /\ calls[c].kind = kind /\ holder = NoCall

-----------------------------------------------------------------------------
\* The window.

\* unlock: the button is disabled while an authentication is outstanding.
Unlock(c) ==
    /\ ui.locked /\ ~ui.authBusy
    /\ ui' = [ui EXCEPT !.authBusy = TRUE]
    /\ calls' = [calls EXCEPT ![c] = Queued("auth", "none")]
    /\ UNCHANGED <<holder, slot, brokers, halfDone, bundle, ends>>

\* lock: the owner's button, or checkIdle after UiIdle.
LockUi(c) ==
    /\ ~ui.locked
    /\ ui' = [ui EXCEPT !.locked = TRUE]
    /\ calls' = [calls EXCEPT ![c] = Queued("lock", "none")]
    /\ UNCHANGED <<holder, slot, brokers, halfDone, bundle, ends>>

\* recordActivity before the idle limit (after it, the window locks instead); the
\* broker is told unless a touch is outstanding or a recent one is enough.
RecordActivity(c) ==
    /\ ~ui.locked /\ ui.idle < UiIdle
    /\ \E touches \in IF ui.touchPending THEN {FALSE} ELSE BOOLEAN :
         /\ ui' = [ui EXCEPT !.idle = 0, !.touchPending = @ \/ touches]
         /\ calls' = IF touches THEN [calls EXCEPT ![c] = Queued("touch", "none")] ELSE calls
    /\ UNCHANGED <<holder, slot, brokers, halfDone, bundle, ends>>

\* A view of the unlocked window calls one of the backend's commands.
Operate(c) ==
    /\ ~ui.locked
    /\ \E op \in BrokerOps \cup FreshOps :
         calls' = [calls EXCEPT ![c] = Queued(IF op \in BrokerOps THEN "run" ELSE "fresh", op)]
    /\ UNCHANGED <<ui, holder, slot, brokers, halfDone, bundle, ends>>

\* Arguments that do not pass validation fail the call, here or in the broker,
\* before anything runs.
RefuseArguments(c) ==
    /\ calls[c].at = "queued" /\ calls[c].kind \in {"run", "fresh"}
    /\ calls' = [calls EXCEPT ![c] = Returned(c, "failed")]
    /\ UNCHANGED <<ui, holder, slot, brokers, halfDone, bundle, ends>>

\* restart_app, from the restart gate of an unlocked or a locked window.
RestartApp(c) ==
    /\ ends < MaxEnds
    /\ calls' = [calls EXCEPT ![c] = Queued("restart", "none")]
    /\ UNCHANGED <<ui, holder, slot, brokers, halfDone, bundle, ends>>

-----------------------------------------------------------------------------
\* SessionManager: what a call does once it holds the mutex.

\* close: the broker reads Shutdown, or had left already; one that does not leave
\* is killed.
Closed(b) == [brokers EXCEPT ![b] = FreeBroker]

\* The step ends a broker in the middle of a transaction.
CutsTransaction ==
    \E b \in BrokerIds : /\ brokers[b].at = "busy" /\ brokers[b].op \in Transactions
                         /\ brokers'[b].at # "busy"
Notes == halfDone' = (halfDone \/ CutsTransaction)

Expired == slot # NoSession /\ slot.age >= BrokerIdle
\* close_slot of an expired session, the first thing authenticate and
\* active_broker do: the slot and the brokers after it.
SlotNow == IF Expired THEN NoSession ELSE slot
BrokersNow == IF Expired THEN Closed(slot.broker) ELSE brokers

NewBroker == CHOOSE b \in BrokerIds : BrokersNow[b].at = "free"

\* touch: the broker answers Ack, and both sides start a new idle window.
Touched(c) ==
    IF BrokersNow[SlotNow.broker].at = "idle"
    THEN /\ slot' = [SlotNow EXCEPT !.age = 0]
         /\ brokers' = [BrokersNow EXCEPT ![SlotNow.broker].age = 0]
         /\ calls' = [calls EXCEPT ![c] = Returned(c, "ok")]
    ELSE /\ slot' = SlotNow /\ brokers' = BrokersNow
         /\ calls' = [calls EXCEPT ![c] = Returned(c, "failed")]

\* authenticate: a session that has not expired is used again; otherwise pkexec
\* asks for the password, with the mutex held.
Authenticate(c) ==
    /\ Waiting(c, "auth")
    /\ \/ SlotNow # NoSession /\ Touched(c) /\ UNCHANGED holder
       \/ /\ SlotNow = NoSession
          /\ slot' = NoSession
          /\ \E b \in BrokerIds : BrokersNow[b].at = "free"
          /\ brokers' = [BrokersNow EXCEPT ![NewBroker].at = "prompt"]
          /\ calls' = [calls EXCEPT ![c].at = "starting"]
          /\ holder' = c
    /\ Notes
    /\ UNCHANGED <<ui, bundle, ends>>

\* BrokerSession::start reads the greeting, and authenticate touches; or the
\* dialog is cancelled, or an executable is not to be trusted.
Started(c) ==
    /\ calls[c].at = "starting"
    /\ \E b \in BrokerIds :
         /\ brokers[b].at = "prompt"
         /\ \/ /\ slot' = [broker |-> b, age |-> 0]
               /\ brokers' = [brokers EXCEPT ![b].at = "idle", ![b].age = 0]
               /\ calls' = [calls EXCEPT ![c] = Returned(c, "ok")]
            \/ /\ brokers' = Closed(b)
               /\ calls' = [calls EXCEPT ![c] = Returned(c, "failed")]
               /\ UNCHANGED slot
    /\ holder' = NoCall
    /\ UNCHANGED <<ui, halfDone, bundle, ends>>

\* touch and require_active need an active broker; the latter only asks, and its
\* caller goes on to pkexec without the mutex.
TouchBroker(c) ==
    /\ Waiting(c, "touch")
    /\ IF SlotNow # NoSession THEN Touched(c)
       ELSE /\ slot' = NoSession /\ brokers' = BrokersNow
            /\ calls' = [calls EXCEPT ![c] = Returned(c, "failed")]
    /\ Notes
    /\ UNCHANGED <<ui, holder, bundle, ends>>

RequireActive(c) ==
    /\ Waiting(c, "fresh")
    /\ slot' = SlotNow /\ brokers' = BrokersNow
    /\ calls' = [calls EXCEPT ![c] = IF SlotNow = NoSession THEN Returned(c, "failed")
                                     ELSE [calls[c] EXCEPT !.at = "asking"]]
    /\ Notes
    /\ UNCHANGED <<ui, holder, bundle, ends>>

\* lock, also the first half of restart_app.
LockSession(c) ==
    /\ Waiting(c, "lock") \/ Waiting(c, "restart")
    /\ slot' = NoSession
    /\ brokers' = IF slot = NoSession THEN brokers ELSE Closed(slot.broker)
    /\ calls' = [calls EXCEPT ![c] = Returned(c, "ok")]
    /\ Notes
    /\ UNCHANGED <<ui, holder, bundle, ends>>

\* run: the request is written to the broker and the mutex kept until it answers;
\* a broker that has left fails the call and stays in the slot.
Run(c) ==
    /\ Waiting(c, "run")
    /\ slot' = SlotNow
    /\ IF SlotNow # NoSession /\ BrokersNow[SlotNow.broker].at = "idle"
       THEN /\ brokers' = [BrokersNow EXCEPT ![SlotNow.broker] =
                             [at |-> "busy", age |-> 0, op |-> calls[c].op]]
            /\ calls' = [calls EXCEPT ![c].at = "running"]
            /\ holder' = c
       ELSE /\ brokers' = BrokersNow
            /\ calls' = [calls EXCEPT ![c] = Returned(c, "failed")]
            /\ UNCHANGED holder
    /\ Notes
    /\ UNCHANGED <<ui, bundle, ends>>

-----------------------------------------------------------------------------
\* The broker and the operations.

\* agents reads the bundle and then, in a second request, the manifest, and
\* refuses a manifest of another bundle.
ManifestAgrees(seen, now) == seen = now

\* The answer of a run: what its caller does with it.
Answered(c, out) ==
    IF out # "ok" \/ calls[c].op # "agents" THEN Returned(c, out)
    ELSE CASE calls[c].seen = 0 -> [calls[c] EXCEPT !.at = "queued", !.seen = bundle]
           [] calls[c].seen # 0 /\ ManifestAgrees(calls[c].seen, bundle) ->
                [Returned(c, "ok") EXCEPT !.got = bundle]
           [] OTHER -> Returned(c, "failed")

\* The broker answers: both sides start a new idle window.  One whose application
\* has gone cannot write its answer, and leaves.
BrokerAnswers(b, out) ==
    /\ holder' = IF slot.broker = b THEN NoCall ELSE holder
    /\ IF slot.broker = b
       THEN /\ brokers' = [brokers EXCEPT ![b] = [FreeBroker EXCEPT !.at = "idle"]]
            /\ slot' = [slot EXCEPT !.age = 0]
            /\ calls' = [calls EXCEPT ![holder] = Answered(holder, out)]
       ELSE brokers' = Closed(b) /\ UNCHANGED <<slot, calls>>

\* A persona change that was undone is told apart from one that failed.
Outcomes(op) == IF op = "persona" THEN {"ok", "failed", "restored"} ELSE {"ok", "failed"}

\* run_checked_command: the child ends, with success or not,
OperationEnds(b) ==
    /\ brokers[b].at = "busy"
    /\ \E out \in Outcomes(brokers[b].op) : BrokerAnswers(b, out)
    /\ UNCHANGED <<ui, halfDone, bundle, ends>>

\* or its limit has passed and the root broker kills it.
OperationTimesOut(b) ==
    /\ brokers[b].at = "busy" /\ brokers[b].op \notin Unbounded
    /\ BrokerAnswers(b, "timed out") /\ Notes
    /\ UNCHANGED <<ui, bundle, ends>>

\* wait_for_input times out after the idle window.
BrokerTimesOut(b) ==
    /\ brokers[b].at = "idle" /\ brokers[b].age >= BrokerIdle
    /\ brokers' = Closed(b)
    /\ UNCHANGED <<ui, calls, holder, slot, halfDone, bundle, ends>>

\* The broker process dies; what it runs goes on without it, and a call that waits
\* for its answer reads the end of the pipe.
BrokerDies(b) ==
    /\ brokers[b].at \in {"idle", "busy"} /\ ends < MaxEnds
    /\ ends' = ends + 1
    /\ brokers' = Closed(b)
    /\ IF slot.broker = b /\ brokers[b].at = "busy"
       THEN calls' = [calls EXCEPT ![holder] = Returned(holder, "failed")] /\ holder' = NoCall
       ELSE UNCHANGED <<calls, holder>>
    /\ UNCHANGED <<ui, slot, halfDone, bundle>>

\* pkexec of a migration, a device or a worker change: a password of its own.
Authorise(c) ==
    /\ calls[c].at = "asking"
    /\ calls' = [calls EXCEPT ![c] = [@ EXCEPT !.at = "child"]]
    /\ UNCHANGED <<ui, holder, slot, brokers, halfDone, bundle, ends>>

RefusePassword(c) ==
    /\ calls[c].at = "asking"
    /\ calls' = [calls EXCEPT ![c] = Returned(c, "failed")]
    /\ UNCHANGED <<ui, holder, slot, brokers, halfDone, bundle, ends>>

\* The limit passes: a dialog can be killed; a child that runs as root cannot, so
\* the call waits for its end and reports the limit whatever came of it.
FreshTimesOut(c) ==
    /\ calls[c].at \in {"asking", "child"} /\ calls[c].op \notin Unbounded
    /\ calls' = [calls EXCEPT ![c] = IF @.at = "asking" THEN Returned(c, "timed out")
                                     ELSE [@ EXCEPT !.at = "late"]]
    /\ UNCHANGED <<ui, holder, slot, brokers, halfDone, bundle, ends>>

FreshEnds(c) ==
    /\ calls[c].at \in {"child", "late"}
    /\ \E out \in IF calls[c].at = "late" THEN {"timed out"} ELSE {"ok", "failed"} :
         calls' = [calls EXCEPT ![c] = Returned(c, out)]
    /\ UNCHANGED <<ui, holder, slot, brokers, halfDone, bundle, ends>>

\* An agent update, from here or from a terminal.
BundleMoves ==
    /\ bundle < MaxBundle
    /\ bundle' = bundle + 1
    /\ UNCHANGED <<ui, calls, holder, slot, brokers, halfDone, ends>>

-----------------------------------------------------------------------------
\* The application ends: its calls go with it, an idle broker or a dialog sees the
\* end of its pipe, and a busy broker finishes first.
AppEnds ==
    /\ ends' = ends + 1
    /\ ui' = LockedUi
    /\ calls' = [c \in CallIds |-> FreeCall]
    /\ holder' = NoCall
    /\ slot' = NoSession
    /\ brokers' = [b \in BrokerIds |-> IF brokers[b].at = "busy" THEN brokers[b] ELSE FreeBroker]
    /\ Notes
    /\ UNCHANGED bundle

Quit == ends < MaxEnds /\ AppEnds

\* The window takes the result of a call.
UiAfter(call) ==
    CASE call.kind = "auth" ->
           IF call.out = "ok" THEN [ui EXCEPT !.locked = FALSE, !.authBusy = FALSE, !.idle = 0]
           ELSE [ui EXCEPT !.locked = TRUE, !.authBusy = FALSE]
      [] call.kind = "touch" ->
           [ui EXCEPT !.touchPending = FALSE, !.locked = @ \/ call.out # "ok"]
      [] OTHER -> ui

\* A touch that failed locks the window, unless it is locked.
CallAfter(call) == IF call.kind = "touch" /\ call.out # "ok" /\ ~ui.locked
                   THEN Queued("lock", "none") ELSE FreeCall

Resolve(c) ==
    /\ calls[c].at = "returned"
    /\ IF calls[c].kind = "restart" THEN ends < MaxEnds /\ AppEnds
       ELSE /\ ui' = UiAfter(calls[c])
            /\ calls' = [calls EXCEPT ![c] = CallAfter(calls[c])]
            /\ UNCHANGED <<holder, slot, brokers, halfDone, bundle, ends>>

Older(age, most) == IF age < most THEN age + 1 ELSE age
SessionTick ==
    /\ ui' = [ui EXCEPT !.idle = IF ui.locked THEN @ ELSE Older(@, UiIdle)]
    /\ slot' = IF slot = NoSession THEN slot ELSE [slot EXCEPT !.age = Older(@, BrokerIdle)]
    /\ brokers' = [b \in BrokerIds |->
                     IF brokers[b].at = "idle" THEN [brokers[b] EXCEPT !.age = Older(@, BrokerIdle)]
                     ELSE brokers[b]]
    /\ UNCHANGED <<calls, holder, halfDone, bundle, ends>>

GuiNext ==
    \/ \E c \in FreeCalls :
         Unlock(c) \/ LockUi(c) \/ RecordActivity(c) \/ Operate(c) \/ RestartApp(c)
    \/ \E c \in CallIds : \/ Authenticate(c) \/ Started(c) \/ TouchBroker(c) \/ RequireActive(c)
                          \/ LockSession(c) \/ Run(c) \/ Resolve(c) \/ RefuseArguments(c)
                          \/ Authorise(c) \/ RefusePassword(c) \/ FreshTimesOut(c) \/ FreshEnds(c)
    \/ \E b \in BrokerIds : \/ OperationEnds(b) \/ OperationTimesOut(b)
                            \/ BrokerTimesOut(b) \/ BrokerDies(b)
    \/ BundleMoves \/ Quit \/ SessionTick

GuiSpec == GuiInit /\ [][GuiNext]_guiVars

-----------------------------------------------------------------------------
\* A change that must not be left half done goes on to its end, whatever locks,
\* expires, times out, restarts or quits while it runs, and a call that runs has the
\* session to itself until the broker answers it (MIGRATE_WAIT, persona_request that
\* uses it, lock_slot around every use of the broker).
TransactionsAreKept ==
    /\ ~halfDone
    /\ \A c \in CallIds : calls[c].at = "running" =>
         /\ holder = c /\ slot # NoSession
         /\ brokers[slot.broker].at = "busy" /\ brokers[slot.broker].op = calls[c].op

\* A root broker waits for requests only in the slot of a running application, and
\* not behind a locked window once the window's calls have returned (close_slot).
GrantIsHeld ==
    /\ \A b \in BrokerIds : brokers[b].at = "idle" => slot.broker = b
    /\ ui.locked /\ FreeCalls = CallIds => \A b \in BrokerIds : brokers[b].at # "idle"

\* The agents view never shows the manifest of one bundle under the name of another
\* (safe_agent_records).
PageIsOneBundle == \A c \in CallIds :
    calls[c].op = "agents" /\ calls[c].out = "ok" => calls[c].seen = calls[c].got

\* The administrator session is sound: transactions are kept, no grant outlives its
\* window, and what two requests read is shown together only when it agrees.
SessionIsSound == TransactionsAreKept /\ GrantIsHeld /\ PageIsOneBundle
=============================================================================
