---------------------------- MODULE AdminConsole ----------------------------
(***************************************************************************)
(* The administration console of the Home Node: the views, dialogs and     *)
(* helper processes of crates/admin/src/tui_app.rs and the Update Center   *)
(* of crates/admin/src/update_center.rs it hosts.  One thread handles keys *)
(* and polls its children; background threads read what the views show.    *)
(* The helpers are external: they end, or fail, whenever they please.      *)
(***************************************************************************)
EXTENDS Integers, FiniteSets

CONSTANTS Releases,   \* releases the updater may list as rollback candidates
          Roots,      \* the views the console may be started in
          Feeds,      \* what is read in the background: status, agents, ...
          MaxChanges  \* bound: changes of the node's configuration

VARIABLES console,  \* "open" or "closed"
          view,     \* the view shown
          root,     \* the view it was started in
          modal,    \* the dialog on top, or "none"
          job,      \* active: the helper of an AppOperation, or "none"
          logged,   \* some log line is shown
          center,   \* update: the Update Center
          world,    \* the version of the configuration the feeds read
          loads,    \* the background reads: feed and what it saw
          shown,    \* the version each feed last showed
          cut       \* history: what ended a mutating helper before it was done

consoleVars == <<console, view, root, modal, job, logged, center, world, loads, shown, cut>>

ReadOnlyJobs == {"HealthVerification", "AgentCheck", "LogRefresh", "LogFollow"}
Mutating == {"AgentUpdate", "ModelRefresh", "ModelChange"}
CenterMutating == {"Latest", "Version", "Rollback"}
CenterReadOnly == {"Status", "Check", "Candidates"}
Tables == {"Services", "Usage", "Credentials", "System"}
Views == {"Overview", "Update", "Health", "Agents", "Models", "Logs"} \cup Tables
Screens == {"Overview", "Running", "VersionInput", "RollbackSelection", "RollbackConfirm",
            "Result"}
Unread == 0 - 1
NoChoice == "no choice"

NoCenter == [there |-> FALSE, screen |-> "Overview", op |-> "none", child |-> FALSE,
             list |-> {}, chosen |-> NoChoice]

-----------------------------------------------------------------------------
(* Background reads: refresh_status and its like.                          *)

Loading(f) == \E l \in loads : l.feed = f

StartLoads(fs) ==
    loads' = loads \cup {[feed |-> f, saw |-> Unread] : f \in {g \in fs \cap Feeds : ~Loading(g)}}

(* What a view asks for when it is entered and shows nothing yet, and on "r". *)
FeedsOf(v) == CASE v \in {"Overview", "Health"} -> {"status"}
                [] v = "Services" -> {"status", "Services"}
                [] v = "Agents" -> {"status", "Services", "Agents"}
                [] v \in {"Models", "Usage", "Credentials", "System"} -> {v}
                [] OTHER -> {}
RefreshedBy(v) == IF v = "Services" THEN {"Services"} ELSE FeedsOf(v)
Missing(v) == {f \in FeedsOf(v) \cap Feeds : shown[f] = Unread}

ReadFeed(l) ==
    /\ l \in loads /\ l.saw = Unread
    /\ loads' = (loads \ {l}) \cup {[l EXCEPT !.saw = world]}
    /\ UNCHANGED <<console, view, root, modal, job, logged, center, world, shown, cut>>

(* A failed read leaves what is shown and the error line. *)
Receive(l) ==
    /\ console = "open" /\ l \in loads /\ l.saw # Unread
    /\ loads' = loads \ {l}
    /\ shown' \in {shown, [shown EXCEPT ![l.feed] = l.saw]}
    /\ UNCHANGED <<console, view, root, modal, job, logged, center, world, cut>>

Change ==
    /\ world < MaxChanges
    /\ world' = world + 1
    /\ UNCHANGED <<console, view, root, modal, job, logged, center, loads, shown, cut>>

-----------------------------------------------------------------------------
(* Helpers.                                                                 *)

CenterRunsMutation == center.op \in CenterMutating

(* Fault: leaving looks only at the Update Center's operation. *)
MutationRunningInCenter == CenterRunsMutation

MutationRunning == job \in Mutating \/ CenterRunsMutation

(* Drop of the application kills the helpers it still holds. *)
Close(how) ==
    /\ console' = "closed"
    /\ cut' = IF MutationRunning THEN how ELSE cut
    /\ job' = "none"
    /\ center' = [center EXCEPT !.op = "none", !.child = FALSE]
    /\ UNCHANGED <<view, root, modal, logged, world, loads, shown>>

AfterStop == IF job \in Mutating THEN job ELSE "none"

(* start_operation: nothing while a helper runs; a lock that is held, or a
   helper that cannot be started, is shown as a failed result. *)
BeginOperation(running, op, dialog) ==
    \/ running # "none" /\ job' = running /\ modal' = dialog
    \/ running = "none" /\ job' = op /\ modal' = dialog
    \/ running = "none" /\ job' = "none" /\ modal' = "result"

BeginLogs(running, follow) ==
    /\ logged' = (follow /\ logged)
    /\ BeginOperation(running, IF follow THEN "LogFollow" ELSE "LogRefresh", modal)

Running(op) == [center EXCEPT !.there = TRUE, !.screen = "Running", !.op = op, !.child = TRUE]
Ended(screen) == [center EXCEPT !.there = TRUE, !.screen = screen, !.op = "none",
                                !.child = FALSE]

(* An updater that cannot be started is forgotten and shown as a failure. *)
CenterStart(op) == center' \in {Running(op), Ended("Result")}

Enter(v, running) ==
    /\ view' = v
    /\ StartLoads(Missing(v))
    /\ IF v = "Logs" /\ ~logged THEN BeginLogs(running, FALSE)
       ELSE job' = running /\ UNCHANGED <<modal, logged>>
    /\ IF v = "Update" /\ ~center.there THEN CenterStart("Status") ELSE UNCHANGED center
    /\ UNCHANGED <<console, root, world, shown, cut>>

BackOrExit ==
    /\ ~MutationRunning
    /\ IF view = root THEN Close("key") ELSE Enter(root, AfterStop)

-----------------------------------------------------------------------------
(* Keys.                                                                    *)

On(v) == console = "open" /\ modal = "none" /\ view = v

OpenHelp ==
    /\ console = "open" /\ modal = "none" /\ modal' = "help"
    /\ UNCHANGED <<console, view, root, job, logged, center, world, loads, shown, cut>>

(* Ctrl-C in a dialog leaves the application whatever is running. *)
CloseFromDialog == console = "open" /\ modal # "none" /\ Close("dialog")

Dismiss ==
    /\ console = "open" /\ modal # "none" /\ modal' = "none"
    /\ UNCHANGED <<console, view, root, job, logged, center, world, loads, shown, cut>>

Confirm ==
    /\ console = "open"
    /\ \/ modal = "confirmDisable" /\ BeginOperation(job, "ModelChange", "none")
       \/ modal = "confirmRollback" /\ modal' = "result" /\ UNCHANGED job
    /\ UNCHANGED <<console, view, root, logged, center, world, loads, shown, cut>>

InterruptKey ==
    /\ console = "open" /\ modal = "none" /\ view # "Update"
    /\ ~MutationRunning /\ Close("key")

BackKey == console = "open" /\ modal = "none" /\ view # "Update" /\ BackOrExit

Navigate(v) == On("Overview") /\ v # "Overview" /\ Enter(v, job)

RefreshKey ==
    /\ console = "open" /\ modal = "none" /\ view # "Update"
    /\ CASE view = "Models" -> BeginOperation(job, "ModelRefresh", modal) /\ UNCHANGED <<logged, loads>>
         [] view = "Logs" -> BeginLogs(AfterStop, FALSE) /\ UNCHANGED loads
         [] OTHER -> StartLoads(RefreshedBy(view)) /\ UNCHANGED <<job, modal, logged>>
    /\ UNCHANGED <<console, view, root, center, world, shown, cut>>

OperateKey ==
    /\ \/ On("Health") /\ BeginOperation(job, "HealthVerification", modal)
       \/ On("Agents") /\ \/ BeginOperation(job, "AgentCheck", modal)
                          \/ BeginOperation(job, "AgentUpdate", modal)
                          \/ modal' = "confirmRollback" /\ UNCHANGED job
       \/ /\ On("Models") /\ ("Models" \in Feeds => shown["Models"] # Unread)
          /\ \/ BeginOperation(job, "ModelChange", modal)
             \/ modal' \in {"confirmDisable", "result"} /\ UNCHANGED job
    /\ UNCHANGED <<console, view, root, logged, center, world, loads, shown, cut>>

LogsKey ==
    /\ On("Logs")
    /\ \/ BeginLogs(AfterStop, FALSE)                            \* another target
       \/ job = "LogFollow" /\ job' = "none" /\ UNCHANGED <<modal, logged>>
       \/ job # "LogFollow" /\ BeginLogs(job, TRUE)
    /\ UNCHANGED <<console, view, root, center, world, loads, shown, cut>>

-----------------------------------------------------------------------------
(* Keys of the Update Center.                                               *)

UpdateFrame == UNCHANGED <<console, view, root, modal, job, logged, world, loads, shown, cut>>

(* Esc inside a screen ends a read-only updater; a mutation refuses it. *)
UpdateEscape ==
    /\ On("Update") /\ center.screen # "Overview" /\ ~CenterRunsMutation
    /\ center' = Ended("Overview")
    /\ UpdateFrame

(* q and Ctrl-C anywhere, Esc on the overview, and both Close entries. *)
UpdateLeave == On("Update") /\ ~CenterRunsMutation /\ BackOrExit

(* Here a failed start keeps the operation it set. *)
UpdateRefresh ==
    /\ On("Update") /\ center.screen = "Overview"
    /\ center' \in {Running("Status"), [center EXCEPT !.screen = "Result", !.op = "Status"]}
    /\ UpdateFrame

UpdateOverview ==
    /\ On("Update") /\ center.screen = "Overview"
    /\ \/ \E op \in {"Check", "Latest", "Candidates", "Status"} : CenterStart(op)
       \/ center' = [center EXCEPT !.screen = "VersionInput"]
    /\ UpdateFrame

UpdateInstall ==
    /\ On("Update") /\ center.screen = "VersionInput"
    /\ CenterStart("Version")
    /\ UpdateFrame

UpdateChoose(r) ==
    /\ On("Update") /\ center.screen = "RollbackSelection" /\ r \in center.list
    /\ center' = [center EXCEPT !.screen = "RollbackConfirm", !.chosen = r]
    /\ UpdateFrame

UpdateConfirm ==
    /\ On("Update") /\ center.screen = "RollbackConfirm"
    /\ \/ center' = [center EXCEPT !.screen = "RollbackSelection"]
       \/ center.chosen # NoChoice /\ CenterStart("Rollback")
    /\ UpdateFrame

UpdateDone ==
    /\ On("Update") /\ center.screen = "Result"
    /\ center' = [center EXCEPT !.screen = "Overview"]
    /\ UpdateFrame

-----------------------------------------------------------------------------
(* Ticks: a helper has ended, or cannot be polled.                          *)

AfterUpdater(op) ==
    \/ center' = Ended("Result")                      \* failed, or answered nonsense
    \/ op \in {"Status", "Check"} /\ center' = Ended("Overview")
    \/ op = "Candidates" /\ \E list \in SUBSET Releases :
                               center' = [Ended("RollbackSelection") EXCEPT !.list = list]

UpdaterEnds ==
    /\ console = "open" /\ center.child
    /\ AfterUpdater(center.op)
    /\ UNCHANGED <<console, view, root, modal, job, logged, world, loads, shown, cut>>

(* The console has been replaced on disk: it closes before the next key. *)
UpdaterReplaces ==
    /\ console = "open" /\ center.child /\ CenterRunsMutation
    /\ console' = "closed"
    /\ center' = Ended("Result")
    /\ cut' = IF job \in Mutating THEN "key" ELSE cut
    /\ job' = "none"
    /\ UNCHANGED <<view, root, modal, logged, world, loads, shown>>

UpdaterLost ==
    /\ console = "open" /\ center.child
    /\ center' = Ended("Result")
    /\ cut' = IF CenterRunsMutation THEN "poll" ELSE cut
    /\ UNCHANGED <<console, view, root, modal, job, logged, world, loads, shown>>

Refreshed == CASE job \in {"HealthVerification", "AgentCheck", "AgentUpdate"} ->
                                                                      {"status", "Agents"}
               [] job \in {"ModelRefresh", "ModelChange"} -> {"Models"}
               [] OTHER -> {}

JobEnds ==
    /\ console = "open" /\ job # "none"
    /\ job' = "none"
    /\ IF job \in {"LogRefresh", "LogFollow"}
       THEN logged' \in {logged, TRUE} /\ UNCHANGED <<modal, loads>>
       ELSE modal' = "result" /\ StartLoads(Refreshed) /\ UNCHANGED logged
    /\ UNCHANGED <<console, view, root, center, world, shown, cut>>

JobLost ==
    /\ console = "open" /\ job # "none"
    /\ job' = "none" /\ modal' = "result"
    /\ cut' = IF job \in Mutating THEN "poll" ELSE cut
    /\ UNCHANGED <<console, view, root, logged, center, world, loads, shown>>

-----------------------------------------------------------------------------
ConsoleInit ==
    /\ console = "open" /\ root \in Roots /\ view = root
    /\ modal = "none" /\ job = "none" /\ logged = FALSE
    /\ center \in IF root = "Update"
                  THEN {[NoCenter EXCEPT !.there = TRUE, !.screen = "Running",
                                         !.op = "Status", !.child = TRUE],
                        [NoCenter EXCEPT !.there = TRUE, !.screen = "Result"]}
                  ELSE {NoCenter}
    /\ world = 0
    /\ loads = {[feed |-> f, saw |-> Unread] : f \in ({"status"} \cup FeedsOf(root)) \cap Feeds}
    /\ shown = [f \in Feeds |-> Unread]
    /\ cut = "nothing"

ConsoleNext ==
    \/ \E l \in loads : ReadFeed(l) \/ Receive(l)
    \/ Change
    \/ OpenHelp \/ CloseFromDialog \/ Dismiss \/ Confirm
    \/ InterruptKey \/ BackKey \/ RefreshKey \/ OperateKey \/ LogsKey
    \/ \E v \in Views : Navigate(v)
    \/ UpdateEscape \/ UpdateLeave \/ UpdateRefresh \/ UpdateOverview
    \/ UpdateInstall \/ UpdateConfirm \/ UpdateDone
    \/ \E r \in Releases : UpdateChoose(r)
    \/ UpdaterEnds \/ UpdaterReplaces \/ UpdaterLost \/ JobEnds \/ JobLost

ConsoleSpec == ConsoleInit /\ [][ConsoleNext]_consoleVars

-----------------------------------------------------------------------------
(* A helper that changes models or agents and an updater that replaces the
   release are never running together, though neither start looks at the other. *)
OneMutation == ~(job \in Mutating /\ CenterRunsMutation)

(* A console that refuses to close because of an updater has that updater: the
   operation and its child never part, so the refusal ends with the child. *)
RefusalEnds == console = "open" /\ CenterRunsMutation => center.child /\ center.screen = "Running"

(* A rollback runs only to a release of the list the owner was last shown. *)
RollbackFromTheList == center.op = "Rollback" => center.chosen \in center.list

(* No sequence of keys outside a dialog, and no successful update, kills a
   mutating helper or starts a second one; none leaves the console refusing to
   close with nothing running; a rollback is of the list last shown. *)
MutationsAreKept == cut # "key" /\ OneMutation /\ RefusalEnds /\ RollbackFromTheList
=============================================================================
