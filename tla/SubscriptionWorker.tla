------------------------- MODULE SubscriptionWorker -------------------------
(***************************************************************************)
(* The two subscription workers (bin/jarvis-claude-worker.rs,              *)
(* bin/jarvis-codex-chat-worker.rs, bin/subscription_worker) and Core's    *)
(* side of their socket (llm/claude_cli.rs): one run of the official CLI   *)
(* per request, behind two slots of which one may do research, with the    *)
(* deadlines of the read, the two probes, the run, the reply and the       *)
(* client.                                                                 *)
(*                                                                         *)
(* One unit of time is the five seconds between a run's deadline and its   *)
(* reply's.  A timer that is due fires before time goes on; what is ready  *)
(* at that moment still counts (tokio asks the future before the timer).   *)
(* What the CLI prints is reduced to what the workers read from it.        *)
(***************************************************************************)
EXTENDS Naturals, FiniteSets

CONSTANTS
    Prompts,        \* requests of Core
    RunSlots,       \* MAX_PARALLEL_RUNS
    ResearchSlots,  \* MAX_PARALLEL_RESEARCH_RUNS
    ReadLimit,      \* REQUEST_READ_TIMEOUT
    ProbeLimit,     \* of each of the two probes
    RunLimit,       \* RUN_TIMEOUT
    ResearchLimit,  \* RESEARCH_RUN_TIMEOUT
    ReplyMargin,    \* reply_deadline is this much later
    CodexFailures   \* what classify_codex_failure tells from RuntimeFailure

ASSUME WorkerAssumption ==
    /\ ResearchSlots \in Nat /\ RunSlots \in Nat /\ ResearchSlots < RunSlots
    /\ \A n \in {ReadLimit, ProbeLimit, RunLimit, ResearchLimit, ReplyMargin} : n \in Nat \ {0}
    /\ CodexFailures \cap {"free", "waiting", "timed out"} = {}

VARIABLES
    workerCli,  \* which worker: claude or codex
    ask,        \* both ends of each request
    crowd       \* one more request, of which only its slot matters

workerVars == <<workerCli, ask, crowd>>

NoPrompt == [client |-> "free", research |-> FALSE, wait |-> 0,
             work |-> "none", age |-> 0, since |-> 0,
             alive |-> FALSE, helpers |-> FALSE, stopped |-> FALSE,
             state |-> "RuntimeFailure"]

WorkerInit ==
    /\ workerCli \in {"claude", "codex"}
    /\ ask = [p \in Prompts |-> NoPrompt]
    /\ crowd = FALSE

RunTimeout(p) == IF ask[p].research THEN ResearchLimit ELSE RunLimit
ReplyLimit(p) == RunTimeout(p) + ReplyMargin

\* WORKER_TIMEOUT is the reply deadline, RESEARCH_WORKER_TIMEOUT one margin more;
\* both count from the connection, the worker's from the end of its read.
ClientLimit(p) == ReplyLimit(p) + IF ask[p].research THEN ReplyMargin ELSE 0

Handling == {"version", "login", "run"}
Busy == {p \in Prompts : ask[p].work \in {"reading"} \cup Handling}
SlotsHeld == Cardinality(Busy) + IF crowd THEN 1 ELSE 0
Researching == {p \in Prompts : ask[p].research /\ ask[p].work \in Handling}

Is(p, work) == ask[p].work = work

\* The task ends: its slots are free, the CLI it held is killed when it is
\* dropped, and Core reads the state, if it is still there.
Replied(p, state, stopped) ==
    [ask EXCEPT ![p] = [NoPrompt EXCEPT
        !.client = IF ask[p].client = "waiting" THEN state ELSE "timed out",
        !.helpers = ask[p].helpers, !.stopped = stopped]]

-----------------------------------------------------------------------------
(* Core. *)

\* send, and main's loop: the request may be out of bounds or the worker's socket
\* off; otherwise a slot is taken before anything is read, or it is refused.
Prompt(p, research) ==
    /\ ask[p].client = "free"
    /\ \/ /\ SlotsHeld < RunSlots
          /\ ask' = [ask EXCEPT ![p].client = "waiting", ![p].research = research,
                                ![p].work = "reading"]
       \/ \E state \in {"RuntimeFailure", "NotConfigured"} : ask' = [ask EXCEPT ![p].client = state]
    /\ UNCHANGED <<workerCli, crowd>>

ClientDue(p) == ask[p].client = "waiting" /\ ask[p].wait >= ClientLimit(p)

\* The worker is not told: the run and its slot go on.
ClientTimesOut(p) ==
    /\ ClientDue(p)
    /\ ask' = [ask EXCEPT ![p].client = "timed out"]
    /\ UNCHANGED <<workerCli, crowd>>

\* The caller is done with the answer.
Dismissed(p) ==
    /\ ask[p].client \notin {"free", "waiting"}
    /\ Is(p, "none") /\ ~ask[p].helpers
    /\ ask' = [ask EXCEPT ![p] = NoPrompt]
    /\ UNCHANGED <<workerCli, crowd>>

-----------------------------------------------------------------------------
(* The worker. *)

ReadDue(p) == Is(p, "reading") /\ ask[p].age >= ReadLimit

ResearchSlotFree == Cardinality(Researching) < ResearchSlots

\* read_request, research_slot: a second research run is refused, never queued;
\* a request that is not whole in time, or whose writer is gone, is refused.
ReadRequest(p) ==
    /\ Is(p, "reading")
    /\ \/ /\ ask[p].research => ResearchSlotFree
          /\ ask' = [ask EXCEPT ![p].work = "version", ![p].age = 0, ![p].alive = TRUE]
       \/ ask' = Replied(p, "RuntimeFailure", FALSE)
    /\ UNCHANGED <<workerCli, crowd>>

ProbeDue(p) == (Is(p, "version") \/ Is(p, "login")) /\ ask[p].age >= ProbeLimit

\* Fault: a Codex run gets its whole time, whatever the probes took.
RunDueWhole(p, probed) == RunTimeout(p)

\* When the run's own timer fires, counted from its start: Claude's run has its
\* whole timeout, Codex's what the probes left of it.
RunDue(p, probed) ==
    IF workerCli = "claude" THEN RunTimeout(p)
    ELSE IF probed >= RunTimeout(p) THEN 0 ELSE RunTimeout(p) - probed

\* supported_runtime: a probe that fails, prints too much or hangs ends the
\* request without a prompt.
ProbeVersion(p) ==
    /\ Is(p, "version")
    /\ \/ ask' = [ask EXCEPT ![p].work = "login", ![p].age = 0]
       \/ ask' = Replied(p, "IncompatibleRuntime", FALSE)
    /\ UNCHANGED <<workerCli, crowd>>

\* subscription_auth: only a plan's login counts.
ProbeLogin(p) ==
    /\ Is(p, "login")
    /\ \/ ask' = [ask EXCEPT ![p].work = "run", ![p].age = 0]
       \/ ask' = Replied(p, "SubscriptionUnavailable", FALSE)
    /\ UNCHANGED <<workerCli, crowd>>

RunIsDue(p) == Is(p, "run") /\ ask[p].age >= RunDue(p, ask[p].since - ask[p].age)
Runs(p) == Is(p, "run") /\ ask[p].alive

\* parse_cli_reply.
ClaudeStates == {"Completed", "PlanLimit", "RuntimeFailure"}

\* The CLI starts a process of its own: in its group for Codex, and in the worker's
\* for Claude, which has none of its own.
CliSpawns(p) ==
    /\ Runs(p)
    /\ ask' = [ask EXCEPT ![p].helpers = TRUE]
    /\ UNCHANGED <<workerCli, crowd>>

HelperEnds(p) ==
    /\ ask[p].helpers
    /\ ask' = [ask EXCEPT ![p].helpers = FALSE]
    /\ UNCHANGED <<workerCli, crowd>>

\* stop_group: everything the CLI started is killed.
StopGroup(p, state) == [Replied(p, state, TRUE) EXCEPT ![p].helpers = FALSE]

\* A tool, a search outside research, an unknown or unreadable event.
CodexRefused(p) ==
    /\ workerCli = "codex" /\ Runs(p)
    /\ ask' = StopGroup(p, "ToolUseRefused")
    /\ UNCHANGED <<workerCli, crowd>>

\* classify_codex_failure: the first error that can be told from the others counts.
CodexErrors == {"RuntimeFailure"} \cup CodexFailures

\* finish: the answer is the last message, of a turn that was completed by a client
\* that exited well.
Finish(ok, done, answer, error) ==
    IF ~(ok /\ done) THEN error
    ELSE IF answer THEN "Completed" ELSE "RuntimeFailure"

\* run_official_client of Claude: everything is read from one JSON result.
ClaudeExits(p) ==
    /\ workerCli = "claude" /\ Runs(p)
    /\ \E state \in ClaudeStates : ask' = [ask EXCEPT ![p].alive = FALSE, ![p].state = state]
    /\ UNCHANGED <<workerCli, crowd>>

\* The CLI exits; a helper that holds its output open keeps the run waiting.
CodexExits(p) ==
    /\ workerCli = "codex" /\ Runs(p)
    /\ \E ok, done, answer \in BOOLEAN, error \in CodexErrors :
         ask' = [ask EXCEPT ![p].alive = FALSE, ![p].state = Finish(ok, done, answer, error)]
    /\ UNCHANGED <<workerCli, crowd>>

\* Output, exit status and diagnostics are all there; what was detached stays.
RunFinishes(p) ==
    /\ Is(p, "run") /\ ~ask[p].alive
    /\ ask' = Replied(p, ask[p].state, FALSE)
    /\ UNCHANGED <<workerCli, crowd>>

\* The run's own deadline: Codex stops the group, Claude drops its child and with it
\* kills the CLI (kill_on_drop), not what the CLI started.
RunTimesOut(p) ==
    /\ RunIsDue(p)
    /\ ask' = IF workerCli = "codex" THEN StopGroup(p, "RuntimeFailure")
              ELSE Replied(p, "RuntimeFailure", TRUE)
    /\ UNCHANGED <<workerCli, crowd>>

\* The deadline around the whole request drops it where it is; the run's own
\* timer is asked first.
ReplyDue(p) == ask[p].work \in Handling /\ ask[p].since >= ReplyLimit(p)
ReplyDeadline(p) ==
    /\ ReplyDue(p) /\ ~RunIsDue(p)
    /\ ask' = Replied(p, "RuntimeFailure", TRUE)
    /\ UNCHANGED <<workerCli, crowd>>

\* The unit is stopped or the process dies: all its processes end with it and
\* Core reads the end of the stream.
WorkerStops ==
    /\ ask' = [p \in Prompts |->
         IF Is(p, "none") THEN [ask[p] EXCEPT !.helpers = FALSE]
         ELSE [Replied(p, "RuntimeFailure", TRUE)[p] EXCEPT !.helpers = FALSE]]
    /\ crowd' = FALSE
    /\ UNCHANGED workerCli

\* Nothing that is due is kept waiting.
Due(p) == ClientDue(p) \/ ReadDue(p) \/ ProbeDue(p) \/ RunIsDue(p) \/ ReplyDue(p)

WorkerTick ==
    /\ \A p \in Prompts : ~Due(p)
    /\ ask' = [p \in Prompts |->
         [ask[p] EXCEPT
            !.wait = IF ask[p].client = "waiting" THEN @ + 1 ELSE @,
            !.age = IF p \in Busy THEN @ + 1 ELSE @,
            !.since = IF ask[p].work \in Handling THEN @ + 1 ELSE @]]
    /\ UNCHANGED <<workerCli, crowd>>

PromptStep(p) ==
    \/ \E research \in BOOLEAN : Prompt(p, research)
    \/ ClientTimesOut(p) \/ Dismissed(p) \/ ReadRequest(p)
    \/ ProbeVersion(p) \/ ProbeLogin(p)
    \/ CliSpawns(p) \/ HelperEnds(p) \/ CodexRefused(p)
    \/ ClaudeExits(p) \/ CodexExits(p) \/ RunFinishes(p)
    \/ RunTimesOut(p) \/ ReplyDeadline(p)

\* A chat of another caller takes a slot, or ends.
OtherChat ==
    /\ crowd \/ SlotsHeld < RunSlots
    /\ crowd' = ~crowd
    /\ UNCHANGED <<workerCli, ask>>

SubscriptionNext ==
    (\E p \in Prompts : PromptStep(p)) \/ OtherChat \/ WorkerStops \/ WorkerTick

SubscriptionSpec == WorkerInit /\ [][SubscriptionNext]_workerVars

-----------------------------------------------------------------------------
\* A request that has ended, in whichever way, has left no CLI behind; a Codex run
\* that was refused or timed out, by whichever of the two deadlines and however long
\* the probes took, has left nothing behind that the CLI started either (stop_group;
\* handle gives a Codex run what the probes left of its time).
StoppedIsGone == \A p \in Prompts :
    /\ ask[p].work \notin Handling => ~ask[p].alive
    /\ workerCli = "codex" /\ ask[p].stopped => ~ask[p].helpers

\* The slots are bounded, and so are research runs, whatever clients give up on runs
\* that go on; when research has all the slots, it has the last ones only for as
\* long as a request may take to be read (MAX_PARALLEL_RUNS, research_slot,
\* REQUEST_READ_TIMEOUT).
ResearchIsBounded ==
    /\ SlotsHeld <= RunSlots /\ Cardinality(Researching) <= ResearchSlots
    /\ \A p \in Prompts : Is(p, "reading") => ask[p].age <= ReadLimit

\* A subscription run is contained in every way the worker promises.
RunsAreContained == StoppedIsGone /\ ResearchIsBounded
=============================================================================
