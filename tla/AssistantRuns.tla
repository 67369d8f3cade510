--------------------------- MODULE AssistantRuns ---------------------------
(***************************************************************************)
(* Durable assistant runs: submission with retry idempotency, the detached  *)
(* worker, run status, the synchronous chat endpoint and the deletion of a  *)
(* conversation, over the hub's in-memory run reservations and the          *)
(* database.                                                                *)
(*                                                                         *)
(*   jarvis-api/src/routes/{runs,chat,chat_context}.rs,                     *)
(*   jarvis-api/src/realtime/hub.rs (reserve, RunGuard)                     *)
(*                                                                         *)
(* A step is what a task does between two awaits, or between two of its     *)
(* critical sections of the hub.  A request's future is dropped when its    *)
(* client disconnects; a spawned worker is not.                             *)
(***************************************************************************)
EXTENDS Naturals, FiniteSets

CONSTANTS
    Users, Handlers,
    Requests,     \* run identities: identity(user, device, request)
    UserOf,       \* UserOf[q]: the user of request q
    Convs,        \* conversation ids
    Owner,        \* Owner[c]: the user who mints conversation id c
    Payloads,     \* request bodies, told apart by payload_hash
    Target,       \* Target[p]: conversation_id of the body, None when it starts a new one
    None,
    MaxRuns,      \* reservations in all
    MaxPerUser,   \* reservations of one user
    MaxEpoch,     \* bound: how often the Core is started
    Kinds         \* which kinds of activity happen: subset of AllKinds

AllKinds == {"status", "chat", "delete", "faults", "lost", "crash"}

ASSUME OwnersAssumption == UserOf \in [Requests -> Users] /\ Owner \in [Convs -> Users]
ASSUME TargetAssumption == Target \in [Payloads -> Convs \cup {None}]
ASSUME NoneAssumption == None \notin Users \cup Convs \cup Requests \cup Payloads
ASSUME BoundsAssumption == MaxRuns \in Nat /\ MaxPerUser \in Nat /\ MaxEpoch \in Nat \ {0}
ASSUME KindsAssumption == Kinds \subseteq AllKinds

VARIABLES
    epoch,     \* Inner.epoch
    rows,      \* assistant_runs
    convs,     \* conversations
    messages,  \* chat_messages
    guards,    \* Inner.runs, each with the task that holds the RunGuard
    inflight,  \* transactions whose caller stopped waiting, still able to commit
    hs,        \* the request handlers and the workers they spawn
    calls,     \* history: provider invocations for each run identity
    events,    \* history: events published for each run identity
    told       \* history: the last state reported for each run identity

vars == <<epoch, rows, convs, messages, guards, inflight, hs, calls, events, told>>

-----------------------------------------------------------------------------
Row == [pay : Payloads, conv : Convs, epoch : 1 .. MaxEpoch,
        state : {"running", "completed", "failed"}]
ASSUME NoneRowAssumption == None \notin Row
Message == [conv : Convs, role : {"user", "assistant"}, req : Requests \cup {None}]
Guard == [user : Users, conv : Convs, run : Requests \cup {None}, by : Handlers]
Reservation == [op : {"reserve"}, req : Requests, pay : Payloads, conv : Convs, epoch : 1 .. MaxEpoch]
Deletion == [op : {"delete"}, user : Users, conv : Convs]

\* The part before spawn, a worker before its provider call, and after it.
Serving == {"load", "title", "reserve", "busy", "poll", "tx", "reload", "answer", "delete"}
Undispatched == {"spawn", "work", "provider"}
Dispatched == {"waiting", "append"}
Ending == {"failing", "save"}

Handler == [kind : {"none", "submit", "status", "chat", "delete"}, pc : {"idle"} \cup Serving
            \cup Undispatched \cup Dispatched \cup Ending, user : Users \cup {None},
            req : Requests \cup {None}, pay : Payloads \cup {None}, conv : Convs \cup {None},
            seen : {"none", "running", "completed", "failed"}]
Idle == [kind |-> "none", pc |-> "idle", user |-> None, req |-> None, pay |-> None,
         conv |-> None, seen |-> "none"]

TypeOK ==
    /\ epoch \in 1 .. MaxEpoch
    /\ rows \in [Requests -> Row \cup {None}]
    /\ convs \in [Convs -> {"unused", "taken", "live", "deleted"}]
    /\ messages \subseteq Message
    /\ guards \subseteq Guard
    /\ inflight \subseteq Reservation \cup Deletion
    /\ hs \in [Handlers -> Handler]
    /\ calls \in [Requests -> Nat]
    /\ events \subseteq {"created", "started", "completed", "failed"} \X Requests
    /\ told \in [Requests -> {"none", "running", "completed", "failed", "interrupted"}]

-----------------------------------------------------------------------------
At(h, pc) == hs[h].pc = pc
Goto(h, pc) == hs' = [hs EXCEPT ![h].pc = pc]

\* Dropping the RunGuard.
Free(h) == {g \in guards : g.by # h}

\* The task ends, by a return, an error or a drop of its future.
Return(h) == hs' = [hs EXCEPT ![h] = Idle] /\ guards' = Free(h)

\* Hub::reserve finds room.
Room(u, c) ==
    /\ Cardinality(guards) < MaxRuns
    /\ Cardinality({g \in guards : g.user = u}) < MaxPerUser
    /\ \A g \in guards : ~(g.user = u /\ g.conv = c)

Held(h, run) == [user |-> hs[h].user, conv |-> hs[h].conv, run |-> run, by |-> h]

\* Hub::identified_run_active.
ActiveAt(q, c) == \E g \in guards : g.user = UserOf[q] /\ g.conv = c /\ g.run = q

\* conversation_title: the conversation exists and belongs to the user.
Titled(u, c) == convs[c] = "live" /\ Owner[c] = u

Prompt(c, q) == [conv |-> c, role |-> "user", req |-> q]
Reply(c, q) == [conv |-> c, role |-> "assistant", req |-> q]

Init ==
    /\ epoch = 1
    /\ rows = [q \in Requests |-> None]
    /\ convs \in [Convs -> {"unused", "live"}]
    /\ messages = {}
    /\ guards = {}
    /\ inflight = {}
    /\ hs = [h \in Handlers |-> Idle]
    /\ calls = [q \in Requests |-> 0]
    /\ events = {}
    /\ told = [q \in Requests |-> "none"]

-----------------------------------------------------------------------------
\* Requests arrive.

\* Bound: a request that will mint a conversation id finds one in Convs.
IdLeft(u, p) ==
    Target[p] = None =>
        Cardinality({c \in Convs : convs[c] = "unused" /\ Owner[c] = u}) >
        Cardinality({k \in Handlers : hs[k].pc \in {"load", "title"} /\ hs[k].conv = None})

Submit(h, q, p) ==
    /\ hs[h] = Idle
    /\ IdLeft(UserOf[q], p)
    /\ hs' = [hs EXCEPT ![h] = [kind |-> "submit", pc |-> "load", user |-> UserOf[q], req |-> q,
                               pay |-> p, conv |-> Target[p], seen |-> "none"]]
    /\ UNCHANGED <<epoch, rows, convs, messages, guards, inflight, calls, events, told>>

\* status and request_status: the same lookup by run identity.
Status(h, q) ==
    /\ "status" \in Kinds
    /\ hs[h] = Idle
    /\ hs' = [hs EXCEPT ![h] = [kind |-> "status", pc |-> "load", user |-> UserOf[q], req |-> q,
                               pay |-> None, conv |-> None, seen |-> "none"]]
    /\ UNCHANGED <<epoch, rows, convs, messages, guards, inflight, calls, events, told>>

\* assistant_chat, without a run identity the client could retry.
Chat(h, u, p) ==
    /\ "chat" \in Kinds
    /\ hs[h] = Idle
    /\ IdLeft(u, p)
    /\ hs' = [hs EXCEPT ![h] = [kind |-> "chat", pc |-> "title", user |-> u, req |-> None,
                               pay |-> p, conv |-> Target[p], seen |-> "none"]]
    /\ UNCHANGED <<epoch, rows, convs, messages, guards, inflight, calls, events, told>>

Delete(h, u, c) ==
    /\ "delete" \in Kinds
    /\ hs[h] = Idle
    /\ hs' = [hs EXCEPT ![h] = [kind |-> "delete", pc |-> "reserve", user |-> u, req |-> None,
                               pay |-> None, conv |-> c, seen |-> "none"]]
    /\ UNCHANGED <<epoch, rows, convs, messages, guards, inflight, calls, events, told>>

\* A load fails or the client disconnects at an await: the future ends, its guard drops.
GiveUp(h) ==
    /\ Kinds \cap {"faults", "lost"} # {}
    /\ hs[h].pc \in {"load", "title", "poll", "reload"}
    /\ Return(h)
    /\ UNCHANGED <<epoch, rows, convs, messages, inflight, calls, events, told>>

-----------------------------------------------------------------------------
\* submit and status (runs.rs).

\* A stored run is compared and answered; a submission without one goes on, with a
\* new conversation id when the body names none.
Load(h) ==
    /\ At(h, "load")
    /\ LET q == hs[h].req IN
       \/ /\ rows[q] # None
          /\ hs[h].kind = "submit" => rows[q].pay = hs[h].pay
          /\ hs' = [hs EXCEPT ![h].pc = "answer", ![h].seen = rows[q].state]
          /\ UNCHANGED <<convs, guards>>
       \/ /\ rows[q] # None
          /\ hs[h].kind = "submit" /\ rows[q].pay # hs[h].pay
          /\ Return(h)
          /\ UNCHANGED convs
       \/ /\ rows[q] = None
          /\ hs[h].kind = "status"
          /\ Return(h)
          /\ UNCHANGED convs
       \/ /\ rows[q] = None
          /\ hs[h].kind = "submit" /\ hs[h].conv # None
          /\ Goto(h, "title")
          /\ UNCHANGED <<convs, guards>>
       \/ /\ rows[q] = None
          /\ hs[h].kind = "submit" /\ hs[h].conv = None
          /\ \E c \in Convs :
                /\ convs[c] = "unused" /\ Owner[c] = hs[h].user
                /\ convs' = [convs EXCEPT ![c] = "taken"]
                /\ hs' = [hs EXCEPT ![h].pc = "reserve", ![h].conv = c]
          /\ UNCHANGED guards
    /\ UNCHANGED <<epoch, rows, messages, inflight, calls, events, told>>

\* The named conversation must exist; a chat that names none creates it here.
Title(h) ==
    /\ At(h, "title")
    /\ \/ /\ hs[h].conv # None /\ Titled(hs[h].user, hs[h].conv)
          /\ Goto(h, "reserve")
          /\ UNCHANGED <<convs, guards>>
       \/ /\ hs[h].conv # None /\ ~Titled(hs[h].user, hs[h].conv)
          /\ Return(h)
          /\ UNCHANGED convs
       \/ /\ hs[h].conv = None
          /\ \E c \in Convs :
                /\ convs[c] = "unused" /\ Owner[c] = hs[h].user
                /\ convs' = [convs EXCEPT ![c] = "live"]
                /\ hs' = [hs EXCEPT ![h].pc = "reserve", ![h].conv = c]
          /\ UNCHANGED guards
    /\ UNCHANGED <<epoch, rows, messages, inflight, calls, events, told>>

\* Fault: a deletion does not reserve the conversation.
Reserve_DeleteFree(h) ==
    /\ At(h, "reserve")
    /\ \/ /\ hs[h].kind = "delete"
          /\ Goto(h, "delete")
          /\ UNCHANGED guards
       \/ /\ hs[h].kind # "delete" /\ Room(hs[h].user, hs[h].conv)
          /\ guards' = guards \cup {Held(h, hs[h].req)}
          /\ Goto(h, IF hs[h].kind = "submit" THEN "tx" ELSE "spawn")
    /\ UNCHANGED <<epoch, rows, convs, messages, inflight, calls, events, told>>

\* Hub::reserve for a submission (with its identity), a chat or a deletion.
Reserve(h) ==
    /\ At(h, "reserve")
    /\ \/ /\ Room(hs[h].user, hs[h].conv)
          /\ guards' = guards \cup {Held(h, hs[h].req)}
          /\ Goto(h, CASE hs[h].kind = "submit" -> "tx"
                       [] hs[h].kind = "chat" -> "spawn"
                       [] hs[h].kind = "delete" -> "delete")
       \/ /\ ~Room(hs[h].user, hs[h].conv)
          /\ hs[h].kind = "submit"
          /\ Goto(h, "busy")
          /\ UNCHANGED guards
       \/ /\ ~Room(hs[h].user, hs[h].conv)
          /\ hs[h].kind # "submit"
          /\ Return(h)
    /\ UNCHANGED <<epoch, rows, convs, messages, inflight, calls, events, told>>

\* Only this very run may be waited for.
Busy(h) ==
    /\ At(h, "busy")
    /\ \/ /\ ActiveAt(hs[h].req, hs[h].conv)
          /\ Goto(h, "poll")
          /\ UNCHANGED guards
       \/ /\ ~ActiveAt(hs[h].req, hs[h].conv)
          /\ Return(h)
    /\ UNCHANGED <<epoch, rows, convs, messages, inflight, calls, events, told>>

\* Fault: the wait ends only when the row is there.
Poll_Forever(h) ==
    /\ At(h, "poll")
    /\ rows[hs[h].req] # None
    /\ hs' = [hs EXCEPT ![h].pc = "answer", ![h].seen = rows[hs[h].req].state]
    /\ UNCHANGED <<epoch, rows, convs, messages, guards, inflight, calls, events, told>>

\* The 50 ms poll: the row is there with this payload, or an error: the payload differs,
\* the reservation it waits for is gone, or two seconds have passed.  A poll that finds
\* nothing and sleeps changes nothing.
Poll(h) ==
    /\ At(h, "poll")
    /\ \/ /\ rows[hs[h].req] # None /\ rows[hs[h].req].pay = hs[h].pay
          /\ hs' = [hs EXCEPT ![h].pc = "answer", ![h].seen = rows[hs[h].req].state]
          /\ UNCHANGED guards
       \/ Return(h)
    /\ UNCHANGED <<epoch, rows, convs, messages, inflight, calls, events, told>>

\* The reservation's transaction as a write, and what it does when it commits: the run,
\* a new conversation and the prompt, all or none.
WriteOf(h) == [op |-> "reserve", req |-> hs[h].req, pay |-> hs[h].pay, conv |-> hs[h].conv,
               epoch |-> epoch]
CommitReserve(w) ==
    /\ rows' = [rows EXCEPT ![w.req] = [pay |-> w.pay, conv |-> w.conv, epoch |-> w.epoch,
                                        state |-> "running"]]
    /\ convs' = IF Target[w.pay] = None THEN [convs EXCEPT ![w.conv] = "live"] ELSE convs
    /\ messages' = messages \cup {Prompt(w.conv, w.req)}

\* Fault: the statement's own error is not checked.
Transact_Unchecked(h) ==
    /\ At(h, "tx")
    /\ Goto(h, "spawn")
    /\ IF rows[hs[h].req] = None THEN CommitReserve(WriteOf(h))
       ELSE UNCHANGED <<rows, convs, messages>>
    /\ UNCHANGED <<epoch, guards, inflight, calls, events, told>>

\* The transaction commits, is rejected (always so when the run exists: the unique
\* index), or its outcome is never seen and it may still commit.
Transact(h) ==
    /\ At(h, "tx")
    /\ \/ /\ rows[hs[h].req] = None
          /\ CommitReserve(WriteOf(h))
          /\ Goto(h, "spawn")
          /\ UNCHANGED <<guards, inflight>>
       \/ /\ rows[hs[h].req] # None \/ "faults" \in Kinds
          /\ Goto(h, "reload")
          /\ UNCHANGED <<rows, convs, messages, guards, inflight>>
       \/ /\ "lost" \in Kinds
          /\ inflight' = inflight \cup {WriteOf(h)}
          /\ Return(h)
          /\ UNCHANGED <<rows, convs, messages>>
    /\ UNCHANGED <<epoch, calls, events, told>>

\* A lost transaction commits after all, or never.
LateCommit(w) ==
    /\ inflight' = inflight \ {w}
    /\ \/ /\ w.op = "reserve" /\ rows[w.req] = None
          /\ CommitReserve(w)
       \/ /\ w.op = "delete"
          /\ convs' = IF Titled(w.user, w.conv) THEN [convs EXCEPT ![w.conv] = "deleted"] ELSE convs
          /\ messages' = IF Owner[w.conv] = w.user THEN {m \in messages : m.conv # w.conv}
                         ELSE messages
          /\ UNCHANGED rows
       \/ UNCHANGED <<rows, convs, messages>>
    /\ UNCHANGED <<epoch, guards, hs, calls, events, told>>

\* After a rejection: the run another attempt stored, or a conflict.
Reload(h) ==
    /\ At(h, "reload")
    /\ LET q == hs[h].req IN
       \/ /\ rows[q] # None /\ rows[q].pay = hs[h].pay
          /\ hs' = [hs EXCEPT ![h].pc = "answer", ![h].seen = rows[q].state]
          /\ UNCHANGED guards
       \/ /\ ~(rows[q] # None /\ rows[q].pay = hs[h].pay)
          /\ Return(h)
    /\ UNCHANGED <<epoch, rows, convs, messages, inflight, calls, events, told>>

\* response(): the state that was loaded, and the reservations as they are now.
Reported_AnyEpoch(q, seen) ==   \* Fault: the epoch of the run is not compared.
    IF seen = "running" /\ ~ActiveAt(q, rows[q].conv) THEN "interrupted" ELSE seen
Reported(q, seen) ==
    IF seen = "running" /\ (rows[q].epoch # epoch \/ ~ActiveAt(q, rows[q].conv))
      THEN "interrupted" ELSE seen

Answer(h) ==
    /\ At(h, "answer")
    /\ told' = [told EXCEPT ![hs[h].req] = Reported(hs[h].req, hs[h].seen)]
    /\ Return(h)
    /\ UNCHANGED <<epoch, rows, convs, messages, inflight, calls, events>>

-----------------------------------------------------------------------------
\* The worker (runs.rs, chat.rs).

Publish(h, e) == events' = IF hs[h].req = None THEN events ELSE events \cup {<<e, hs[h].req>>}

\* The worker is spawned with the guard, the events go out and the client is answered.
Spawn(h) ==
    /\ At(h, "spawn")
    /\ Goto(h, "work")
    /\ Publish(h, "created")
    /\ told' = IF hs[h].req = None THEN told ELSE [told EXCEPT ![hs[h].req] = "running"]
    /\ UNCHANGED <<epoch, rows, convs, messages, guards, inflight, calls>>

\* execute_chat up to assistant.started: limits, the conversation, the prompt of a
\* chat, the context of a run (whose newest row must be its prompt).
StartWork(h) ==
    /\ At(h, "work")
    /\ LET c == hs[h].conv  stored == messages \cup {Prompt(c, None)} IN
       \/ /\ Titled(hs[h].user, c)
          /\ hs[h].kind = "submit" => Prompt(c, hs[h].req) \in messages
          /\ messages' = IF hs[h].kind = "chat" THEN stored ELSE messages
          /\ Publish(h, "started")
          /\ Goto(h, "provider")
       \/ /\ "faults" \in Kinds \/ ~Titled(hs[h].user, c)
                \/ (hs[h].kind = "submit" /\ Prompt(c, hs[h].req) \notin messages)
          /\ messages' \in {messages} \cup
                (IF hs[h].kind = "chat" /\ Titled(hs[h].user, c) THEN {stored} ELSE {})
          /\ Goto(h, "failing")
          /\ UNCHANGED events
    /\ UNCHANGED <<epoch, rows, convs, guards, inflight, calls, told>>

\* The provider is invoked.
Dispatch(h) ==
    /\ At(h, "provider")
    /\ Goto(h, "waiting")
    /\ calls' = IF hs[h].req = None THEN calls ELSE [calls EXCEPT ![hs[h].req] = @ + 1]
    /\ UNCHANGED <<epoch, rows, convs, messages, guards, inflight, events, told>>

\* An answer or a refusal is stored; any other error fails the run.
ProviderEnds(h) ==
    /\ At(h, "waiting")
    /\ Goto(h, "append") \/ Goto(h, "failing")
    /\ UNCHANGED <<epoch, rows, convs, messages, guards, inflight, calls, events, told>>

\* Fault: the completion is published whatever became of the write.
AppendReply_Unchecked(h) ==
    /\ At(h, "append")
    /\ messages' \in {messages, messages \cup {Reply(hs[h].conv, hs[h].req)}}
    /\ Publish(h, "completed")
    /\ hs' = [hs EXCEPT ![h].pc = "save", ![h].seen = "completed"]
    /\ UNCHANGED <<epoch, rows, convs, guards, inflight, calls, told>>

\* append_message, then assistant.completed; without a confirmed write the run fails.
AppendReply(h) ==
    /\ At(h, "append")
    /\ LET stored == messages \cup {Reply(hs[h].conv, hs[h].req)} IN
       \/ /\ messages' = stored
          /\ Publish(h, "completed")
          /\ hs' = [hs EXCEPT ![h].pc = "save", ![h].seen = "completed"]
       \/ /\ "faults" \in Kinds
          /\ messages' \in {messages, stored}
          /\ Goto(h, "failing")
          /\ UNCHANGED events
    /\ UNCHANGED <<epoch, rows, convs, guards, inflight, calls, told>>

FailRun(h) ==
    /\ At(h, "failing")
    /\ Publish(h, "failed")
    /\ hs' = [hs EXCEPT ![h].pc = "save", ![h].seen = "failed"]
    /\ UNCHANGED <<epoch, rows, convs, messages, guards, inflight, calls, told>>

\* The outcome is saved, best effort, and the guard dropped after it.
SaveOutcome(h) ==
    /\ At(h, "save")
    /\ \/ /\ hs[h].kind = "submit"
          /\ rows' = [rows EXCEPT ![hs[h].req].state = hs[h].seen]
       \/ /\ hs[h].kind = "chat" \/ "faults" \in Kinds
          /\ UNCHANGED rows
    /\ Return(h)
    /\ UNCHANGED <<epoch, convs, messages, inflight, calls, events, told>>

\* delete_conversation's transaction, under its reservation.
DeleteRows(h) ==
    /\ At(h, "delete")
    /\ LET c == hs[h].conv  u == hs[h].user IN
       \/ /\ convs' = IF Titled(u, c) THEN [convs EXCEPT ![c] = "deleted"] ELSE convs
          /\ messages' = IF Owner[c] = u THEN {m \in messages : m.conv # c} ELSE messages
          /\ UNCHANGED inflight
       \/ /\ "lost" \in Kinds
          /\ inflight' = inflight \cup {[op |-> "delete", user |-> u, conv |-> c]}
          /\ UNCHANGED <<convs, messages>>
    /\ Return(h)
    /\ UNCHANGED <<epoch, rows, calls, events, told>>

\* The Core dies and starts again; transactions under way may still commit.
Crash ==
    /\ "crash" \in Kinds
    /\ epoch < MaxEpoch
    /\ epoch' = epoch + 1
    /\ guards' = {}
    /\ hs' = [h \in Handlers |-> Idle]
    /\ inflight' = inflight \cup {WriteOf(h) : h \in {k \in Handlers : At(k, "tx")}}
           \cup {[op |-> "delete", user |-> hs[h].user, conv |-> hs[h].conv] :
                    h \in {k \in Handlers : At(k, "delete")}}
    /\ UNCHANGED <<rows, convs, messages, calls, events, told>>

-----------------------------------------------------------------------------
Step(h) ==
    \/ Load(h) \/ Title(h) \/ Reserve(h) \/ Busy(h) \/ Poll(h) \/ Transact(h) \/ Reload(h)
    \/ Answer(h) \/ Spawn(h) \/ StartWork(h) \/ Dispatch(h) \/ ProviderEnds(h)
    \/ AppendReply(h) \/ FailRun(h) \/ SaveOutcome(h) \/ DeleteRows(h)

Next ==
    \/ \E h \in Handlers :
          \/ \E q \in Requests, p \in Payloads : Submit(h, q, p)
          \/ \E q \in Requests : Status(h, q)
          \/ \E u \in Users, p \in Payloads : Chat(h, u, p)
          \/ \E u \in Users, c \in Convs : Delete(h, u, c)
          \/ GiveUp(h)
          \/ Step(h)
    \/ \E w \in inflight : LateCommit(w)
    \/ Crash

\* Tasks are scheduled; provider calls and the poll have timeouts.  Database calls have
\* none: that each of them comes back, done or failed, is assumed.
Fairness == \A h \in Handlers : WF_vars(Step(h))

Spec == Init /\ [][Next]_vars
FairSpec == Spec /\ Fairness

-----------------------------------------------------------------------------
\* However a submission is retried, raced, lost, cut off or interrupted by a restart,
\* the provider is invoked at most once for its identity (runs.rs, submit).
OneInvocation == \A q \in Requests : calls[q] <= 1

\* No two workers, of runs or of synchronous chats, ever work in one conversation.
Working(h) == hs[h].pc \in Undispatched \cup Dispatched \cup Ending
OneRunPerConversation ==
    \A h, k \in Handlers : Working(h) /\ Working(k) /\ h # k => hs[h].conv # hs[k].conv

\* While every transaction is waited for, a conversation is never deleted under a run
\* that asks the provider or stores its reply.
RunHasConversation ==
    \A h \in Handlers : hs[h].pc \in {"provider"} \cup Dispatched => convs[hs[h].conv] = "live"

\* A worker has its conversation to itself, and has it as long as it works: neither
\* another run or chat nor a deletion gets in (the hub's run reservations).
ConversationIsHeld == OneRunPerConversation /\ RunHasConversation

\* A reserved run never loses its prompt while its conversation exists, even when no
\* worker was ever started for it.
PromptKept ==
    \A q \in Requests : rows[q] # None /\ convs[rows[q].conv] = "live"
        => Prompt(rows[q].conv, q) \in messages

\* A completion the clients were told of is backed by a stored reply, as long as the
\* conversation exists.
CompletedIsStored ==
    \A q \in Requests : <<"completed", q>> \in events /\ convs[rows[q].conv] = "live"
        => Reply(rows[q].conv, q) \in messages

\* What a client was promised is in the conversation: the prompt of every reserved
\* run, and the reply of every run announced as completed (runs.rs, submit and run).
ConversationIsKept == PromptKept /\ CompletedIsStored

\* A run reserved before a restart is never reported as running after it, not even
\* while a retry of it holds a reservation.
ToldRunning(q) == told[q] # "running" /\ told'[q] = "running"
EpochStep == \A q \in Requests : ToldRunning(q) => rows'[q].epoch = epoch'
OldEpochNeverRuns == [][EpochStep]_vars

\* Every request is answered or ends, also one that waits for another attempt.
HandlersReturn == \A h \in Handlers : hs[h] # Idle ~> hs[h] = Idle

\* No path keeps one of the few run slots.
SlotsFreed ==
    \A h \in Handlers : (\E g \in guards : g.by = h) ~> ~(\E g \in guards : g.by = h)

\* Every request ends and gives its run slot back, whatever failed on its way.
RequestsEnd == HandlersReturn /\ SlotsFreed

=============================================================================
