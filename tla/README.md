# PersonalJarvis: TLA+ models, checks and proofs

PersonalJarvis is a self-hosted assistant. A Rust service, the *Core*
(`jarvis-api`), serves the owner's devices over HTTP and WebSocket, calls language
model providers, keeps its state in SurrealDB and relays the few privileged changes
to small root services; command line tools and a desktop application administer its
host. This directory models the parts in which several tasks, processes and failures
meet, checks them with TLC on small instances, and proves every safety property so checked
with TLAPS for every value of the constants.

`PROJECT.json` lists the components, runs, mutants, hazards and theorems, and maps every
definition to the lines it models.

## 1. The system

### Components, their state and how they interact

| Component | State | Operations | Talks to |
|---|---|---|---|
| **Budget gate** (`budget_gate.rs`, `crates/usage`, `metering.rs`) | `BudgetBook` in memory, `llm_budget_reservations` and `llm_usage` in the database, `spent_cents` for the router | reserve, cancel, settle, sweep, reconcile, record usage, refresh the month total | Jev intent classifier, metered chats, database |
| **Realtime hub** (`realtime/`, client `EventCursor`) | subscriptions with bounded queues, epoch and sequence, voice leases; in the client a cursor | subscribe, publish, claim/renew/release voice, report playback, disconnect an owner | WebSocket tasks, identity, runs |
| **Assistant runs and chat** (`routes/runs.rs`, `chat.rs`) | `assistant_runs`, `conversations`, `chat_messages`; the hub's run reservations | submit with idempotent retry, poll, status, synchronous chat, detached worker, delete | hub, router, database |
| **Model control** (`routes/system.rs`, `jarvis-config-broker`, `jarvis-models.sh`) | protected policy and routing files, replay markers, directory lock; live copies in the Core | view, signed toggle, signed routing, relay, authorise, apply, root edit, restart | owner's device, root broker, root tool |
| **Coding** (`routes/coding.rs`, `jarvis-codex-broker`, `crates/codex`, `crates/sandbox`) | sessions, runs, reservations, checkpoints and artifacts in the database; workers, capabilities and health in the broker; workloads at the sandbox manager | reserve, admit, lease, run, cancel, save, finish, reconcile | Core, database, sandbox manager |
| **Identity** (`crates/identity`, `routes/auth.rs`, `routes/account.rs`, `local_devices.rs`) | accounts, sessions, devices, pairings, challenges, recoveries | bootstrap, pair, sign in, renew, act, revoke, recover | every route, hub, root's local socket |
| **Unlock requests**, **rate limiter**, **notifications** | request rows; windows and back-off in memory; push targets, queue, provider token | ask, approve, deny, poll; admit, fail, succeed; register, enqueue, send, retry | identity, APNs, ntfy |
| **LLM router**, **subscription workers** | catalog, cooldowns, live policy; slots and child processes of the two workers | plan, choose, fall back, call; admit, probe, run, answer | policy, budget, providers |
| **Agent actions** (`crates/agent`, `routes/agent.rs`) | pending actions, the workspace | propose, approve, deny, run | owner's devices, file system |
| **Memecoin paper trading** | lots, positions, pause, control rows | scheduled tick, buy, sell, pause, restart | database, market feeds |
| **IBKR broker** (`crates/ibkr`) | live session token, brokerage session, pacing, connection slots | mint, init, read, keep alive | IBKR, Core |
| **App downloads mirror** | protected and public release trees, active link | sync, import, promote, retire; check, download | GitHub, devices |
| **Admin console, tools, GUI** (`crates/admin`, `jarvis-core-admin`) | views and helpers; tool files; persona, Laya and account files; the administrator session | the operator's commands | systemd, root scripts |
| **Release updater** (`deploy/systemd`, `crates/store` migrations) | releases, links, units, tools, data and its cold copy | update, repair, migrate, roll back, restore, housekeeping | systemd, database |

Everything in bold is modelled, in full or for the part that carries its decisions (section
3). What is left out, and why, is section 7; the exact extent of each component is its `note`
in `PROJECT.json`.

### What is hard in it

* **Two copies of one fact.** Book and rows, live policy and file, stored run state and
  in-memory reservation, hub voice owner and what a client shows, reservation row and running
  workload, release link and database schema. Each pair is updated in two steps, with awaits,
  timeouts or a process boundary between them.
* **Dropped futures.** hyper drops a handler when its client disconnects, at whatever
  await it stands; what it had already sent to the database or the broker goes on.
* **Timeouts racing late effects.** One second for the durable reservation, two for the
  broker's answer, two for the duplicate's poll, 55 for a trading tick. The effect may land
  after the timeout.
* **Snapshot isolation.** A transaction is refused only when a row it *writes* changed; rules
  about rows it merely read need a row that both sides write.
* **Retries.** Mobile clients repeat submissions; signed requests may be sent again.
* **Crashes.** The Core restarts with an empty book, an empty hub and a new epoch; brokers,
  installers and the updater may die between any two steps.
* **Bounds.** Queue capacities, run slots, the budget's hard cap, tracked keys of the limiter,
  attempts, pacing gaps, a sequence that must not wrap.

The complete list, each hazard at its line with the properties that cover it, is
`hazards` in `PROJECT.json`.

### What makes each component correct

* Budget gate: a paid request that is out is counted for its whole admitted time, across
  crashes and failed writes; admission counts everything live; nothing pins budget for ever.
* Hub: a client never silently misses an event; voice owner and playback shown by an
  up-to-date client are the hub's; an ended session loses its socket.
* Runs: at most one provider invocation per request identity; the prompt is never lost; an
  announced completion is stored; one worker per conversation; no slot leaks.
* Model control: a signed approval takes effect once, exactly as signed, and no writer
  undoes another; the Core never grants what it did not verify.
* Coding: a reservation pays for one run, and its lease ends only when the workload is gone; a
  completion is backed by what was stored; a cancellation is never overtaken; everything ends.
* Identity: the counters of sessions, approvers and recoveries are what the rows say, and a
  decision once committed (revoked, denied, used) is not undone by what raced it.
* The services: each decides once what it must decide once, keeps its limits, and never reports
  what did not happen.

## 2. The modules

| Module | Models | Run by | Proofs |
|---|---|---|---|
| `BudgetGate` | budget gate, book, rows, metering | `MC_BudgetGate` | `BudgetGateProofs` |
| `RealtimeHub` | hub, WebSocket task, voice, client cursor | `MC_RealtimeHub` | `RealtimeHubProofs` |
| `AssistantRuns` | runs, chat, deletion, run reservations | `MC_AssistantRuns` | `AssistantRunsProofs` |
| `ModelControl` | Core handlers, broker, root tool, restarts | `MC_ModelControl` | `ModelControlProofs` |
| `CodingLedger` | abstract: what a reservation promises | through `CodingRuns` | `CodingRunsProofs` |
| `CodingRuns` | coding routes, broker, workers, sandbox manager | `MC_CodingRuns`, `MC_Brokers` | `CodingRunsProofs` |
| `IbkrBroker` | IBKR OAuth client and socket server | `MC_Brokers` | `CodingRunsProofs` |
| `Identity` | accounts, devices, sessions, recovery | `MC_Identity` | `ModelControlProofs` |
| `Notifier`, `BudgetNotice`, `Unlock`, `RateLimit` | the small services of the Core | `MC_Services` | `ServicesProofs` |
| `LotLedger`, `PaperLedger`, `PaperTrading` | lot accounting; the trader over its store | `MC_Services` | `ServicesProofs` |
| `AppMirror` | release mirror and device update routes | `MC_Services` | `ServicesProofs` |
| `LlmRouter`, `SubscriptionWorker` | routing of a request; the workers' sockets | `MC_Services` | `BudgetGateProofs` (router), `ServicesProofs` (worker) |
| `AgentActions` | approved changes of the workspace | `MC_Services` | `ServicesProofs` |
| `AdminConsole`, `ToolingPair`, `HostCommands` | console, tool replacement, persona and Laya | `MC_Host` in `MC_Services` | `HostProofs` |
| `AdminSession`, `ProviderAccounts` | GUI session, provider clients | `MC_Host` in `MC_Services` | `HostProofs` |
| `CoreUpdate` | updater, migrations, housekeeping | `MC_Host` in `MC_Services` | `HostProofs` |

`FiniteInduction` models nothing: it holds the lemmas on induction, sums and folds that the proofs share.
Proofs of components with no state in common share a module where that module is not full.

A step is what a task does between two awaits, one critical section of a mutex, one database
transaction, or one system call of a script. An operator whose comment begins with `Fault:`, or
whose name carries an underscore, is a plausible bug, one for each property, that makes TLC
report that property violated. It is used by nothing else.

Components meet at these seams. A run's voice claim is an action of `RealtimeHub` (`ClaimVoice`),
since the lease is hub state. The hub's run reservations are state of `AssistantRuns` (`guards`),
since nothing else reads them. Revocation is a transaction of `Identity`; `RealtimeHub` takes it
as a commit (`Revoke`) followed by the cut (`DisconnectOwner`), with other steps in between.
`CodingRuns` composes API, broker, database and manager and is shown to implement
`CodingLedger` (`INSTANCE ... WITH` the ledger's view of the rows and workloads).
`PaperTrading` runs on the ledger operators of `LotLedger`, which `PaperLedger` explores alone.
Components that share no state are checked side by side: `MC_Services`, `MC_Host` and
`MC_Brokers` pick a `part` at the start and only that part moves. `PartView` identifies states
that differ only in parts that do not move.

## 3. State and actions against the code

### BudgetGate

* `holds`, `actual` are `BudgetState` behind the book's mutex; `rows` the table
  `llm_budget_reservations`; `ledger` this month's sum of `llm_usage`; `spent` the router's
  atomic. `late` and `releases` are database calls nobody waits for any more.
* `Reserve` is the admission half of `BudgetGate::reserve`, `CreateOk`/`CreateFails` the
  awaited durable write, `LateCreate` a timed-out CREATE that lands anyway. `CancelUnsent`
  and `Settle` are the two ends of `decide_jev`; `Release` the detached UPDATE.
* `ChatReply`, `Record`, `ReadTotal`, `ApplyTotal` are metering: the month total is read in
  one step and applied in another, as `persist` does.
* `SweepBook`, `SweepRows`, `SweepRowsFails` are the two halves of the sweeper.
* `Crash` loses the book; `Start` is `main.rs`: seed the spend, expire, restore. A start whose
  reconcile fails does not happen; one whose month total cannot be read seeds zero, as the code does.
* Time is a tick of `1/TicksPerSec` seconds. The conversions are modelled by what they do:
  `TtlSecs` rounds up, `RemainingTicks` truncates two instants and adds a second back.
* Abstracted: amounts are whole cents given by `Amount`; pricing is not computed. Each call
  is a fresh identity, as the code's UUID is. Microcents and float rounding are left out.

### RealtimeHub

* `socks` joins `Inner.sinks` with the task that serves a socket, in the states `free`,
  `authed` (the extractor passed), `serving`, `sending`, `closing`. `attached` says that the
  hub still holds the sender. `voices` are leases with their remaining time, `inactive` and
  `cutting` the revocations committed and not yet cut, `clients` the cursor and what the
  device shows.
* `Publish` is `Inner::publish` under the mutex: number, append to queues with room, drop the
  sender of full ones. An oversized event detaches every sink (`PublishLarge`). At the largest
  sequence number the event is refused.
* `Connect`, `Subscribe`, `Refused`, `Receive`, `Send`, `Break`, `Close`, `Heartbeat` and
  `Pong` are `websocket.rs`. `ClaimVoice`, `ReleaseVoice`, `AskOwner`, `ReportPlayback` and
  `LeaseTick` are `hub.rs` and `voice.rs`. `Revoke`, `Logout`, `DisconnectOwner` are the
  routes that end sessions. `Restart` is a new process.
* `Accepts` and `Applied` are the client's `EventCursor`.
* Abstracted: an event is its kind, device and run; a later sign-in of the same device is
  another device; the log of envelope numbers is a history variable.

### AssistantRuns

* `rows`, `convs`, `messages` are the tables; `guards` the hub's reservations, each with the
  task that holds its `RunGuard`; `hs` the request handlers and, after `Spawn`, the detached
  workers; `inflight` transactions whose caller is gone and which may still commit.
* `Submit`, `Load`, `Title`, `Reserve`, `Busy`, `Poll`, `Transact`, `Reload`, `Answer` are
  `submit` and `status`, one action per await; `GiveUp` is a failed load or a dropped future
  at an await before `spawn`. `Spawn`, `StartWork`, `Dispatch`, `ProviderEnds`, `AppendReply`,
  `FailRun`, `SaveOutcome` are the worker and `execute_chat`. `Chat` runs the same worker
  without an identity. `Delete`/`DeleteRows` is `delete_conversation` with its reservation.
* `Crash` advances the epoch and drops handlers and guards; a transaction that was being
  executed moves to `inflight`.
* Abstracted: a body is its hash and the conversation it names; routing, prompt assembly and
  metering inside `execute_chat` are one provider call; conversation ids come from a finite
  set (`IdLeft` is the bound).

### ModelControl

* `policyFile` and `routingFile` are the protected files, `live` and `liveRouting` the Core's
  copies (`Suspended`, `Unavailable` when failed closed), `approval` what each identity signs,
  `handler` the holder of the Core's mutation lock, `jobs` the broker task of each connection,
  `used` the replay markers, `dirLock` the lock on the policy directory, `cli` the root tool.
* `View`, `Approve`, `Post`, `Connect`, `Answered`, `Unanswered`, `Drop` are the Core.
  `Authorise`, `Refuse`, `Apply`, `Write`, `BrokerCrash` are the broker. `CliLock`, `CliWrite`,
  `CliRestart` are `jarvis-models.sh`: toggles and routing edits restart the Core under the
  lock, a discovery does not.
* `Verified` is the readback check before activation, `Untouched` the one after a failure;
  either may find the file unreadable.
* Abstracted: a hash is the content it hashes; expiry, key pinning and signature failures are
  one `Refuse`; Hugging Face route overrides inside an entry and file modes are left out.
* `unwatched` is a history variable: some change was committed after the Core stopped looking.

### CodingLedger and CodingRuns

* `CodingLedger` is the promise: a reservation is issued once, leased by one run and finished
  once, a workload lives only under a lease, and a lease is finished only when its workload is gone.
* `CodingRuns` has the rows (`row`, `reservation`, `session`, `checkpoint`, `artifacts`,
  `consumed`), the manager's `sandboxes`, and the broker's memory (admission, workers, active runs,
  capabilities, health, the reconciliation in progress). One action is one awaited call.
* `StartRun` to `AdmitRelease` are admission; `BeginRun` to `LeaveRegistry` a worker; `CancelRow` and
  `CancelSignal` the cancellation; `MaintenanceTick` to `PublishHealthy` the maintenance loop;
  `Crash`, `Restart`, `WorkerDies` and a failing `Call` the faults, at most `MaxFaults`.
* `ImplementsLedger` is the refinement: a reservation is live at the ledger while the manager
  runs its workload. The production binary carries an adapter that refuses every run; the module
  is the broker with an adapter, as its tests run it.

### IbkrBroker

`token`, `brokerage` and the pacing slots are the client's locked state, `read` a request in a
connection slot or the keep-alive. Every instant is the ticks left until it. `TakeToken`,
`StartMint`, `MintSucceeds`, `MintFails`, `Reserve`, `SlotComes`, `IbkrAnswers`, `Refused`,
`Unauthorized` are the stages of a request; `Deadline` drops one wherever it is.

### Identity

A transaction takes its snapshot in `Begin` and is refused at its commit if a row it writes was
written since; `txn` holds the open ones with the rows they will write. Bootstrap, pairing,
challenge login, renewal, logout, signed account actions, recovery and root's commands are
actions. Time only takes possibilities away (`TimePasses`).

### The small services of the Core

* `Notifier`: push targets as transactions with a unique token, the coalescing queue, the worker's
  attempts towards APNs and ntfy, the provider token's age. `BudgetNotice`: the marker of the
  month against refreshes that finish in any order.
* `Unlock`: creation that supersedes, approval as read, signature check and conditional claim.
* `RateLimit`: fixed windows in a bounded table with eviction, lockout, password back-off. A login
  looks at the back-off (`PassBackoff`), takes its Argon2 permit later (`TakePermit`) or ends without
  one, and its verdict is noted when it is answered, or never if the caller has left.
* `LotLedger`: `open`, `close`, costs, trips and the promotion gate as operators. The lots are a
  function from places in order of purchase, so that a sale's first-in-first-out loop is written lot
  by lot. `PaperLedger` applies the operators in every order; `PaperTrading` is the tick over its
  store, cancelled anywhere; `late` is a write the tick gave up on, stored at any later time or never;
  `paused` is the flag the trader keeps in memory.
* `AppMirror`: every durable step of a sync, kills between them, and what a device is offered.
* `LlmRouter`: plan, choice of model, cooldown, fallback, research, streams; `Turn`, `SwapRouting`,
  `Toggle`, `Discover`, `Suspend` and `Registry` change the files under a request.
* `SubscriptionWorker`: slots, read, probes, run, kill, and the three deadlines of a prompt.
* `AgentActions`: count and create, approve, claim, resolve, open and write one path that other
  processes change.

### The host's tools

* `AdminConsole`: one action per key, per child's end and per load, over the view, the dialog, the
  helper that runs and the Update Center's screen.
* `ToolingPair`, `HostCommands`, `ProviderAccounts`: each command one system call at a time, with
  failures and kills. `AdminSession`: calls of the window that take a mutex in any order, the root
  broker and its idle time.
* `CoreUpdate`: releases, the current link, units, tools, the data's schema and its cold copy; the
  updater's steps with their undo, the Core that migrates at its start, power loss, and the
  housekeeping that removes releases.

## 4. The runs

| Run | Checks | What it shows |
|---|---|---|
| `budget_faults` | `InFlightCounted`, `AdmissionCountsLive`, `NoRevival`, `BudgetReturns` | two reservations of different size, or one beside a metered chat, under every fault and a month rollover, half-second ticks |
| `budget_overspend` | `BudgetReservedOnce` (violated) | finding 1 |
| `hub_fanout` | `NoSilentGap` | two devices, two sockets, overflow, oversized events, exhaustion, restart |
| `hub_voice` | `VoiceIsConsistent`, `RevokedLoseSockets` | claims, lapses, playback reports, revocations and logouts in every order |
| `runs_retry` | `OneInvocation`, `ConversationIsKept`, `OldEpochNeverRuns` | three attempts of one request, two bodies, lost and late transactions, a restart |
| `runs_live` | `ConversationIsHeld`, `RequestsEnd` | submissions, chats, status and deletions of two users, fair scheduling |
| `model_relay` | `ApprovalOnce`, `ActiveIsCommitted`, `LiveIsCurrent`, `NoLostEdit`, `NoPiggyback` | two approvals on two connections beside root edits, with crashes of both processes |
| `model_stale` | `NoStaleGrants` (violated) | finding 2 |
| `brokers` | `ImplementsLedger`; `SessionIsShared` | two coding runs over two reservations without faults, every interleaving; two IBKR reads beside the keep-alive |
| `coding_faults` | `WorkloadIsRecoverable`, `RunsAreSettled`, `RunsEnd` | one coding run under three faults of any kind, statements applied with their reply lost included |
| `identity_account` | `CredentialsAreCounted`, `DecisionsHold` | two phones, two challenges, two open transactions |
| `services` | one property for each of sixteen parts, below | the services and host tools, one at a time |

The parts of `services`: `TokenHeldOnce` (a push token belongs to one device), `BudgetWarnedOnce`,
`UnlockDecidedOnce`, `GuessingIsLimited` (lockout and back-off let through no more than
was under way together), `LedgerConserves` (what was paid and earned is what lots, trips and results add up to),
`PaperBookIsSound` (limits, replay of the stored rows, pauses, failed sells, with writes that land
late), `MirrorIsTrue` (what is offered can be fetched and versions only grow), `RoutingIsObeyed` (no attempt the policy
of its moment forbids, no silent payment), `RunsAreContained` (no CLI outlives its request, and
no helper of a stopped Codex run; slots and research are bounded), `ActionsAreContained` (what runs is what was approved, once, inside the
workspace), `MutationsAreKept` (no key of a view closes the console over a running
mutation; in a dialog one does, section 5),
`PairIsWhole`, `OutcomeIsTrue` (what a command says is what it left), `SessionIsSound` (transactions
run to their end, no grant outlives its window, a page is of one bundle),
`AccountsAreSound`, `UpdatesAreSafe` (a host always has a release that starts on the data
it has, reports without a line CRITICAL are true, the rollback is kept).

Passing runs explore between twenty thousand and 2.3 million distinct states, and every action
fires in some passing run. Deadlock is checked except in `identity_account` and `services`, whose
parts really stop when their bounded supply of requests, commands or releases is used up. In the
runs with actions that are always possible (`Tick`, `View`, `AskOwner`, `Heartbeat`, a new
submission) it says little; what waits for what is covered by the liveness properties instead.

### Bounds and why they are enough

* **BudgetGate.** Two calls and a cap of two make both refusals and admissions happen, and
  make amounts differ so that "the larger amount" of a failed settlement shows. Two ticks per
  second is the coarsest resolution at which rounding up and truncating differ. Three calls in
  `budget_overspend` are what the trace needs. The proofs need none of these bounds.
* **RealtimeHub.** Queue capacity two holds a full queue with something behind its head.
  `MaxSeq` four lets a subscriber be ready, miss an event and be sent another, and
  reaches exhaustion. Two epochs are a restart. Devices of one owner and sockets are
  interchangeable, so `PeerSymmetry` is sound in the run that uses it, which checks no liveness.
* **AssistantRuns.** Three handlers: a first attempt, a duplicate that waits for it, and one
  that arrives after either. Two bodies tell an idempotent retry from a conflicting one, one
  continues a conversation and one starts one. Two epochs are a crash. `runs_live` uses two
  handlers and no symmetry, since it checks liveness.
* **ModelControl.** Two requests and two connections: the same approval twice, or two
  approvals at once. One granted and one undiscovered model, one routing document, two boots.
* **CodingRuns.** Two runs compete for a session, two reservations and two slots; one run with
  three faults reaches a crash during the recovery from a crash. In
  `brokers`, where nothing but safety is checked, runs are interchangeable (and so are the reads
  of the IBKR part), and the pair of runs leaves out archived sessions and runs that time out,
  which `coding_faults` has (`PairScope`).
* **Identity.** Two open transactions are what a write conflict needs, two devices what a
  revocation by another needs.
* **services.** The bounds of each part are beside it in `Services.cfg`: two of everything that
  races, limits of one or two so that they are reached, and one or two deaths. `MaxPending`,
  `QueueCapacity` and `TrackedKeys` of one make the limit the common case. The two that race are
  `x1` and `x2` in every part, so that one exchange (`PairSymmetry`) serves all of them; nothing
  in the code tells two requests, terminals or devices of one kind apart. The limiter forgets a device
  after `Memory` = 2 ticks of three, and three of a device's requests may be past the back-off with
  two permits, so that one more is checked than there are permits. Of the writes a tick gave up on, one
  is on its way at a time; `MaxTrips` = 2 and `MaxOpen` = 1 let it land above the limit, or after a trip
  of its mint has closed. `MaxBundle` = 2 is one agent update while a page is read. Updates have three
  releases, the second of which migrates, on a host that starts with the first.

Every safety property of a passing run is also proved for all values of the constants (section 6),
so for those the bounds decide only what TLC can show wrong quickly; for the liveness properties
they are the scope of the claim.

`Kinds` and `Faults` choose which activity a run explores. They restrict the environment
only; the code's own steps are in every run. `runs_live` leaves out `lost` and `crash` because
`ConversationIsHeld` is stated for transactions that are waited for: a deletion whose caller is
gone may commit under a later run (`LateCommit`), whose worker then stores its reply in a
deleted conversation.

### Fairness

* **BudgetGate**: time passes (`WF Tick`), the sweeper's interval timer fires (`WF
  SweepBook`) and its database call ends one way or the other, systemd starts the Core again
  (`WF Start`). `SF SweepRows` assumes that the database does not refuse every sweep for ever.
  No fairness is assumed of callers: they may hang or vanish, which is what `BudgetReturns` is
  about. `ScopedSpec` is `FairSpec` from the two initial loads of the run.
* **RealtimeHub** `FairSpec`: the serving task runs and its writes have a timeout (`WF Serve`);
  its heartbeat timer fires while it waits between two events, for which it needs strong
  fairness, since each event it sends takes it away from the `select!` for a moment.
* **AssistantRuns** `FairSpec`: `WF Step(h)`. Tasks are scheduled, provider calls and the poll have
  timeouts. The queries of `runs.rs` (65-69, 201-208) have none: that the database answers or refuses
  each of them is an assumption, not something the code ensures. No fairness on `Submit`, `GiveUp`, `LateCommit` or `Crash`.
* **CodingRuns** `CodingFairSpec`: admission, workers and reconciliation are scheduled, the
  maintenance interval fires, systemd restarts the broker. The sandbox client has a timeout of
  15 s; the broker's database queries have none, and that each of them ends is an assumption. None on
  requests to cancel or faults, of which there are at most `MaxFaults`.
* The other modules have no liveness property. In **ModelControl** each wait of the handler ends by a
  two-second timer, which is `Unanswered`, enabled from the moment the handler waits.

## 5. Findings: what the code says of itself and does not keep

1. **The same budget can be reserved twice** (`budget_overspend`). `crates/usage/src/lib.rs:661`:
   "concurrent requests cannot reserve the same remaining budget". `settle` adds the cents to
   `actual_cents` and frees the hold before the usage row is written. A concurrent reply's
   `reconcile_actual` (line 772) then replaces `actual_cents` by a total without that row, and
   a third call is admitted against cents already spent. Nothing fails in the trace.
2. **A withdrawn grant may stay live** (`model_stale`). `live_policy.rs:31`: "A broker outcome
   that cannot be reconciled must never leave stale grants active." After a timeout the file is
   read back once; if the broker commits afterwards, or the handler was dropped by its client,
   nobody reads again before a restart. `LiveIsCurrent` in `model_relay` shows the converse:
   without such a commit (`unwatched`), the Core never grants more than the file does.

### Windows without a run of their own

Behaviours the models have, or were narrowed around, that a maintainer should know of:

* **Budget.** `metering.rs:103`: two replies read the month total in one order and apply it in the
  other; the older stays until the next metered reply. `main.rs:274`: a month total that cannot be
  read at start is taken as zero while `budget_gate.rs:139` says an error aborts the start.
  `budget_gate.rs:128`: a crash between the detached release and the recording leaves neither row
  nor usage.
* **Hub.** `hub.rs:382` says a full queue disconnects "after draining"; the serving task leaves
  on its next receive because `is_closed()` holds (`websocket.rs:79`). The client still recovers.
* **Runs.** `runs.rs:87,94`: the row is loaded before, the reservation looked up after, the worker
  saves its outcome, so a completed run may be reported interrupted, against
  `docs/REALTIME_PROTOCOL.md:127`. `runs.rs:144`: a retry under the identity of a run that ended
  without saving makes it look running meanwhile. `runs.rs:135`, `chat.rs:825`: a deletion between
  the title check and the reservation lets a prompt be written into a deleted conversation.
* **Coding.** `jarvis-codex-broker.rs:221`: the epoch is compared and health stored in two steps,
  against the comment at 91. Line 862: the checkpoint's UPDATE revives an archived or cancelled
  session. Line 867: when the reply to the "completed" UPDATE is lost after it was applied, the
  artifacts are discarded and the run stays completed without them; `ArtifactsAreKept` excepts
  exactly that step. A crash between saving and marking leaves their directory. The manager is assumed to list a workload as soon as
  its creation was accepted.
* **Identity.** A revocation or password change open while a login commits may be passed by a
  renewal beside it (write skew). Two pairings may pass the duplicate check at once.
* **Notifications.** `last_sent` is marked before `try_send`. A registration that read its device as
  active may commit after the revocation; a revoked device may still get a content-free push; the
  deletion of an unregistered token may remove its re-registration. A restart forgets the provider
  token's age. Near a month boundary a total may count for the wrong month.
* **Unlock and agent actions.** An approver may be revoked between signature check and claim. A
  denial ignores expiry. The cap on pending actions is counted, then used. A claim whose reply is
  lost leaves "executed" without a run. A preview may be stale at execution, and a commit takes
  whatever the tree holds then. A link that leads back to the checked file after it was moved out of
  its place has the checked inode and is followed; the model has no such link. A parent directory replaced between resolve and open is followed,
  as the code's comment says; `OtherProcess` leaves that out.
* **Limiter.** Eviction resets counters. `rate_limit.rs:184` says that up to the number of Argon2
  slots of guesses can be in flight when a back-off begins. The back-off is looked at in the route
  (`routes/auth.rs:580`, `account.rs:69`) and the permit taken some awaits later
  (`password.rs:166`), without a second look: all requests past the check may guess, one after
  another. `MaxPassed`, which no line of the code bounds, stands for their number. A verdict whose
  caller has left is never noted.
* **Router.** A cooldown is overwritten by a later shorter failure or removed by a slow earlier
  success; a plan made before a failure still tries the barred backend.
* **Workers.** For Claude the probes run before the run's full timer, so the reply deadline may fire
  first although `subscription_worker/mod.rs:46` says otherwise. Core's timeout equals the worker's
  reply deadline, so Core may give up while the run holds its slot. A Codex helper detached from its
  pipes survives a normal exit. The Claude worker starts its CLI with `kill_on_drop` and no process
  group (`jarvis-claude-worker.rs:206`): what the CLI of a run that was cut off had started lives on
  until the unit stops. The probes are taken to start nothing. `docs/SUBSCRIPTION_WORKERS.md:544`
  says one slot always stays free for chat; a second research request has it while it is being read
  and before it is refused, for five seconds at most.
* **Paper trading.** `memecoin.rs:42` says that cancelling a tick is safe because the next one reloads
  the rows. A write given up on may be stored after the next tick (60 s) has loaded them: a trip above
  the limit, a trip opened past a pause, or, if another trip of its mint was opened and closed
  meanwhile, rows that never replay again, which stops entries and the report. `store.rs:500` says
  that the read-modify-write of a cost cannot race; a late one replaces the day's total and loses the
  costs added since. A repeated pause keeps the first one's time; a pause answered 503 is lost by a restart.
* **Mirror.** The Android download serves whatever is active. When a retirement fails and a release
  cannot be moved back either (`mirror/store.rs:202`), it is deleted with the temporary directory while
  the page links it, until the next import renders the page; the AltStore list may be stale until the next import.
* **IBKR.** A restart forgets cooldown and back-off. A mint whose slot was checked just before a 429
  may still leave.
* **Admin console.** Ctrl-C in a dialog closes over a mutation (`tui_app.rs:1010`,
  `docs/ADMIN_TUI.md:38`). A refresh is skipped while an older load is pending; "Updated
  successfully to" names a stale release; a failing poll kills a mutation. A failing `laya enable`
  stops units the Core still consults.
* **Laya.** `write_atomic` may fail at the directory's fsync, after the rename (`laya.rs:910`): the
  new mode is then in place with neither undo nor restart. `systemctl restart` may fail with the old
  Core running (`laya.rs:1120`). After "off is saved, but Core did not report ready" the same command
  again answers that nothing changed, without a restart.
* **GUI.** A lock queued behind an operation may be overtaken by a later authenticate, which reuses
  the broker without a password and is then closed by the late lock (`jarvis-core-admin/README.md:59`).
  A broker that died stays in its slot until expiry. Changes that pass 120 s as root are reported
  timed out though they may complete (`admin.rs:28`).
* **Accounts.** Enable and disconnect take no lock. A kill between keeping the previous client and the
  rename loses the older copy. The worker's version gate and its run are two steps.
* **Updates.** "restored <tag>" (`update-core-release.sh:1072`) and "rollback completed" (`:1438`) are
  printed whenever the activation returns 1: also after the line CRITICAL (`:1022`) that says the
  restoration failed, and after a refusal (`:928` on) that touched nothing. `ReportsAreTrue` speaks of
  runs without that line. A refused migration leaves Core and database stopped. The renames of the
  link (`:1013`, `:892`) and those that put the tools back (`:697`) are not looked at, as `errexit` is
  off inside an `if`: a run may say "activated" or "restored" with the link where it was or a mixed
  set of tools. A failed repair
  reports "previous unit policy restored" even when that failed
  (`update-core-release.sh:1048`). A kill while tools are installed leaves a mixed pair that
  `--latest` does not repair (`:1033`). Power loss between the two renames of a restore leaves no
  database directory; the next start creates an empty one. The model has the owner put the copy back
  first, as `docs/JARVIS_ADMIN_CLI.md:586` asks.

## 6. The proofs

All are checked by TLAPS for every value of the constants that satisfies the named `ASSUME`s of the
modules, which TLC also evaluates in each run.

**`FiniteInduction`.** The library's induction theorems take a predicate as a parameter, which the
provers cannot instantiate. Its minimum principle of a well-founded relation takes a set, and gives
`LeastNatural`; from it `NatInduces` and `SubsetInduces` state induction with a *set* of numbers, or
of subsets of a finite set, in place of the predicate. `LargestOf` and the lemmas on sums follow:
the recursion of `MapThenSumSet` defines a function (`SumExists`), the order does not matter
(`SumTakesAny`), and more elements with larger weights have a larger sum (`SumIsMonotone`).
`FoldExists` does the same for the fold of a step function over a finite set.

**`BudgetGateProofs`.** `TypeCorrect`; `InFlightCountedAlways`; `NoRevivalAlways`;
`AdmissionCountsLiveAlways`. `InFlightCounted` is not inductive: it says nothing of a call being
admitted, nor of who may still write its row. `IndInv` adds three parts for each call. `WritersInv`:
before the durable write there is no row, a late CREATE belongs to a refused call without one, and a
release is only in flight for a call that is over. `AdmittedInv`: a call between admission and its
write is held by a running Core's book. `IssuedInv`: a request that is out has a row and a hold that
outlast it. The arithmetic is in two lemmas: `RoundsUp` (the row's life is at least the TTL) and
`RestoredOutlasts` (a restored hold is at least what the row had left). The proof has one lemma for
a call's own steps, one for what it leaves alone of the other calls, one for metering and one for
the sweeper, clock, crash and start. `AdmissionCountsLiveAlways` is the point of the gate: by
`IndInv` every live request is a hold of at least its amount, so the sum the book tests is at least
the sum of the live requests (`LiveIsReserved`). Assumptions: `Ttl` and `TicksPerSec` are positive,
amounts and limits natural numbers.

The router, which decides what the gate is asked for, is proved in the same module.
`RoutingIsObeyedAlways` (`RouterInv`. `PlanOf`: every step still in the plan was allowed by the
routing, the toggles and the discovery the plan was made from, and a metered backend behind a
subscription in the same chain only where the tier says so. `CallsOf`: a stream is called at most
once and a request for one model makes at most one call.) Most of the work is in the lemmas on the
plan: that sorting, skipping and appending keep every step one of the chain's. Assumptions: routings
are as `validate` leaves them and the catalog is numbered.

**`RealtimeHubProofs`.** `TypeCorrect`; `NoSilentGapAlways`; `VoiceIsConsistentAlways`. The events
on their way to a client (the envelope being written and the queue of its socket) continue its
cursor without a gap. `EventsInv`: from each of them on, no event of its user is missing while the
socket is attached. `ClientInv`: none is missing between the client's cursor and the first of them,
unless a `connection.ready` is still to come. `ViewInv`: the last owner event on its way, or else
what the client shows, is the hub's owner. `PlayInv` and `LeaseInv`: no event on its way announces
as started a run that an earlier one, or the client's memory, ended, and a run has at most one
lease. One critical section may publish several times, so every part takes the hub's record as a
parameter and one lemma on `Publish` serves all of them. The purge of lapsed leases is a fold over
the users, proved by `SubsetInduces`. Assumptions: users are finitely many, the sentinel is nobody's
name, queues and leases are not of size zero.

**`AssistantRunsProofs`.** `TypeCorrect`; `OneInvocationAlways`. `IndInv` adds what a handler's
place says of its fields (`HandlersShaped`), that a worker which has not yet dispatched is the only
one of its run (`FreshAlone`) and nobody dispatched before it (`FreshUncalled`), and that a
dispatched run is stored (`CalledStored`). The argument: a worker starts only from a commit of the
reservation, a commit needs that no row exists, and rows are never removed. It holds with any number
of handlers, requests, slots and restarts; it does not use the hub's reservations at all, which is
why they may be lost in a crash.

The conversations are in the same module. `ConversationIsKeptAlways` needs `KeptInv`: a submission
that may still commit, waited for or not, carries either a conversation id that is new and nobody
else's (`MintedOnce`) or one that existed (`CarriedConvs`), and a stored run has its conversation
(`RowsHoused`). So a late commit cannot write into a conversation that somebody else's deletion
emptied without the run being gone with it. `OldEpochNeverRunsAlways` uses the last part, which also
says that a worker not yet spawned is of the epoch that stored its run. `HoldInv` says that workers,
submissions in their transaction and deletions hold the only reservation of their conversation; it
gives `OneRunPerConversationAlways` under every fault and, together with `HeldInv`,
`ConversationIsHeldAlways`. That theorem assumes `Kinds` has neither `lost` nor `crash`, the scope
of the run that checks it, and it is false without: see *Runs* in section 5.

**`ModelControlProofs`.** `TypeCorrect`; `ApprovalOnceAlways`; `ActiveIsCommittedAlways`;
`NoLostEditAlways`. `MarkerInv`: a connection past the replay marker has it, and shares its request
with no other such connection. `RelayInv`: a connection carries a signed request from its start.
`LockInv`: whoever read a file to replace it holds the directory lock and the file is still as it
was read, which makes the read-modify-write of broker and root tool safe. `LiveIsCurrentAlways` adds
`CurrentInv`: whenever the live copy grants more than the file, somebody will still look: the
handler that watches the commit, the tool that is about to restart the Core, or nobody, which
`unwatched` records. `NoPiggybackAlways` adds `ToldInv`: a handler that still waits has not told the
owner anything.

**`CodingRunsProofs`.** `TypeCorrect`; `WorkloadIsRecoverableAlways`; `RunsAreSettledAlways`;
`ImplementsLedgerAlways`. One invariant serves all: `CodingInv`. `BindingInv`: a reservation and the
run that leased it name each other. `AdmissionInv`: a request is admitted once, under the reconcile
lock, and until its worker exists nobody else has touched the run. `WorkerInv`: the registry is the
set of runs with a worker, and a worker holds its lease until it leaves. `BoxInv`: a workload has a
lease, a row that is not terminal and no worker that gave up on it. `RecoveryInv`: what the
reconciliation read before its awaits is still true of the runs it will touch. `OutcomeInv`: what a
completion rests on is stored before it is announced; that the artifacts stay, but for a completion
whose reply was lost, is then shown step by step (`ArtifactsAreKept`). The refinement is proved action by action:
most steps leave the ledger's view alone, and the leasing, starting, terminating and finishing ones
map to the ledger's own. The other broker is proved in the same module: `SessionIsSharedAlways`
(`MintLockInv`: the mint lock is held by the task in the handshake and its cooldown outlasts it;
`PaceInv`: no slot is reserved twice, and what was sent in a tick has used that tick's slot;
`OpenInv`: the generation a task looked up is not newer than the one that signs, and the session the
broker believes open is one IBKR has).

**`ServicesProofs`.** Nine services with no state in common. `BudgetWarnedOnceAlways` (`NoticeInv`:
a month without a mark has had at most the warnings of blind starts). `UnlockDecidedOnceAlways`
(`UnlockInv`: who decided is on record, and a superseding transaction not doomed still replaces
pending rows). `TokenHeldOnceAlways` (`PushInv`: a registration not doomed writes the index entry of
its token and every device that holds it). `ActionsAreContainedAlways` (`AgentInv`: one approval at
most is past its claim of an action, with the row claimed in its device's name, and a checked path
is inside the workspace). `RunsAreContainedAlways` (`WorkerInv`: per prompt, which process exists at
which stage; `SlotsInv`: the busy prompts are finite and within the semaphores, by the library's
cardinality theorems). `GuessingIsLimitedAlways` (`LimitInv`: the tables are finite and within their
limit through every eviction, and the wrong guesses at a device's password, with those still being
past the back-off, are within the free ones and `MaxPassed` for each of the ticks gone by). `MirrorIsTrueAlways`
(`MirrorInv`: what is public, active or offered is mirrored and stays, the import's document goes on
from the active one, and `PageOK` says at each step what the page links; `RetainedStays`: what the
retention rule kept it keeps again, since every count it makes is over fewer versions; what is moved
away was to be retired, so that only such a release can be lost).
`LedgerConservesAlways` (`LedgerInv`: the dates of lots and trades of a mint follow one another, and
realised profit with the part-closed trips is what sales earned less the cost of what was sold. The
lot-by-lot loop of a sale is a sum over finite sets, and the lemmas say how it splits between the
lots sold and kept). `PaperBookIsSoundAlways` (`PaperInv`. `BookTimes`: a trip of
a mint is opened only after the last was closed, as long as no late trip was overtaken. `TickFits`:
what the tick remembers still bounds the rows, with the write on its way counted (`Coming`), which
is why the limit may be passed by one. `OwedLate`, `OwedTick`: failures about to be counted are paid.
`PauseKept`: a pause the owner was told of is stored, and known to the tick once it has looked. That the book can be replayed is `Rebuilt`, by induction over the early parts of the
event order: the ledger's lots are exactly those of the trips open in that part, so each close finds
its own trip's lot). The assumptions say that coins are finitely many, that the watchlist is of
coins, that the names of inodes and of failures are none of the words the models use for other
things, and that the back-off doubles a bounded number of times.

**`HostProofs`.** `PairIsWholeAlways` (`PhaseInv`: where the run is says what it has staged, backed
up and activated; `ToolsStay`: no tool that was there is gone). `OutcomeIsTrueAlways` (`HostInv`:
the locks belong to the one terminal past its question, `CmdOK` says at each stage what files and
service are, and when nobody holds the locks the Core's files are settled, or `astray` says which
failure unsettled them). `MutationsAreKeptAlways`
(`ConsoleInv`: a mutation is tied to the view it was started in, which is not left while it runs,
and a rollback to the list on the screen). `SessionIsSoundAlways` (`MutexInv`: the call at the mutex
waits for its password or for the broker in the slot, which then runs this call's operation;
`WindowInv`: a locked window with a session still has a call that ends the session or unlocks it).
`AccountsAreSoundAlways` (`JobOK`: what the stage of a command says of the lock, of the runtime it
replaces and of the worker units it stops; `FilesOK`: target and previous runtime are alike only
between the renames). `UpdatesAreSafeAlways` (`UpdateInv`. `DataOK`: the current release is whole
and can open the data, or the copy that will replace it. `RunOK`: what a run goes between, how far
it has come (`StageOK`) and what each step of going back has restored (`BackOK`), except for what
`missed` says the unchecked renames left undone. `PlanOK`: what housekeeping read stays
true of the releases it will spare).

**`ModelControlProofs`, on `Identity`.** `CredentialsAreCountedAlways`; `DecisionsHoldAlways`. The
argument is the one the code makes in its comments: under snapshot isolation a transaction may rely
on what it read exactly when everybody who changes it writes a row that the transaction writes too.
`RowsHold` says for each kind of open transaction, unless doomed, what it may still rely on: the
anchor of a renewal is live, the owner row guards the last approver, the signing device's row guards
a recovery. `Disciplined` is the other half, what a step must write in order to change any of it,
and one lemma (`OthersKeep`) joins the two, so each action is only shown to be disciplined. What
write skew leaves open is in the invariant as the flag `beside` of a session made while a
transaction that ends sessions was open. `LoginInv` and `SessionInv`: a claimed challenge belongs to
one login, and then to one session.

Each inductive invariant was first checked by TLC as an invariant of the run's instance.

Only model-checked, because the prover cannot: the four liveness properties, `BudgetReturns`,
`RequestsEnd`, `RunsEnd` and `RevokedLoseSockets`. Every other property of a passing run is a
theorem.

## 7. Not modelled, and the plan

About a quarter of the Rust lines are tests, and a large part of the rest decides nothing another
step depends on: rendering of the console and the desktop views, parsing and validation of
arguments, settings and payloads, HTTP adapters of providers and market feeds, speech signal
processing, thin handlers over the stores. Those stay outside for good, and the share of
mapped lines stays well below the whole for that reason. `PROJECT.json` names each with its reason.
Inside modelled components: session expiry by time and development enrolment (`Identity`); the
account-wide password counter, which follows the rule of a source (`RateLimit`); `sync-ios`
(`AppMirror`); installing Laya (`HostCommands`); releases without managed units, the policy
layout change and `jarvis-backup`, which takes the same lock (`CoreUpdate`); archive and patch
validation (`CodingRuns`); strategy rules and quotes (`PaperTrading`); read-only agent actions.

What is left of the plan is models: the IBKR portfolio's synchronisation, the storage migration of the
model policy and its crash points, the pricing arithmetic as operators, the reloadable registry.

## 8. Running it

    tlasany BudgetGate.tla
    tlc -workers 2 -config BudgetGate_faults.cfg MC_BudgetGate
    tlc -workers 2 -config Services.cfg MC_Services
    tlapm BudgetGateProofs.tla

A file `<Module>_<run>.cfg` belongs to `MC_<Module>`, `Brokers.cfg` to `MC_Brokers` and
`Services.cfg` to `MC_Services`. The runs marked violated in section 4 end with a counterexample.
