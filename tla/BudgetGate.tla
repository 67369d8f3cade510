----------------------------- MODULE BudgetGate -----------------------------
(***************************************************************************)
(* The paid-call budget of the Core: the in-memory BudgetBook, the durable *)
(* reservation rows that mirror it, the callers that go through it (the    *)
(* Jev intent classifier), the usage ledger and the refresh of the monthly *)
(* spend that every metered reply performs.                                *)
(*                                                                         *)
(*   jarvis-api/src/budget_gate.rs, crates/usage/src/lib.rs (BudgetBook),  *)
(*   crates/usage/src/surreal.rs, jarvis-api/src/intent.rs (decide_jev),   *)
(*   jarvis-api/src/metering.rs, jarvis-api/src/main.rs                    *)
(*                                                                         *)
(* Time.  A tick is a fraction of a second (TicksPerSec of them make one). *)
(* An expiry instant is kept as the ticks that remain until it; a hold or  *)
(* a row with none left has lapsed (expires_at <= now).                    *)
(***************************************************************************)
EXTENDS Integers, FiniteSets, FiniteSetsExt

CONSTANTS
    Calls,        \* reservations; each is a fresh "jev:<uuid>" used once
    Chats,        \* metered replies that never reserve (assistant chat)
    Amount,       \* Amount[c]: projected cents of reservation c
    ChatCosts,    \* cents a chat reply may cost (0: free or failed)
    Hard,         \* monthly_hard_cents
    PerRequest,   \* per_request_hard_cents
    Ttl,          \* JEV_RESERVATION_TTL, in ticks
    TicksPerSec,  \* the resolution of the clock
    MaxActive,    \* MAX_ACTIVE_ON_START
    Faults        \* which faults the environment may inject

FaultKinds == {"crash", "abandon", "store", "rollover", "slow"}

ASSUME SetsAssumption == Calls \cap Chats = {} /\ IsFiniteSet(Calls)
ASSUME AmountAssumption == Amount \in [Calls -> Nat] /\ ChatCosts \subseteq Nat
ASSUME LimitsAssumption == Hard \in Nat /\ PerRequest \in Nat /\ MaxActive \in Nat
ASSUME ClockAssumption == Ttl \in Nat \ {0} /\ TicksPerSec \in Nat \ {0}
ASSUME FaultsAssumption == Faults \subseteq FaultKinds

Tasks == Calls \cup Chats

VARIABLES
    up,        \* is the Core process serving?
    phase,     \* ticks since the last whole second of the wall clock
    actual,    \* BudgetState.actual_cents
    spent,     \* AppState.spent_cents, the router's own view of the month
    holds,     \* BudgetState.reservations
    rows,      \* llm_budget_reservations, by task_id
    late,      \* CREATEs sent to the database whose caller no longer waits
    releases,  \* release UPDATEs sent to the database and not yet executed
    sweeping,  \* the sweeper stands between the book and the database
    pc,        \* where each task stands
    cost,      \* the cost a task is about to record
    total,     \* the month total a task has read and not yet applied
    ledger,    \* this month's total of llm_usage
    ttl        \* history: ticks left of the time a call was admitted for

vars == <<up, phase, actual, spent, holds, rows, late, releases, sweeping,
          pc, cost, total, ledger, ttl>>

book == <<actual, spent, holds>>
store == <<rows, late, releases>>
task == <<cost, total, ledger>>

Hold == [status : {"none", "held"}, cents : Nat, left : Nat]
Row == [status : {"none", "active", "released", "expired"}, cents : Nat, left : Nat]
NoHold == [status |-> "none", cents |-> 0, left |-> 0]
NoRow == [status |-> "none", cents |-> 0, left |-> 0]

PcCall == {"idle", "creating", "sent", "recording", "reading", "applying",
           "refused", "done", "lost"}

TypeOK ==
    /\ up \in BOOLEAN
    /\ phase \in 0 .. TicksPerSec - 1
    /\ actual \in Nat
    /\ spent \in Nat
    /\ holds \in [Calls -> Hold]
    /\ rows \in [Calls -> Row]
    /\ late \subseteq Calls
    /\ releases \subseteq Calls
    /\ sweeping \in BOOLEAN
    /\ pc \in [Tasks -> PcCall]
    /\ cost \in [Tasks -> Nat]
    /\ total \in [Tasks -> Nat]
    /\ ledger \in Nat
    /\ ttl \in [Calls -> 0 .. Ttl]

-----------------------------------------------------------------------------
\* The book: every operator is one critical section of its mutex.

Held(h) == {c \in Calls : h[c].status = "held"}

\* BudgetState::reserved_cents.  A lapsed hold counts until it is swept.
ReservedCents(h) == MapThenSumSet(LAMBDA c : h[c].cents, Held(h))

\* Fault: the other holds are left out of the cap test.
Admits_IgnoresHolds(c) ==
    /\ Amount[c] <= PerRequest
    /\ holds[c].status = "none"
    /\ actual + Amount[c] <= Hard

\* The three refusals of BudgetBook::reserve.
Admits(c) ==
    /\ Amount[c] <= PerRequest
    /\ holds[c].status = "none"
    /\ actual + ReservedCents(holds) + Amount[c] <= Hard

\* BudgetBook::reserve inserts the hold, ::cancel removes it.
Inserted(c) == [holds EXCEPT ![c] = [status |-> "held", cents |-> Amount[c], left |-> Ttl]]
Cancelled(c) == [holds EXCEPT ![c] = NoHold]

\* BudgetBook::settle removes the hold, then tests the cap without it.
Settles(c) ==
    /\ holds[c].status = "held"
    /\ actual + ReservedCents(Cancelled(c)) + Amount[c] <= Hard

\* A settle over the cap puts the hold back at the larger amount; a settle of a
\* hold that is gone changes nothing.
KeptAtLarger(c) ==
    IF holds[c].status = "held"
      THEN [holds EXCEPT ![c].cents = Max({@, Amount[c]})]
      ELSE holds

\* BudgetBook::expire.
Swept == [c \in Calls |-> IF holds[c].left > 0 THEN holds[c] ELSE NoHold]

-----------------------------------------------------------------------------
\* The durable rows.

\* ReservationStore::create rounds the TTL up to whole seconds.
TtlSecs == (Ttl + TicksPerSec - 1) \div TicksPerSec

Created(c) ==
    [rows EXCEPT ![c] = [status |-> "active", cents |-> Amount[c],
                         left |-> TtlSecs * TicksPerSec]]

\* release_task: only an active row becomes released.
Released(c) ==
    IF rows[c].status = "active" THEN [rows EXCEPT ![c].status = "released"] ELSE rows

\* Fault: the sweep takes only rows that expired strictly before now.
Expired_Strict ==
    [c \in Calls |-> IF rows[c].status = "active" /\ rows[c].left < 0
                       THEN [rows[c] EXCEPT !.status = "expired"] ELSE rows[c]]

\* expire_tasks.
Expired ==
    [c \in Calls |-> IF rows[c].status = "active" /\ rows[c].left = 0
                       THEN [rows[c] EXCEPT !.status = "expired"] ELSE rows[c]]

\* active_tasks, on rows whose lapsed ones were just expired.
Active(r) == {c \in Calls : r[c].status = "active" /\ r[c].left > 0}

\* Fault: the truncated seconds are used as they are.
RemainingTicks_Truncated(left) == ((phase + left) \div TicksPerSec) * TicksPerSec

\* time::unix() truncates both instants to whole seconds; ReservationStore::active
\* adds one second back.
RemainingTicks(left) == ((phase + left) \div TicksPerSec + 1) * TicksPerSec

\* reconcile restores every active row into the empty book of a new process.
Restored(r) ==
    [c \in Calls |-> IF c \in Active(r)
                       THEN [status |-> "held", cents |-> r[c].cents,
                             left |-> RemainingTicks(r[c].left)]
                       ELSE NoHold]

-----------------------------------------------------------------------------
Init ==
    /\ up = TRUE
    /\ phase = 0
    /\ actual = 0
    /\ spent = 0
    /\ holds = [c \in Calls |-> NoHold]
    /\ rows = [c \in Calls |-> NoRow]
    /\ late = {}
    /\ releases = {}
    /\ sweeping = FALSE
    /\ pc = [t \in Tasks |-> "idle"]
    /\ cost = [t \in Tasks |-> 0]
    /\ total = [t \in Tasks |-> 0]
    /\ ledger = 0
    /\ ttl = [c \in Calls |-> 0]

-----------------------------------------------------------------------------
\* decide_jev: reserve, classify, then cancel or settle and record.

\* BudgetGate::reserve, its first half: admission under the mutex.
Reserve(c) ==
    /\ up
    /\ pc[c] = "idle"
    /\ \/ /\ Admits(c)
          /\ holds' = Inserted(c)
          /\ ttl' = [ttl EXCEPT ![c] = Ttl]
          /\ pc' = [pc EXCEPT ![c] = "creating"]
       \/ /\ ~Admits(c)
          /\ pc' = [pc EXCEPT ![c] = "refused"]
          /\ UNCHANGED <<holds, ttl>>
    /\ UNCHANGED <<up, phase, actual, spent, store, sweeping, task>>

\* The durable row is written within the timeout: the request is sent.
CreateOk(c) ==
    /\ up
    /\ pc[c] = "creating"
    /\ rows' = Created(c)
    /\ pc' = [pc EXCEPT ![c] = "sent"]
    /\ UNCHANGED <<up, phase, book, late, releases, sweeping, task, ttl>>

\* The write failed, or timed out and may still land: the hold is rolled back.
CreateFails(c) ==
    /\ "store" \in Faults
    /\ up
    /\ pc[c] = "creating"
    /\ holds' = Cancelled(c)
    /\ late' \in {late, late \cup {c}}
    /\ pc' = [pc EXCEPT ![c] = "refused"]
    /\ UNCHANGED <<up, phase, actual, spent, rows, releases, sweeping, task, ttl>>

\* Fault: the write is retried, and an upsert replaces the row it finds.
LateCreate_Retried(c) ==
    /\ c \in late
    /\ late' \in {late, late \ {c}}
    /\ rows' \in {rows, Created(c)}
    /\ UNCHANGED <<up, phase, book, releases, sweeping, pc, task, ttl>>

\* The database executes, or never sees, a CREATE nobody waits for any more.
LateCreate(c) ==
    /\ c \in late
    /\ late' = late \ {c}
    /\ rows' \in {rows, Created(c)}
    /\ UNCHANGED <<up, phase, book, releases, sweeping, pc, task, ttl>>

\* classify sent nothing (cooldown, oversized input): the hold is cancelled.
CancelUnsent(c) ==
    /\ up
    /\ pc[c] = "sent"
    /\ holds' = Cancelled(c)
    /\ releases' = releases \cup {c}
    /\ pc' = [pc EXCEPT ![c] = "done"]
    /\ UNCHANGED <<up, phase, actual, spent, rows, late, sweeping, task, ttl>>

\* classify answered or failed after sending: settle at the projected amount, and
\* go on to record the usage whether or not the book accepted the settlement.
Settle(c) ==
    /\ up
    /\ pc[c] = "sent"
    /\ \/ /\ Settles(c)
          /\ holds' = Cancelled(c)
          /\ actual' = actual + Amount[c]
          /\ releases' = releases \cup {c}
       \/ /\ ~Settles(c)
          /\ holds' = KeptAtLarger(c)
          /\ UNCHANGED <<actual, releases>>
    /\ \E x \in 0 .. Amount[c] : cost' = [cost EXCEPT ![c] = x]
    /\ pc' = [pc EXCEPT ![c] = "recording"]
    /\ UNCHANGED <<up, phase, spent, rows, late, sweeping, total, ledger, ttl>>

\* A detached or awaited release: executed by the database, or lost and logged.
Release(c) ==
    /\ c \in releases
    /\ releases' = releases \ {c}
    /\ \/ rows' = Released(c)
       \/ "store" \in Faults /\ UNCHANGED rows
    /\ UNCHANGED <<up, phase, book, late, sweeping, pc, task, ttl>>

-----------------------------------------------------------------------------
\* metering.rs persist: record the usage, read the month's total, apply it.

\* An assistant chat is metered without a reservation; the router lets a paid
\* backend answer only while spent_cents is below the budget.
ChatReply(k) ==
    /\ up
    /\ pc[k] = "idle"
    /\ \E x \in ChatCosts : /\ x > 0 => spent < Hard
                            /\ cost' = [cost EXCEPT ![k] = x]
    /\ pc' = [pc EXCEPT ![k] = "recording"]
    /\ UNCHANGED <<up, phase, book, store, sweeping, total, ledger, ttl>>

\* usage::record.  An error is logged; it may hide a write that committed.
Record(t) ==
    /\ up
    /\ pc[t] = "recording"
    /\ \/ ledger' = ledger + cost[t]
       \/ "store" \in Faults /\ UNCHANGED ledger
    /\ cost' = [cost EXCEPT ![t] = 0]
    /\ pc' = [pc EXCEPT ![t] = "reading"]
    /\ UNCHANGED <<up, phase, book, store, sweeping, total, ttl>>

\* usage::month_total_eur: an error leaves the old spend in place.
ReadTotal(t) ==
    /\ up
    /\ pc[t] = "reading"
    /\ \/ /\ total' = [total EXCEPT ![t] = ledger]
          /\ pc' = [pc EXCEPT ![t] = "applying"]
       \/ /\ "store" \in Faults
          /\ pc' = [pc EXCEPT ![t] = "done"]
          /\ UNCHANGED total
    /\ UNCHANGED <<up, phase, book, store, sweeping, cost, ledger, ttl>>

\* spent_cents.store and BudgetBook::reconcile_actual, with whatever was read.
ApplyTotal(t) ==
    /\ up
    /\ pc[t] = "applying"
    /\ actual' = total[t]
    /\ spent' = total[t]
    /\ total' = [total EXCEPT ![t] = 0]
    /\ pc' = [pc EXCEPT ![t] = "done"]
    /\ UNCHANGED <<up, phase, holds, store, sweeping, cost, ledger, ttl>>

-----------------------------------------------------------------------------
\* The sweeper, the clock and the process.

SweepBook ==
    /\ up
    /\ ~sweeping
    /\ holds' = Swept
    /\ sweeping' = TRUE
    /\ UNCHANGED <<up, phase, actual, spent, store, pc, task, ttl>>

SweepRows ==
    /\ up
    /\ sweeping
    /\ sweeping' = FALSE
    /\ rows' = Expired
    /\ UNCHANGED <<up, phase, book, late, releases, pc, task, ttl>>

SweepRowsFails ==
    /\ "store" \in Faults
    /\ up
    /\ sweeping
    /\ sweeping' = FALSE
    /\ UNCHANGED <<up, phase, book, store, pc, task, ttl>>

Less(n) == IF n > 0 THEN n - 1 ELSE 0

\* The timeouts of the durable write (1 s) and of the request (3 s) end both long
\* before the TTL (two minutes) does, unless the process is suspended or starved.
Tick ==
    /\ "slow" \in Faults \/ \A c \in Calls : pc[c] \in {"creating", "sent"} => ttl[c] > 1
    /\ phase' = (phase + 1) % TicksPerSec
    /\ holds' = [c \in Calls |-> [holds[c] EXCEPT !.left = Less(@)]]
    /\ rows' = [c \in Calls |-> [rows[c] EXCEPT !.left = Less(@)]]
    /\ ttl' = [c \in Calls |-> Less(ttl[c])]
    /\ UNCHANGED <<up, actual, spent, late, releases, sweeping, pc, task>>

\* A new calendar month: the query sums an empty month, the book does not know.
Rollover ==
    /\ "rollover" \in Faults
    /\ ledger > 0
    /\ ledger' = 0
    /\ UNCHANGED <<up, phase, book, store, sweeping, pc, cost, total, ttl>>

\* What becomes of a task whose future is dropped: a reservation still being
\* written is given up, a request already sent is lost, a recording ends.
Dropped(s) ==
    CASE s = "creating" -> "refused"
      [] s = "sent" -> "lost"
      [] s \in {"recording", "reading", "applying"} -> "done"
      [] OTHER -> s

\* The HTTP handler's future is dropped at one of its awaits.
Abandon(t) ==
    /\ "abandon" \in Faults
    /\ up
    /\ Dropped(pc[t]) # pc[t]
    /\ pc' = [pc EXCEPT ![t] = Dropped(@)]
    /\ late' = late \cup {c \in Calls \cap {t} : pc[c] = "creating"}
    /\ cost' = [cost EXCEPT ![t] = 0]
    /\ total' = [total EXCEPT ![t] = 0]
    /\ UNCHANGED <<up, phase, book, rows, releases, sweeping, ledger, ttl>>

\* The process dies: the book is gone, what the database was sent may still land.
Crash ==
    /\ "crash" \in Faults
    /\ up
    /\ up' = FALSE
    /\ holds' = [c \in Calls |-> NoHold]
    /\ actual' = 0
    /\ spent' = 0
    /\ sweeping' = FALSE
    /\ late' = late \cup {c \in Calls : pc[c] = "creating"}
    /\ pc' = [t \in Tasks |-> Dropped(pc[t])]
    /\ cost' = [t \in Tasks |-> 0]
    /\ total' = [t \in Tasks |-> 0]
    /\ UNCHANGED <<phase, rows, releases, ledger, ttl>>

\* main.rs: seed the spend from the month's total (a failed read seeds 0), then
\* reconcile.  A reconcile that errors aborts the start, which then never was.
Start ==
    /\ ~up
    /\ Cardinality(Active(Expired)) <= MaxActive
    /\ up' = TRUE
    /\ \/ actual' = ledger
       \/ "store" \in Faults /\ actual' = 0
    /\ spent' = actual'
    /\ rows' = Expired
    /\ holds' = Restored(Expired)
    /\ UNCHANGED <<phase, late, releases, sweeping, pc, task, ttl>>

-----------------------------------------------------------------------------
CallNext(c) ==
    \/ Reserve(c) \/ CreateOk(c) \/ CreateFails(c) \/ LateCreate(c)
    \/ CancelUnsent(c) \/ Settle(c) \/ Release(c)

TaskNext(t) == Record(t) \/ ReadTotal(t) \/ ApplyTotal(t) \/ Abandon(t)

Next ==
    \/ \E c \in Calls : CallNext(c)
    \/ \E k \in Chats : ChatReply(k)
    \/ \E t \in Tasks : TaskNext(t)
    \/ SweepBook \/ SweepRows \/ SweepRowsFails
    \/ Tick \/ Rollover \/ Crash \/ Start

\* The sweeper's interval timer and the clock always go on, a supervisor starts
\* the Core again, and the database does not refuse every sweep for ever.
Fairness ==
    /\ WF_vars(Tick)
    /\ WF_vars(SweepBook)
    /\ WF_vars(SweepRows \/ SweepRowsFails)
    /\ SF_vars(SweepRows)
    /\ WF_vars(Start)

Spec == Init /\ [][Next]_vars
FairSpec == Spec /\ Fairness

-----------------------------------------------------------------------------
\* The calls whose paid request is out, or was out when its caller was lost to a
\* crash or a dropped future, and whose admitted time has not run out.
Live == {c \in Calls : pc[c] \in {"sent", "lost"} /\ ttl[c] > 0}

\* Every paid request that is out, or was lost while out, is counted for the whole
\* time it was admitted for: by the book while the Core is up, and by a durable
\* row that outlasts it so that any restart re-adopts it.
InFlightCounted ==
    \A c \in Live :
        /\ rows[c].status = "active" /\ rows[c].left >= ttl[c]
        /\ up => /\ holds[c].status = "held"
                 /\ holds[c].cents >= Amount[c]
                 /\ holds[c].left >= ttl[c]

\* A reservation is admitted only if the month's actual spend, every live request
\* and the new projection fit the hard cap together.
AdmissionStep ==
    \A c \in Calls :
        pc[c] = "idle" /\ pc'[c] = "creating" =>
            actual + MapThenSumSet(LAMBDA d : Amount[d], Live) + Amount[c] <= Hard
AdmissionCountsLive == [][AdmissionStep]_vars

\* A durable reservation that was released or has expired never becomes active
\* again, whatever order late writes and releases reach the database in.
NoRevivalStep ==
    \A c \in Calls :
        rows[c].status \in {"released", "expired"} => rows'[c].status = rows[c].status
NoRevival == [][NoRevivalStep]_vars

\* A lost caller cannot pin budget: every reservation stops counting, its hold gone
\* from the book and its durable row released or expired, also one whose write landed
\* after its caller had given up (BudgetGate::sweep).
Counts(c) == holds[c].status = "held" \/ rows[c].status = "active"
BudgetReturns == \A c \in Calls : Counts(c) ~> ~Counts(c)

-----------------------------------------------------------------------------
\* The inductive strengthening of InFlightCounted and NoRevival: who may still
\* write the row of a call, and what is known of a call being admitted.

WritersInv(c) ==
    /\ pc[c] \in {"idle", "creating"} => rows[c].status = "none"
    /\ c \in late => pc[c] = "refused" /\ rows[c].status = "none"
    /\ c \in releases => pc[c] \notin {"idle", "creating", "sent", "lost"}

BookInv(c) ==
    holds[c].status = "held" /\ holds[c].cents >= Amount[c] /\ holds[c].left >= ttl[c]

AdmittedInv(c) == pc[c] = "creating" => up /\ (ttl[c] > 0 => BookInv(c))

IssuedInv(c) ==
    pc[c] \in {"sent", "lost"} /\ ttl[c] > 0 =>
        /\ rows[c].status = "active"
        /\ rows[c].left >= ttl[c]
        /\ rows[c].cents >= Amount[c]
        /\ up => BookInv(c)

IndInv ==
    /\ TypeOK
    /\ \A c \in Calls : WritersInv(c) /\ AdmittedInv(c) /\ IssuedInv(c)

-----------------------------------------------------------------------------
\* A claim of the code's comments that its behaviour does not keep.

Recording == {t \in Tasks : pc[t] = "recording"}

\* "It is deliberately atomic under one mutex so concurrent requests cannot
\* reserve the same remaining budget" (crates/usage/src/lib.rs): what is recorded,
\* what is about to be recorded and what is in flight fit the hard cap together.
BudgetReservedOnce ==
    ledger + MapThenSumSet(LAMBDA t : cost[t], Recording)
           + MapThenSumSet(LAMBDA c : Amount[c], Live) <= Hard

=============================================================================
