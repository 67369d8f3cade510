---------------------------- MODULE PaperTrading ----------------------------
(***************************************************************************)
(* The memecoin paper trader (jarvis-api/src/memecoin.rs, memecoin/store.rs*)
(* and the pause route of routes/meme.rs).  A task wakes every minute and  *)
(* runs one tick: it reads the positions held, sells what its strategy     *)
(* wants to sell and then buys.  The tick is cancelled after 55 seconds    *)
(* wherever it is, any database call may fail or time out, and a write     *)
(* the tick gave up on may have been stored, or be stored later, when the  *)
(* next tick or a restarted Core has loaded the rows: they are the only    *)
(* memory it has.                                                          *)
(*                                                                         *)
(* What the market says, and so which positions the strategy wants to      *)
(* sell, which mints pass the filter and which simulated transactions      *)
(* fail, is nondeterministic.  Of the writes given up on, at most one is   *)
(* still on its way at a time.                                             *)
(***************************************************************************)
EXTENDS LotLedger

CONSTANTS
    Watchlist,     \* the mints of the profile, a subset of Coins
    Profiles,      \* the parameters a profile file may hold for one version
    MaxOpen,       \* max_open_positions
    FailureCap,    \* EXIT_FAILURE_CAP
    Tolerance,     \* CLOCK_TOLERANCE
    NoMint,        \* no mint is being bought
    MaxTrips,      \* bound on trip rows
    MaxCosts,      \* bound on failed transactions
    MaxClock,      \* bound on the wall clock
    MaxPauses,     \* bound on pauses made
    MaxStarts      \* bound on starts of Core

ASSUME WatchlistAssumption == Watchlist \subseteq Coins
ASSUME PaperAssumption ==
    MaxOpen \in Nat /\ FailureCap \in Nat /\ Tolerance \in Nat /\ MaxClock \in Nat

VARIABLES
    trips,      \* memecoin_paper_trips, oldest first
    costs,      \* memecoin_paper_costs: how many, and the time of the latest
    control,    \* memecoin_paper_control: the current pause, 0 when none
    version,    \* memecoin_strategy_versions: parameters recorded, or none
    profile,    \* the profile the task runs with, or none: it is not running
    paused,     \* PaperHandle.paused
    tick,       \* where the tick is, and what it remembers
    late,       \* a write no tick waits for any more, on its way to the database
    clock,      \* the wall clock, which may step back
    starts,     \* how often Core was started
    pauses,     \* how many pauses were made; a pause is named by its number
    calling,    \* a pause request between its two effects
    owner,      \* history: the stored pause the owner has not released, or 0
    slipped,    \* history: trips stored since that pause
    overtaken   \* history: what was stored late, over what was written since

rowVars == <<trips, costs, late, slipped, overtaken>>
paperVars == <<rowVars, control, version, profile, paused, tick, clock,
               starts, pauses, calling, owner>>

Unset == "none"
Idle == [at |-> "idle", held |-> {}, mints |-> {}, last |-> 0, intact |-> FALSE,
         blind |-> FALSE, left |-> {}, due |-> {}, open |-> 0,
         trip |-> 0, priced |-> TRUE, mint |-> NoMint]

NoWrite == [kind |-> "none", trip |-> 0, mint |-> NoMint, at |-> 0, with |-> Unset,
            priced |-> TRUE, base |-> 0]

PaperInit ==
    /\ late = NoWrite /\ overtaken = {}
    /\ trips = <<>>
    /\ costs = [count |-> 0, at |-> 0]
    /\ control = 0
    /\ version = Unset
    /\ profile = Unset
    /\ paused = FALSE
    /\ tick = Idle
    /\ clock = 0
    /\ starts = 0
    /\ pauses = 0
    /\ calling = FALSE
    /\ owner = 0
    /\ slipped = 0

Held(i) == trips[i].status # "closed"
HeldTrips == {i \in DOMAIN trips : Held(i)}

\* replay: the stored rows as events in time order, closes before opens at one
\* instant, fed to the ledger; each stored result must be recomputed.  A trip
\* buys one token for as many dollars as its number and sells it for nothing,
\* so a result recomputes only if the close takes the lot of its own trip.
TripEvents ==
    LET opens  == {<<trips[i].opened, 1, i>> : i \in DOMAIN trips}
        closes == {<<trips[i].closed, 0, i>> :
                     i \in {j \in DOMAIN trips : ~Held(j)}}
    IN  opens \cup closes

Precedes(d, e) ==
    \/ d[1] < e[1]
    \/ d[1] = e[1] /\ d[2] < e[2]
    \/ d[1] = e[1] /\ d[2] = e[2] /\ d[3] < e[3]

NewestEvent(s) == CHOOSE e \in s : \A d \in s \ {e} : Precedes(d, e)

ReplayEvent(acc, e) ==
    LET i   == e[3]
        c   == trips[i].mint
        lot == [mint |-> c, tokens |-> 1, cost |-> i, at |-> e[1]]
    IN  CASE ~acc.ok -> acc
          [] acc.ok /\ e[2] = 1 ->
               [ok |-> CanOpenLot(acc.ledger, lot),
                ledger |-> OpenLot(acc.ledger, lot)]
          [] acc.ok /\ e[2] = 0 ->
               LET can == CanClose(acc.ledger, c, 1, e[1])
               IN  [ok |-> can /\ NetOf(acc.ledger, c, 1, 0) = -i,
                    ledger |-> IF can THEN CloseLots(acc.ledger, c, 1, 0, e[1])
                               ELSE acc.ledger]

Replays ==
    MapThenFoldSet(LAMBDA e, acc : ReplayEvent(acc, e),
                   [ok |-> TRUE, ledger |-> EmptyLedger],
                   LAMBDA e : e, NewestEvent, TripEvents).ok

\* The newest event the tick knows: the opening of a held trip, the latest
\* close, the latest cost.
LatestEvent ==
    LET known == {trips[i].opened : i \in HeldTrips}
                   \cup {trips[i].closed : i \in DOMAIN trips \ HeldTrips}
                   \cup {costs.at}
    IN  CHOOSE t \in known : \A u \in known : u <= t

\* Fault: the clock is taken as it is.
StampByClock == clock

\* stamp: later than every event known, even if the clock stepped back.
Stamp == IF clock > tick.last THEN clock ELSE tick.last + 1

\* A tick that returns an error, or whose reply was lost, ends where it is.
Continues(next) == tick' = next \/ tick' = Idle

----------------------------------------------------------------------------
(* The writes of a tick.                                                   *)

\* The condition each statement carries, when it is run: the mint of an open_trip takes
\* a unique slot, close_trip and record_exit_failure want the row open.  Past the
\* bounds of the model nothing is stored.
Applies(w) ==
    CASE w.kind = "open" -> /\ Len(trips) < MaxTrips
                            /\ \A i \in HeldTrips : trips[i].mint # w.mint
      [] w.kind = "cost" -> w.base < MaxCosts
      [] OTHER -> trips[w.trip].status = "open"

\* record_exit_failure: at the cap the trip is stuck, still held and never sold again.
OneFailureMore(t, priced) ==
    [t EXCEPT !.failures = @ + 1,
              !.unpriced = @ + (IF priced THEN 0 ELSE 1),
              !.status = IF t.failures + 1 >= FailureCap THEN "stuck" ELSE "open"]

NewTrip(w) == [mint |-> w.mint, status |-> "open", failures |-> 0, opened |-> w.at,
               closed |-> 0, with |-> w.with, fees |-> 0, unpriced |-> 0]

\* The fees of a failed sell are remembered with its trip.
OneFeeMore(t) == [t EXCEPT !.fees = @ + 1]

\* open_trip, close_trip, record_exit_failure and add_cost.
TripsAfter(w) ==
    CASE w.kind = "open" -> Append(trips, NewTrip(w))
      [] w.kind = "close" ->
           [trips EXCEPT ![w.trip] = [@ EXCEPT !.status = "closed", !.closed = w.at]]
      [] w.kind = "count" -> [trips EXCEPT ![w.trip] = OneFailureMore(@, w.priced)]
      [] w.kind = "cost" /\ w.trip # 0 -> [trips EXCEPT ![w.trip] = OneFeeMore(@)]
      [] OTHER -> trips

\* add_cost read the day's total before and replaces it.
Stored(w) ==
    /\ trips' = TripsAfter(w)
    /\ costs' = IF w.kind = "cost" THEN [count |-> w.base + 1, at |-> w.at] ELSE costs
    /\ slipped' = IF w.kind = "open" /\ owner # 0 THEN slipped + 1 ELSE slipped

\* bounded: the write is stored and the tick goes on, or does not learn of it; or the
\* tick ends and leaves the write on its way.
Writes(w, next) ==
    /\ \/ Applies(w) /\ Stored(w) /\ late' = late /\ Continues(next)
       \/ /\ late = NoWrite /\ late' = w /\ tick' = Idle
          /\ UNCHANGED <<trips, costs, slipped>>
    /\ UNCHANGED <<overtaken, control, version, profile, paused, clock, starts, pauses,
                   calling, owner>>

\* A trip of the same mint has closed since, or a cost was added to the total.
Overtakes(w) ==
    \/ w.kind = "open" /\ \E i \in DOMAIN trips : trips[i].mint = w.mint /\ trips[i].closed >= w.at
    \/ w.kind = "cost" /\ costs.count # w.base

\* What was left on its way is stored at last, or never.
LateWrite ==
    /\ late # NoWrite
    /\ late' = NoWrite
    /\ \/ /\ Applies(late) /\ Stored(late)
          /\ overtaken' = IF Overtakes(late) THEN overtaken \cup {late.kind} ELSE overtaken
       \/ UNCHANGED <<trips, costs, slipped, overtaken>>
    /\ UNCHANGED <<control, version, profile, paused, tick, clock, starts, pauses,
                   calling, owner>>

----------------------------------------------------------------------------
(* Core.                                                                   *)

\* start: the parameters of a version are recorded once and never change; a
\* profile that differs leaves the trader off.  Then the resume setting clears
\* the pause it names, if that is the current one.
Start(p, setting) ==
    /\ starts < MaxStarts
    /\ starts' = starts + 1
    /\ paused' = FALSE
    /\ tick' = Idle
    /\ calling' = FALSE
    /\ version' = IF version = Unset THEN p ELSE version
    /\ profile' = IF version \in {Unset, p} THEN p ELSE Unset
    /\ LET runs == version \in {Unset, p}
       IN  /\ control' = IF runs /\ setting # 0 /\ control = setting
                         THEN 0 ELSE control
           /\ owner' = IF runs /\ owner = setting THEN 0 ELSE owner
    /\ slipped' = IF owner' = 0 THEN 0 ELSE slipped
    /\ UNCHANGED <<trips, costs, late, overtaken, clock, pauses>>

ClockMoves ==
    /\ clock' \in 0 .. MaxClock \ {clock}
    /\ UNCHANGED <<rowVars, control, version, profile, paused, tick, starts, pauses,
                   calling, owner>>

----------------------------------------------------------------------------
(* The pause route: in memory at once, then stored.                        *)

PauseNow ==
    /\ ~calling
    /\ pauses < MaxPauses
    /\ paused' = TRUE
    /\ calling' = TRUE
    /\ UNCHANGED <<rowVars, control, version, profile, tick, clock, starts, pauses,
                   owner>>

\* store::pause keeps the time of an existing pause.  A write that failed, or
\* whose reply was lost, is answered with an error either way.
PauseStored(answered) ==
    /\ calling
    /\ calling' = FALSE
    /\ control' = IF control # 0 THEN control ELSE pauses + 1
    /\ pauses' = IF control # 0 THEN pauses ELSE pauses + 1
    /\ owner' = IF answered THEN control' ELSE owner
    /\ slipped' = IF answered THEN 0 ELSE slipped
    /\ UNCHANGED <<trips, costs, late, overtaken, version, profile, paused, tick, clock, starts>>

PauseUnstored ==
    /\ calling
    /\ calling' = FALSE
    /\ UNCHANGED <<rowVars, control, version, profile, paused, tick, clock, starts,
                   pauses, owner>>

----------------------------------------------------------------------------
(* One tick.                                                               *)

\* The reads of held trips, latest close and costs.  A ledger dated ahead of the clock
\* stops the tick.
TickLoads ==
    /\ tick.at = "idle"
    /\ profile # Unset
    /\ LatestEvent <= clock + Tolerance
    /\ tick' = [Idle EXCEPT !.at = "control", !.held = HeldTrips,
                            !.mints = {trips[i].mint : i \in HeldTrips},
                            !.last = LatestEvent,
                            !.left = {i \in HeldTrips : trips[i].status = "open"}]
    /\ UNCHANGED <<rowVars, control, version, profile, paused, clock, starts, pauses,
                   calling, owner>>

\* load_history and the pause: a history that cannot be read or does not replay stops
\* entries; a stored pause latches, a failed read pauses this tick only.
ReadsControl(readable, ok) ==
    /\ tick.at = "control"
    /\ paused' = (paused \/ (ok /\ control # 0))
    /\ tick' = [tick EXCEPT !.at = "exits", !.blind = ~ok, !.intact = readable /\ Replays]
    /\ UNCHANGED <<rowVars, control, version, profile, clock, starts, pauses, calling,
                   owner>>

\* Any await of the tick may be its last one.
TickStops ==
    /\ tick.at # "idle"
    /\ tick' = Idle
    /\ UNCHANGED <<rowVars, control, version, profile, paused, clock, starts,
                   pauses, calling, owner>>

\* No price, or no reason to sell.
KeepsPosition(i) ==
    /\ tick.at = "exits"
    /\ i \in tick.left
    /\ tick' = [tick EXCEPT !.left = @ \ {i}]
    /\ UNCHANGED <<rowVars, control, version, profile, paused, clock, starts,
                   pauses, calling, owner>>

\* A filled sell.
SellsPosition(i) ==
    /\ tick.at = "exits"
    /\ i \in tick.left
    /\ Writes([NoWrite EXCEPT !.kind = "close", !.trip = i, !.at = Stamp],
              [tick EXCEPT !.left = @ \ {i}, !.held = @ \ {i}, !.last = Stamp])

\* A failed sell: its fees are stored before the failure is counted.
PaysFailedSell(i) ==
    /\ tick.at = "exits"
    /\ i \in tick.left
    /\ Writes([NoWrite EXCEPT !.kind = "cost", !.trip = i, !.at = Stamp, !.base = costs.count],
              [tick EXCEPT !.at = "count", !.trip = i, !.last = Stamp])

\* A sell that cannot be priced costs nothing and is only counted.
CannotPrice(i) ==
    /\ tick.at = "exits"
    /\ i \in tick.left
    /\ tick' = [tick EXCEPT !.at = "count", !.trip = i, !.priced = FALSE]
    /\ UNCHANGED <<rowVars, control, version, profile, paused, clock, starts, pauses,
                   calling, owner>>

CountsFailure ==
    /\ tick.at = "count"
    /\ Writes([NoWrite EXCEPT !.kind = "count", !.trip = tick.trip, !.priced = tick.priced],
              [tick EXCEPT !.at = "exits", !.left = @ \ {tick.trip}, !.trip = 0,
                           !.priced = TRUE])

\* The mints to look at: some of the watchlist, not held when the tick began,
\* and none without an intact history.
BeginsEntries(due) ==
    /\ tick.at = "exits"
    /\ tick.left = {}
    /\ due \subseteq Watchlist \ tick.mints
    /\ ~tick.intact => due = {}
    /\ tick' = [tick EXCEPT !.at = "entries", !.due = due,
                            !.open = Cardinality(tick.held)]
    /\ UNCHANGED <<rowVars, control, version, profile, paused, clock, starts,
                   pauses, calling, owner>>

Paused == tick.blind \/ paused

\* A candidate that passes the filter, while there is room and no pause: the
\* check before it is observed and the check before it is bought.
Accepts(m) ==
    /\ tick.at = "entries"
    /\ m \in tick.due
    /\ ~Paused
    /\ tick.open < MaxOpen
    /\ tick' = [tick EXCEPT !.at = "buy", !.mint = m, !.due = @ \ {m}]
    /\ UNCHANGED <<rowVars, control, version, profile, paused, clock, starts,
                   pauses, calling, owner>>

BuysPosition ==
    /\ tick.at = "buy"
    /\ Writes([NoWrite EXCEPT !.kind = "open", !.mint = tick.mint, !.at = Stamp,
                              !.with = profile],
              [tick EXCEPT !.at = "entries", !.open = @ + 1, !.held = @ \cup {Len(trips) + 1},
                           !.mint = NoMint, !.last = Stamp])

PaysFailedBuy ==
    /\ tick.at = "buy"
    /\ Writes([NoWrite EXCEPT !.kind = "cost", !.at = Stamp, !.base = costs.count],
              [tick EXCEPT !.at = "entries", !.mint = NoMint, !.last = Stamp])

PaperNext ==
    \/ \E p \in Profiles, s \in 0 .. pauses : Start(p, s)
    \/ ClockMoves
    \/ PauseNow \/ PauseUnstored
    \/ \E answered \in BOOLEAN : PauseStored(answered)
    \/ TickLoads
    \/ \E readable, ok \in BOOLEAN : ReadsControl(readable, ok)
    \/ TickStops \/ LateWrite
    \/ \E i \in tick.left :
         \/ KeepsPosition(i) \/ SellsPosition(i)
         \/ PaysFailedSell(i) \/ CannotPrice(i)
    \/ CountsFailure
    \/ \E due \in SUBSET Watchlist : BeginsEntries(due)
    \/ \E m \in tick.due : Accepts(m)
    \/ BuysPosition \/ PaysFailedBuy

PaperSpec == PaperInit /\ [][PaperNext]_paperVars

----------------------------------------------------------------------------
(* Properties.                                                             *)

\* Never more positions are held than the profile allows, stuck ones included, but for
\* one whose open_trip the tick had given up on; and never two of one mint
\* (memecoin.rs, tick; store.rs, open_trip).
HeldWithinLimit ==
    /\ Cardinality(HeldTrips) <= MaxOpen + 1
    /\ \A i, j \in HeldTrips : trips[i].mint = trips[j].mint => i = j

\* The stored rows rebuild the ledger, however the clock steps and wherever ticks are
\* cut off (memecoin.rs, stamp and replay), unless a trip given up on was stored only
\* after another of its mint had been opened and closed: a ledger that does not replay
\* stops entries and the report for good.
LedgerReplays == "open" \notin overtaken => Replays

\* Once a pause is stored and acknowledged, at most the trip already past its last
\* check and the one given up on are opened, through restarts, failed reads and resume
\* settings that name an earlier pause, until a start is told to release this pause
\* (routes/meme.rs, pause; store.rs, resume; memecoin.rs, tick).
PauseHolds == slipped <= 2

\* A failed exit is never counted without its fee being in the day's total (memecoin.rs,
\* tick): losing the second write repeats an attempt, it never loses a cost; unless an
\* add_cost given up on landed over a total that had grown since (store.rs, add_cost).
CountedFailureIsPaid ==
    "cost" \notin overtaken => \A i \in DOMAIN trips :
        trips[i].failures <= trips[i].fees + trips[i].unpriced

\* All results stored under one strategy version were made with the same
\* parameters (store.rs, register_strategy_version; memecoin.rs, start).
ResultsShareParameters ==
    \A i, j \in DOMAIN trips : trips[i].with = trips[j].with

\* However ticks are cut off, replies lost, writes stored late, the clock stepped and
\* Core restarted, the stored rows are a book a careful trader would keep: within one of
\* the limit, replayable unless a late trip was overtaken, every failed exit paid for
\* unless a late cost was, one set of parameters; and a stored pause holds.
PaperBookIsSound ==
    /\ HeldWithinLimit /\ LedgerReplays /\ CountedFailureIsPaid /\ ResultsShareParameters
    /\ PauseHolds

=============================================================================
