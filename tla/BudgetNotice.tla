---------------------------- MODULE BudgetNotice ----------------------------
(***************************************************************************)
(* The owner's warning that the month's spend reached 90% of the budget    *)
(* (notify.rs budget_spend, seed_budget, budget_crossed; metering.rs       *)
(* persist; main.rs).  Several calls refresh the total side by side; the   *)
(* marker of the month lives in memory only.                               *)
(***************************************************************************)
EXTENDS Naturals

CONSTANTS
  Refreshes,   \* metered calls that refresh the month's total
  MaxMonth,    \* bound on the months that begin
  MaxBlind     \* bound on the starts that cannot read the total

ASSUME NoticeAssumption == MaxMonth \in Nat /\ MaxBlind \in Nat

VARIABLES
  month,    \* calendar month
  over,     \* this month's spend has reached 90% of the budget
  reading,  \* per call: what it read, before budget_spend
  marker,   \* budget_month, 0 for none
  resting,  \* the event was notified within MIN_INTERVAL
  warned,   \* history: warnings notified for this month's spend
  blind     \* history: starts this month that could not read the spend

noticeVars == <<month, over, reading, marker, resting, warned, blind>>

NoticeInit ==
  /\ month = 1 /\ over = FALSE /\ marker = 0
  /\ reading = [r \in Refreshes |-> "none"]
  /\ resting = FALSE /\ warned = 0 /\ blind = 0

\* persist: the usage is recorded and the month's total read again.
RefreshReads(r) ==
  /\ reading[r] = "none"
  /\ \E spent \in {over, TRUE} :
       /\ over' = spent
       /\ reading' = [reading EXCEPT ![r] = IF spent THEN "high" ELSE "low"]
  /\ UNCHANGED <<month, marker, resting, warned, blind>>

\* Fault: the marker is looked at, and not set.
CrossedUnmarked(high) == [crossed |-> high /\ marker # month, marker |-> marker]

\* budget_crossed, under the marker's lock; the month is looked up here.
Crossed(high) ==
  [crossed |-> high /\ marker # month, marker |-> IF high THEN month ELSE marker]

\* budget_spend, and the notification unless one was just sent.
BudgetSpend(r) ==
  LET result == Crossed(reading[r] = "high")
      sent == result.crossed /\ ~resting IN
  /\ reading[r] # "none"
  /\ reading' = [reading EXCEPT ![r] = "none"]
  /\ marker' = result.marker
  /\ resting' = (resting \/ sent)
  /\ warned' = IF sent /\ over THEN warned + 1 ELSE warned
  /\ UNCHANGED <<month, over, blind>>

IntervalEnds ==
  /\ resting /\ resting' = FALSE
  /\ UNCHANGED <<month, over, reading, marker, warned, blind>>

MonthBegins ==
  /\ month < MaxMonth
  /\ month' = month + 1
  /\ over' = FALSE /\ warned' = 0 /\ blind' = 0
  /\ UNCHANGED <<reading, marker, resting>>

\* seed_budget: a month already over the line counts as notified.
SeedBudget(seen) == IF seen THEN month ELSE 0

\* Core starts again; a start that cannot read the total takes zero for it.
CoreRestarts(readable) ==
  /\ readable \/ blind < MaxBlind
  /\ marker' = SeedBudget(readable /\ over)
  /\ blind' = IF readable THEN blind ELSE blind + 1
  /\ reading' = [r \in Refreshes |-> "none"] /\ resting' = FALSE
  /\ UNCHANGED <<month, over, warned>>

NoticeNext ==
  \/ \E r \in Refreshes : RefreshReads(r) \/ BudgetSpend(r)
  \/ IntervalEnds \/ MonthBegins
  \/ \E readable \in BOOLEAN : CoreRestarts(readable)

NoticeSpec == NoticeInit /\ [][NoticeNext]_noticeVars
----------------------------------------------------------------------------
\* The owner is warned once a month, across refreshes that race and restarts:
\* every further warning is due to a start that could not read the spend
\* (main.rs takes zero).  A total read before midnight and told after it is
\* last month's and is not counted.
BudgetWarnedOnce == warned <= 1 + blind

=============================================================================
