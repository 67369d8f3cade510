---------------------------- MODULE PaperLedger -----------------------------
(***************************************************************************)
(* The lot ledger as a machine: every order of buys, whole and partial     *)
(* sells and costs, at any times, that Ledger::open, Ledger::close and     *)
(* record_failed_tx accept (crates/onchain/src/paper.rs).                  *)
(***************************************************************************)
EXTENDS LotLedger

CONSTANTS
    MaxLots,      \* bound on the buys of a behaviour
    MaxTokens,    \* bound on the tokens of one buy
    MaxAmount,    \* bound on cost and proceeds of one event
    MaxFees,      \* bound on the costs without a fill
    MaxStamp      \* bound on the times of the events

ASSUME LedgerAssumption ==
    MaxTokens \in Nat /\ MaxAmount \in Nat /\ MaxFees \in Nat /\ MaxStamp \in Nat

VARIABLES
    ledger,    \* the ledger
    buys,      \* how many lots were bought
    paid,      \* history: what all buys cost
    earned     \* history: what all sells returned, fees deducted

ledgerVars == <<ledger, buys, paid, earned>>

LedgerInit == ledger = EmptyLedger /\ buys = 0 /\ paid = 0 /\ earned = 0

Buy(c, tokens, cost, at) ==
    LET lot == [mint |-> c, tokens |-> tokens, cost |-> cost, at |-> at]
    IN  /\ buys < MaxLots
        /\ CanOpenLot(ledger, lot)
        /\ ledger' = OpenLot(ledger, lot)
        /\ buys' = buys + 1
        /\ paid' = paid + cost
        /\ UNCHANGED earned

Sell(c, tokens, out, at) ==
    /\ CanClose(ledger, c, tokens, at)
    /\ ledger' = CloseLots(ledger, c, tokens, out, at)
    /\ earned' = earned + out
    /\ UNCHANGED <<buys, paid>>

Fail(usd) ==
    /\ ledger.costs + usd <= MaxFees
    /\ ledger' = RecordCost(ledger, usd)
    /\ UNCHANGED <<buys, paid, earned>>

LedgerNext ==
    \/ \E c \in Coins, n \in 1 .. MaxTokens, u \in 0 .. MaxAmount, at \in 0 .. MaxStamp :
         Buy(c, n, u, at)
    \/ \E c \in Coins, n \in 1 .. MaxTokens + 1, u \in 0 .. MaxAmount, at \in 0 .. MaxStamp :
         Sell(c, n, u, at)
    \/ Fail(1)

LedgerSpec == LedgerInit /\ [][LedgerNext]_ledgerVars

----------------------------------------------------------------------------
(* Properties.                                                             *)

\* What the trips realised is what was earned less what the tokens sold had cost.
MoneyIsConserved ==
    Realised(ledger) + SumCoins(ledger.partial)
      = earned - (paid - Total(DOMAIN ledger.lots, LotCosts(ledger.lots)))

\* An open winner never offsets an open loser or a loss already taken by a
\* partial sell.
GateIsNoKinder ==
    \A value \in 0 .. MaxAmount :
        GateResult(ledger, value) <= Pnl(ledger, value)

\* A trip still partly held is no trade, and those of a mint do not overlap.
TradesAreWhole ==
    \A i, j \in DOMAIN ledger.closed :
        /\ ledger.closed[i].opened <= ledger.closed[i].at
        /\ i < j /\ ledger.closed[i].mint = ledger.closed[j].mint =>
             ledger.closed[i].at <= ledger.closed[j].opened

\* Whatever way lots are split by partial sells and rounded (paper.rs,
\* Ledger::close), selling everything leaves no cost behind and takes none
\* twice, the promotion gate (gate.rs, evaluate) is never kinder than the
\* profit and loss shown beside it, and splitting an exit or buying again before
\* it is finished neither adds a trade nor stretches the record.
LedgerConserves == MoneyIsConserved /\ GateIsNoKinder /\ TradesAreWhole

=============================================================================
