----------------------------- MODULE LotLedger ------------------------------
(***************************************************************************)
(* The lot ledger of the paper trader (crates/onchain/src/paper.rs, 182 to *)
(* 464) and the promotion gate computed from it (gate.rs).  A buy is a     *)
(* lot, sells consume the lots of a mint first in first out, a round trip  *)
(* ends when the last token of the mint is sold.  Amounts are whole        *)
(* numbers; a partial lot's share of the cost is rounded to a scale in the *)
(* code and to a whole number here.  Amounts small enough not to overflow  *)
(* are the only ones considered: every sum of the code is checked and      *)
(* turns an overflow into an error that changes nothing.                   *)
(*                                                                         *)
(* The vector of lots is a function from places, in the order of purchase, *)
(* and a lot keeps its place when one before it is dropped.  The loop of a *)
(* sell over the lots is written lot by lot: what it has left when it      *)
(* comes to a lot is what the older lots of the mint did not cover.        *)
(***************************************************************************)
EXTENDS Integers, Sequences, FiniteSets, FiniteSetsExt

CONSTANT Coins    \* the mints

ASSUME CoinsAssumption == IsFiniteSet(Coins)

\* Rust's `.max(0)`, `.min(0)` and `min` on amounts.
Lesser(a, b) == IF a <= b THEN a ELSE b

\* checked_sum of the weights w over S.
Total(S, w) == MapThenSumSet(LAMBDA x : w[x], S)

\* Ledger::default.
EmptyLedger == [lots |-> <<>>, closed |-> <<>>,
                partial |-> [c \in Coins |-> 0],
                since |-> [c \in Coins |-> -1],
                costs |-> 0, last |-> 0]

LotTokens(lots) == [i \in DOMAIN lots |-> lots[i].tokens]
LotCosts(lots) == [i \in DOMAIN lots |-> lots[i].cost]

LotsOf(l, c) == {i \in DOMAIN l.lots : l.lots[i].mint = c}
TokensOf(l, c) == Total(LotsOf(l, c), LotTokens(l.lots))
CostOf(l, c) == Total(LotsOf(l, c), LotCosts(l.lots))

\* check_order: an event dated before the previous one is refused.
InOrder(l, at) == l.last <= at

\* Ledger::open: the lot goes to the end.
NextPlace(lots) == Max(DOMAIN lots \cup {0}) + 1

OpenLot(l, lot) ==
    [l EXCEPT !.lots = [i \in DOMAIN @ \cup {NextPlace(@)} |->
                          IF i \in DOMAIN @ THEN @[i] ELSE lot],
              !.last = lot.at]

CanOpenLot(l, lot) == lot.tokens > 0 /\ lot.cost >= 0 /\ InOrder(l, lot.at)

\* The part of one lot that a sell of `left` tokens takes: a whole lot takes
\* its exact remaining cost, a part its rounded share, never above it.
ShareOf(lot, left) ==
    LET take == Lesser(left, lot.tokens)
    IN  [take |-> take,
         cost |-> IF take = lot.tokens THEN lot.cost
                  ELSE Lesser((lot.cost * take) \div lot.tokens, lot.cost)]

\* `left` when the loop of Ledger::close comes to the lot at place i.
LeftAt(lots, c, tokens, i) ==
    Max({0, tokens - Total({j \in DOMAIN lots : j < i /\ lots[j].mint = c}, LotTokens(lots))})

\* What a sell takes from the lot at place i: nothing of another mint.
TakenAt(lots, c, tokens, i) ==
    IF lots[i].mint = c THEN ShareOf(lots[i], LeftAt(lots, c, tokens, i))
    ELSE [take |-> 0, cost |-> 0]

\* Fault: a partial sell leaves the whole cost with the rest of the lot.
ReducedKeepingCost(lots, c, tokens, i) ==
    LET s == TakenAt(lots, c, tokens, i)
    IN  [lots[i] EXCEPT !.tokens = @ - s.take]

Reduced(lots, c, tokens, i) ==
    LET s == TakenAt(lots, c, tokens, i)
    IN  [lots[i] EXCEPT !.tokens = @ - s.take, !.cost = @ - s.cost]

\* The loop of Ledger::close over the lots, oldest first: what the tokens sold
\* had cost, and the lots that are left, those sold out dropped.
CostTaken(lots, c, tokens) ==
    Total(DOMAIN lots, [i \in DOMAIN lots |-> TakenAt(lots, c, tokens, i).cost])

Consume(lots, c, tokens) ==
    [i \in {j \in DOMAIN lots : Reduced(lots, c, tokens, j).tokens # 0} |->
       Reduced(lots, c, tokens, i)]

CanClose(l, c, tokens, at) ==
    /\ tokens > 0
    /\ InOrder(l, at)
    /\ tokens <= TokensOf(l, c)

\* The net result of a sell, as Ledger::close returns it.
NetOf(l, c, tokens, out) == out - CostTaken(l.lots, c, tokens)

\* Ledger::close: the trip moves to the closed trades only when nothing of the
\* mint is held any more.
CloseLots(l, c, tokens, out, at) ==
    LET rest  == Consume(l.lots, c, tokens)
        pnl   == l.partial[c] + NetOf(l, c, tokens, out)
        begun == IF l.since[c] >= 0 THEN l.since[c] ELSE l.lots[Min(LotsOf(l, c))].at
        held  == \E i \in DOMAIN rest : rest[i].mint = c
    IN  [l EXCEPT
           !.lots = rest,
           !.last = at,
           !.partial[c] = IF held THEN pnl ELSE 0,
           !.since[c] = IF held THEN begun ELSE -1,
           !.closed = IF held THEN @
                      ELSE Append(@, [mint |-> c, opened |-> begun,
                                      at |-> at, net |-> pnl])]

\* record_failed_tx and record_ai_cost: a cost without a fill.
RecordCost(l, usd) == [l EXCEPT !.costs = @ + usd]

----------------------------------------------------------------------------
(* Valuation: `value` is what selling the whole position of a mint would   *)
(* return (open_by_mint: an unknown mark is worth nothing).                *)

Realised(l) == Total(DOMAIN l.closed, [i \in DOMAIN l.closed |-> l.closed[i].net])
Unrealised(l, c, value) ==
    IF LotsOf(l, c) = {} THEN 0 ELSE value - CostOf(l, c)

SumCoins(f) == Total(Coins, f)

\* Ledger::pnl, net_usd.
Pnl(l, value) ==
    Realised(l)
      + SumCoins([c \in Coins |-> l.partial[c] + Unrealised(l, c, value)])
      - l.costs

\* Ledger::open_losses: per mint, counted only when it loses.
OpenLosses(l, value) ==
    SumCoins([c \in Coins |->
                Lesser(0, l.partial[c] + Unrealised(l, c, value))])

\* gate::evaluate: the result the promotion gate judges.
GateResult(l, value) == Realised(l) + OpenLosses(l, value) - l.costs

=============================================================================
