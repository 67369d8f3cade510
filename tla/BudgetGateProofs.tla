-------------------------- MODULE BudgetGateProofs --------------------------
(***************************************************************************)
(* Theorems about BudgetGate, for any number of calls and chats, any        *)
(* amounts and limits, any TTL and clock resolution, and any set of faults; *)
(* and about LlmRouter, whose calls the gate meters, for any requests in     *)
(* flight, backends, catalog, allowlist and routing the owner may activate. *)
(***************************************************************************)
EXTENDS BudgetGate, LlmRouter, FiniteInduction, TLAPS

\* The larger of two amounts is one of them and at least as large as both.
LEMMA MaxPair ==
    ASSUME NEW x \in Nat, NEW y \in Nat
    PROVE  Max({x, y}) \in Nat /\ Max({x, y}) >= x /\ Max({x, y}) >= y
<1>1. \E m \in {x, y} : \A z \in {x, y} : m >= z
  OBVIOUS
<1>2. Max({x, y}) \in {x, y} /\ \A z \in {x, y} : Max({x, y}) >= z
  BY <1>1 DEF Max
<1> QED BY <1>2

\* A time left never grows and stays a natural number.
LEMMA LessNat ==
    ASSUME NEW n \in Nat
    PROVE  Less(n) \in Nat /\ Less(n) <= n /\ n <= Less(n) + 1
BY DEF Less

\* A TTL rounded up to whole seconds is at least the TTL.
LEMMA RoundsUp == TtlSecs \in Nat /\ TtlSecs * TicksPerSec >= Ttl
<1>1. TicksPerSec \in Nat /\ TicksPerSec > 0 /\ Ttl \in Nat
  BY ClockAssumption
<1> DEFINE q == (Ttl + TicksPerSec - 1) \div TicksPerSec
           r == (Ttl + TicksPerSec - 1) % TicksPerSec
<1>2. q \in Int /\ r \in 0 .. TicksPerSec - 1
      /\ Ttl + TicksPerSec - 1 = TicksPerSec * q + r
  BY <1>1
<1>3. TicksPerSec * q >= Ttl
  BY <1>1, <1>2
<1>4. q >= 0
  BY <1>1, <1>2, SMT
<1> QED BY <1>2, <1>3, <1>4, <1>1 DEF TtlSecs

\* Truncating both instants to whole seconds and adding one never shortens a hold.
LEMMA RestoredOutlasts ==
    ASSUME NEW left \in Nat, phase \in 0 .. TicksPerSec - 1
    PROVE  RemainingTicks(left) \in Nat /\ RemainingTicks(left) >= left
<1>1. TicksPerSec \in Nat /\ TicksPerSec > 0 /\ phase \in Nat
  BY ClockAssumption
<1> DEFINE q == (phase + left) \div TicksPerSec
           r == (phase + left) % TicksPerSec
<1>2. q \in Int /\ r \in 0 .. TicksPerSec - 1 /\ phase + left = TicksPerSec * q + r
  BY <1>1
<1>3. (q + 1) * TicksPerSec = TicksPerSec * q + TicksPerSec
  BY <1>1, <1>2
<1>4. (q + 1) * TicksPerSec >= left /\ (q + 1) * TicksPerSec \in Int
  BY <1>1, <1>2, <1>3
<1> QED BY <1>4 DEF RemainingTicks

-----------------------------------------------------------------------------
\* The inductive invariant holds in every initial state.
LEMMA IndInit == Init => IndInv
<1> SUFFICES ASSUME Init PROVE IndInv
  OBVIOUS
<1> USE DEF Init
<1>1. TypeOK
  <2>1. 0 \in 0 .. TicksPerSec - 1 /\ 0 \in 0 .. Ttl
    BY ClockAssumption
  <2>2. NoHold \in Hold /\ NoRow \in Row
    BY DEF Hold, Row, NoHold, NoRow
  <2>3. phase \in 0 .. TicksPerSec - 1 /\ ttl \in [Calls -> 0 .. Ttl]
    BY <2>1
  <2>4. holds \in [Calls -> Hold] /\ rows \in [Calls -> Row]
    BY <2>2
  <2> QED BY <2>3, <2>4 DEF TypeOK, PcCall
<1>2. \A c \in Calls : WritersInv(c) /\ AdmittedInv(c) /\ IssuedInv(c)
  BY DEF WritersInv, AdmittedInv, IssuedInv, NoRow, Tasks
<1> QED BY <1>1, <1>2 DEF IndInv


\* Every step keeps the types.
LEMMA TypeStep == TypeOK /\ [Next]_vars => TypeOK'
<1> SUFFICES ASSUME TypeOK, [Next]_vars PROVE TypeOK'
  OBVIOUS
<1> USE DEF TypeOK, book, store, task
<1>1. ASSUME NEW c \in Calls, CallNext(c) PROVE TypeOK'
  <2> USE DEF PcCall, Tasks
  <2>0. Amount[c] \in Nat /\ Ttl \in Nat /\ c \in Tasks /\ NoHold \in Hold
    BY AmountAssumption, ClockAssumption DEF Hold, NoHold
  <2>a. Inserted(c) \in [Calls -> Hold] /\ Cancelled(c) \in [Calls -> Hold]
    BY <2>0 DEF Inserted, Cancelled, Hold
  <2>b. Created(c) \in [Calls -> Row]
    BY <2>0, RoundsUp, ClockAssumption DEF Created, Row
  <2>c. KeptAtLarger(c) \in [Calls -> Hold]
    BY <2>0, MaxPair DEF KeptAtLarger, Hold
  <2>d. Released(c) \in [Calls -> Row]
    BY DEF Released, Row
  <2>1. CASE Reserve(c)
    BY <2>1, <2>0, <2>a DEF Reserve
  <2>2. CASE CreateOk(c)
    BY <2>2, <2>0, <2>b DEF CreateOk
  <2>3. CASE CreateFails(c)
    BY <2>3, <2>0, <2>a DEF CreateFails
  <2>4. CASE LateCreate(c)
    BY <2>4, <2>0, <2>b DEF LateCreate
  <2>5. CASE CancelUnsent(c)
    BY <2>5, <2>0, <2>a DEF CancelUnsent
  <2>6. CASE Settle(c)
    <3>1. holds' \in [Calls -> Hold] /\ actual' \in Nat /\ releases' \subseteq Calls
      BY <2>6, <2>0, <2>a, <2>c DEF Settle
    <3>2. cost' \in [Tasks -> Nat]
      BY <2>6, <2>0 DEF Settle
    <3> QED BY <2>6, <3>1, <3>2 DEF Settle
  <2>7. CASE Release(c)
    BY <2>7, <2>0, <2>d DEF Release
  <2> QED BY <1>1, <2>1, <2>2, <2>3, <2>4, <2>5, <2>6, <2>7 DEF CallNext
<1>2. ASSUME NEW k \in Chats, ChatReply(k) PROVE TypeOK'
  BY <1>2, AmountAssumption DEF ChatReply, Tasks, PcCall
<1>3. ASSUME NEW t \in Tasks, TaskNext(t) PROVE TypeOK'
  <2> USE DEF PcCall
  <2>1. CASE Record(t)
    BY <2>1 DEF Record
  <2>2. CASE ReadTotal(t)
    BY <2>2 DEF ReadTotal
  <2>3. CASE ApplyTotal(t)
    BY <2>3 DEF ApplyTotal
  <2>4. CASE Abandon(t)
    BY <2>4 DEF Abandon, Dropped
  <2> QED BY <1>3, <2>1, <2>2, <2>3, <2>4 DEF TaskNext
<1>4. CASE SweepBook
  BY <1>4 DEF SweepBook, Swept, NoHold, Hold
<1>5. Expired \in [Calls -> Row]
  BY DEF Expired, Row
<1>6. CASE SweepRows
  BY <1>6, <1>5 DEF SweepRows
<1>7. CASE SweepRowsFails
  BY <1>7 DEF SweepRowsFails
<1>8. CASE Tick
  <2>1. phase' \in 0 .. TicksPerSec - 1
    BY <1>8, ClockAssumption DEF Tick
  <2>2. holds' \in [Calls -> Hold] /\ rows' \in [Calls -> Row]
    BY <1>8, LessNat DEF Tick, Hold, Row
  <2>3. ttl' \in [Calls -> 0 .. Ttl]
    BY <1>8, ClockAssumption DEF Tick, Less
  <2> QED BY <1>8, <2>1, <2>2, <2>3 DEF Tick
<1>9. CASE Rollover
  BY <1>9 DEF Rollover
<1>10. CASE Crash
  BY <1>10 DEF Crash, Dropped, PcCall, NoHold, Hold
<1>11. CASE Start
  <2>1. Restored(Expired) \in [Calls -> Hold]
    BY <1>5, RestoredOutlasts DEF Restored, Hold, Row, NoHold
  <2> QED BY <1>11, <1>5, <2>1 DEF Start
<1>12. CASE UNCHANGED vars
  BY <1>12 DEF vars
<1> QED
  BY <1>1, <1>2, <1>3, <1>4, <1>6, <1>7, <1>8, <1>9, <1>10, <1>11, <1>12 DEF Next


\* Type correctness of the gate: every reachable state has the shape of TypeOK.
THEOREM TypeCorrect == Spec => []TypeOK
<1>1. Init => TypeOK
  BY IndInit DEF IndInv
<1> QED BY <1>1, TypeStep, PTL DEF Spec

-----------------------------------------------------------------------------
\* What a step of call d does to another call: nothing its invariant mentions.
LEMMA OthersStep ==
    ASSUME IndInv, NEW d \in Calls, CallNext(d), NEW c \in Calls, c # d
    PROVE  WritersInv(c)' /\ AdmittedInv(c)' /\ IssuedInv(c)'
<1> USE DEF IndInv, TypeOK, WritersInv, AdmittedInv, IssuedInv, BookInv, book, store, task, Tasks
<1>1. CASE Reserve(d)
  BY <1>1 DEF Reserve, Inserted
<1>2. CASE CreateOk(d)
  BY <1>2 DEF CreateOk, Created
<1>3. CASE CreateFails(d)
  BY <1>3 DEF CreateFails, Cancelled
<1>4. CASE LateCreate(d)
  BY <1>4 DEF LateCreate, Created
<1>5. CASE CancelUnsent(d)
  BY <1>5 DEF CancelUnsent, Cancelled
<1>6. CASE Settle(d)
  BY <1>6 DEF Settle, Cancelled, KeptAtLarger
<1>7. CASE Release(d)
  BY <1>7 DEF Release, Released
<1> QED BY <1>1, <1>2, <1>3, <1>4, <1>5, <1>6, <1>7 DEF CallNext

\* What a step of a call does to itself.
LEMMA OwnStep ==
    ASSUME IndInv, NEW c \in Calls, CallNext(c)
    PROVE  WritersInv(c)' /\ AdmittedInv(c)' /\ IssuedInv(c)'
<1> USE DEF IndInv, TypeOK, WritersInv, AdmittedInv, IssuedInv, BookInv, book, store, task, Tasks
<1>0. Amount[c] \in Nat /\ Ttl \in Nat /\ c \in Tasks
  BY AmountAssumption, ClockAssumption
<1>1. CASE Reserve(c)
  BY <1>1, <1>0 DEF Reserve, Inserted
<1>2. CASE CreateOk(c)
  <2>1. rows'[c].status = "active" /\ rows'[c].cents = Amount[c]
        /\ rows'[c].left = TtlSecs * TicksPerSec
    BY <1>2 DEF CreateOk, Created
  <2>2. rows'[c].left >= ttl'[c] /\ rows'[c].cents >= Amount[c]
    BY <1>2, <1>0, <2>1, RoundsUp, ClockAssumption DEF CreateOk
  <2>3. WritersInv(c)' /\ AdmittedInv(c)'
    BY <1>2, <1>0 DEF CreateOk
  <2> QED BY <1>2, <1>0, <2>1, <2>2, <2>3 DEF CreateOk
<1>3. CASE CreateFails(c)
  BY <1>3, <1>0 DEF CreateFails, Cancelled
<1>4. CASE LateCreate(c)
  BY <1>4, <1>0 DEF LateCreate, Created
<1>5. CASE CancelUnsent(c)
  BY <1>5, <1>0 DEF CancelUnsent, Cancelled
<1>6. CASE Settle(c)
  BY <1>6, <1>0 DEF Settle
<1>7. CASE Release(c)
  BY <1>7, <1>0 DEF Release, Released
<1> QED BY <1>1, <1>2, <1>3, <1>4, <1>5, <1>6, <1>7 DEF CallNext

\* A metering task, a chat or a dropped caller leaves book and row of a call alone.
LEMMA TaskStep ==
    ASSUME IndInv, NEW t \in Tasks, TaskNext(t) \/ (t \in Chats /\ ChatReply(t)),
           NEW c \in Calls
    PROVE  WritersInv(c)' /\ AdmittedInv(c)' /\ IssuedInv(c)'
<1> USE SetsAssumption
    DEF IndInv, TypeOK, WritersInv, AdmittedInv, IssuedInv, BookInv, book, store, task, Tasks
<1>1. CASE Record(t)
  BY <1>1 DEF Record
<1>2. CASE ReadTotal(t)
  BY <1>2 DEF ReadTotal
<1>3. CASE ApplyTotal(t)
  BY <1>3 DEF ApplyTotal
<1>4. CASE Abandon(t)
  BY <1>4 DEF Abandon, Dropped
<1>5. CASE t \in Chats /\ ChatReply(t)
  BY <1>5 DEF ChatReply
<1> QED BY <1>1, <1>2, <1>3, <1>4, <1>5 DEF TaskNext


\* The sweeper drops only what has lapsed, the clock takes the same tick from the
\* hold, the row and the admitted time, and a restart re-adopts the row.
LEMMA SystemStep ==
    ASSUME IndInv,
           SweepBook \/ SweepRows \/ SweepRowsFails \/ Tick \/ Rollover \/ Crash \/ Start,
           NEW c \in Calls
    PROVE  WritersInv(c)' /\ AdmittedInv(c)' /\ IssuedInv(c)'
<1> USE DEF IndInv, TypeOK, WritersInv, AdmittedInv, IssuedInv, BookInv, book, store, task, Tasks
<1>0. /\ holds[c] \in Hold /\ rows[c] \in Row /\ ttl[c] \in 0 .. Ttl
      /\ Amount[c] \in Nat /\ c \in Tasks
  BY AmountAssumption
<1>1. CASE SweepBook
  <2>1. holds[c].left \in Nat /\ ttl[c] \in Nat
    BY <1>0, ClockAssumption DEF Hold
  <2>2. ttl[c] > 0 /\ BookInv(c) => holds'[c] = holds[c]
    BY <1>1, <2>1 DEF SweepBook, Swept
  <2> QED BY <1>1, <2>2 DEF SweepBook
<1>2. \/ Expired[c].status = rows[c].status
      \/ rows[c].left = 0 /\ rows[c].status = "active" /\ Expired[c].status = "expired"
  <2>1. CASE rows[c].status = "active" /\ rows[c].left = 0
    <3>1. Expired[c] = [rows[c] EXCEPT !.status = "expired"]
      BY <2>1 DEF Expired
    <3> QED BY <2>1, <3>1, <1>0 DEF Row
  <2>2. CASE ~(rows[c].status = "active" /\ rows[c].left = 0)
    BY <2>2 DEF Expired
  <2> QED BY <2>1, <2>2
<1>3. Expired[c].left = rows[c].left /\ Expired[c].cents = rows[c].cents
  BY <1>0 DEF Expired, Row
<1>4. CASE SweepRows
  BY <1>4, <1>0, <1>2, <1>3, ClockAssumption DEF SweepRows
<1>5. CASE SweepRowsFails
  BY <1>5 DEF SweepRowsFails
<1>6. CASE Tick
  <2>1. /\ holds'[c].status = holds[c].status /\ holds'[c].cents = holds[c].cents
        /\ holds'[c].left = Less(holds[c].left)
        /\ rows'[c].status = rows[c].status /\ rows'[c].cents = rows[c].cents
        /\ rows'[c].left = Less(rows[c].left)
        /\ ttl'[c] = Less(ttl[c])
    BY <1>6, <1>0 DEF Tick, Hold, Row
  <2>2. holds[c].left \in Nat /\ rows[c].left \in Nat /\ ttl[c] \in Nat
    BY <1>0, ClockAssumption DEF Hold, Row
  <2>3. ttl'[c] > 0 => ttl[c] > 0
    BY <2>1, <2>2 DEF Less
  <2>4. /\ holds[c].left >= ttl[c] => holds'[c].left >= ttl'[c]
        /\ rows[c].left >= ttl[c] => rows'[c].left >= ttl'[c]
    BY <2>1, <2>2 DEF Less
  <2> QED BY <1>6, <2>1, <2>3, <2>4 DEF Tick
<1>7. CASE Rollover
  BY <1>7 DEF Rollover
<1>8. CASE Crash
  BY <1>8, <1>0 DEF Crash, Dropped
<1>9. CASE Start
  <2>1. pc[c] # "creating"
    BY <1>9 DEF Start
  <2>2. WritersInv(c)' /\ AdmittedInv(c)'
    BY <1>9, <1>2, <2>1 DEF Start
  <2>3. ASSUME pc[c] \in {"sent", "lost"}, ttl[c] > 0
        PROVE  /\ Expired[c].status = "active" /\ Expired[c].left >= ttl[c]
               /\ Expired[c].cents >= Amount[c] /\ Expired[c].left > 0
               /\ Expired[c].left \in Nat
    BY <2>3, <1>0, <1>2, <1>3, ClockAssumption DEF Row
  <2>4. ASSUME pc[c] \in {"sent", "lost"}, ttl[c] > 0 PROVE BookInv(c)'
    <3>1. holds'[c] = [status |-> "held", cents |-> Expired[c].cents,
                       left |-> RemainingTicks(Expired[c].left)]
      BY <2>3, <2>4, <1>9 DEF Start, Restored, Active
    <3>2. RemainingTicks(Expired[c].left) >= Expired[c].left
          /\ RemainingTicks(Expired[c].left) \in Nat
      BY <2>3, <2>4, RestoredOutlasts
    <3>3. RemainingTicks(Expired[c].left) >= ttl[c]
      BY <2>3, <2>4, <3>2, <1>0, ClockAssumption
    <3> QED BY <1>9, <2>3, <2>4, <3>1, <3>3 DEF Start
  <2> QED BY <1>9, <2>2, <2>3, <2>4 DEF Start
<1> QED BY <1>1, <1>4, <1>5, <1>6, <1>7, <1>8, <1>9

\* The inductive step.
LEMMA IndStep == IndInv /\ [Next]_vars => IndInv'
<1> SUFFICES ASSUME IndInv, [Next]_vars PROVE IndInv'
  OBVIOUS
<1>1. TypeOK'
  BY TypeStep DEF IndInv
<1>2. ASSUME NEW c \in Calls
      PROVE  WritersInv(c)' /\ AdmittedInv(c)' /\ IssuedInv(c)'
  <2>1. ASSUME NEW d \in Calls, CallNext(d) PROVE WritersInv(c)' /\ AdmittedInv(c)' /\ IssuedInv(c)'
    BY <2>1, OwnStep, OthersStep
  <2>2. ASSUME NEW t \in Tasks, TaskNext(t) \/ (t \in Chats /\ ChatReply(t))
        PROVE  WritersInv(c)' /\ AdmittedInv(c)' /\ IssuedInv(c)'
    BY <2>2, TaskStep
  <2>3. CASE SweepBook \/ SweepRows \/ SweepRowsFails \/ Tick \/ Rollover \/ Crash \/ Start
    BY <2>3, SystemStep
  <2>4. CASE UNCHANGED vars
    BY <2>4 DEF vars, IndInv, WritersInv, AdmittedInv, IssuedInv, BookInv
  <2> QED BY <2>1, <2>2, <2>3, <2>4 DEF Next, Tasks
<1> QED BY <1>1, <1>2 DEF IndInv

\* Every paid request in flight, or lost in flight, is counted by the book and by an
\* active durable row for as long as it was admitted for, through any crashes.
THEOREM InFlightCountedAlways == Spec => []InFlightCounted
<1>1. IndInv => InFlightCounted
  BY DEF IndInv, IssuedInv, BookInv, InFlightCounted, Live
<1> QED BY IndInit, IndStep, <1>1, PTL DEF Spec

\* A released or expired durable reservation never becomes active again.
THEOREM NoRevivalAlways == Spec => NoRevival
<1>1. IndInv /\ [Next]_vars => [NoRevivalStep]_vars
  <2> SUFFICES ASSUME IndInv, Next, NEW c \in Calls,
                      rows[c].status \in {"released", "expired"}
               PROVE  rows'[c].status = rows[c].status
    BY DEF NoRevivalStep
  <2> USE DEF IndInv, TypeOK, WritersInv, book, store, task, Tasks
  <2>1. ASSUME NEW d \in Calls, CallNext(d) PROVE rows'[c].status = rows[c].status
    <3>1. CASE CreateOk(d)
      BY <3>1 DEF CreateOk, Created
    <3>2. CASE LateCreate(d)
      BY <3>2 DEF LateCreate, Created
    <3>3. CASE Release(d)
      BY <3>3 DEF Release, Released
    <3>4. CASE Reserve(d) \/ CreateFails(d) \/ CancelUnsent(d) \/ Settle(d)
      BY <3>4 DEF Reserve, CreateFails, CancelUnsent, Settle
    <3> QED BY <2>1, <3>1, <3>2, <3>3, <3>4 DEF CallNext
  <2>2. ASSUME NEW t \in Tasks, TaskNext(t) \/ (t \in Chats /\ ChatReply(t))
        PROVE  rows'[c].status = rows[c].status
    BY <2>2 DEF TaskNext, Record, ReadTotal, ApplyTotal, Abandon, ChatReply
  <2>3. Expired[c].status = rows[c].status
    BY DEF Expired
  <2>4. CASE SweepRows \/ Start
    BY <2>3, <2>4 DEF SweepRows, Start
  <2>5. CASE Tick
    BY <2>5 DEF Tick, Row
  <2>6. CASE SweepBook \/ SweepRowsFails \/ Rollover \/ Crash
    BY <2>6 DEF SweepBook, SweepRowsFails, Rollover, Crash
  <2> QED BY <2>1, <2>2, <2>4, <2>5, <2>6 DEF Next, Tasks
<1> QED BY IndInit, IndStep, <1>1, PTL DEF Spec, NoRevival

-----------------------------------------------------------------------------
(* The sums of the cap test.                                                *)

CentsSum(f, h, S) ==
  f = [s \in SUBSET S |-> IF s = {} THEN 0 ELSE h[Any(s)].cents + f[s \ {Any(s)}]]

\* What the book has reserved is the sum of its holds.
LEMMA ReservedIsSum ==
  ASSUME NEW h \in [Calls -> Hold]
  PROVE  \E g, w : /\ \A x \in Held(h) : w[x] = h[x].cents /\ w[x] \in Nat
                   /\ IsSum(g, w, Held(h)) /\ ReservedCents(h) = g[Held(h)]
<1>1. PICK S : S = Held(h) OBVIOUS
<1>2. PICK w : w = [x \in S |-> h[x].cents] OBVIOUS
<1>3. S \in SUBSET Calls /\ \A x \in S : w[x] = h[x].cents /\ w[x] \in Nat
  BY <1>1, <1>2 DEF Held, Hold
<1>4. IsFiniteSet(S) BY <1>3, SetsAssumption, FS_Subset
<1>5. ASSUME NEW f PROVE [s \in SUBSET S |-> PartSum(f, w, s)]
        = [s \in SUBSET S |-> IF s = {} THEN 0 ELSE h[Any(s)].cents + f[s \ {Any(s)}]]
  <2>1. ASSUME NEW s \in SUBSET S, s # {} PROVE w[Any(s)] = h[Any(s)].cents
    BY <1>3, <2>1, AnyIsOne
  <2>. QED BY <2>1 DEF PartSum
<1>6. \E f : CentsSum(f, h, S)
  <2>1. PICK f : IsSum(f, w, S) BY <1>3, <1>4, SumExists
  <2>2. CentsSum(f, h, S) BY <1>5, <2>1, Zenon DEF IsSum, CentsSum
  <2>. QED BY <2>2
<1>7. PICK g : g = (CHOOSE f : CentsSum(f, h, S)) OBVIOUS
<1>8. CentsSum(g, h, S) BY <1>6, <1>7, Zenon
<1>9. IsSum(g, w, S) BY <1>5, <1>8, Zenon DEF IsSum, CentsSum
<1>10. ReservedCents(h) = (CHOOSE f : CentsSum(f, h, Held(h)))[Held(h)]
  BY Zenon DEF ReservedCents, MapThenSumSet, MapThenFoldSet, CentsSum, Any
<1>. QED BY <1>1, <1>3, <1>7, <1>9, <1>10

LEMMA LiveIsSum ==
  ASSUME NEW S \in SUBSET Calls
  PROVE  \E f : IsSum(f, Amount, S) /\ MapThenSumSet(LAMBDA d : Amount[d], S) = f[S]
<1>1. IsFiniteSet(S) /\ \A x \in S : Amount[x] \in Nat
  BY SetsAssumption, AmountAssumption, FS_Subset
<1>2. \E f : IsSum(f, Amount, S) BY <1>1, SumExists
<1>3. PICK f : f = (CHOOSE g : IsSum(g, Amount, S)) OBVIOUS
<1>4. IsSum(f, Amount, S) BY <1>2, <1>3, Zenon
<1>5. MapThenSumSet(LAMBDA d : Amount[d], S) = (CHOOSE g : IsSum(g, Amount, S))[S]
  BY Zenon DEF MapThenSumSet, MapThenFoldSet, IsSum, PartSum, Any
<1>. QED BY <1>3, <1>4, <1>5

\* The holds of a running Core are at least the requests that are out.
LEMMA LiveIsReserved ==
  ASSUME IndInv, up
  PROVE  /\ MapThenSumSet(LAMBDA d : Amount[d], Live) \in Nat /\ ReservedCents(holds) \in Nat
         /\ MapThenSumSet(LAMBDA d : Amount[d], Live) <= ReservedCents(holds)
<1>1. holds \in [Calls -> Hold] /\ Live \in SUBSET Calls BY DEF IndInv, TypeOK, Live
<1>2. Held(holds) \in SUBSET Calls /\ Live \in SUBSET Held(holds)
  BY DEF IndInv, IssuedInv, BookInv, Live, Held
<1>3. \A x \in Live : holds[x].cents >= Amount[x] /\ Amount[x] \in Nat
  BY AmountAssumption DEF IndInv, IssuedInv, BookInv, Live
<1>4. PICK g, w : /\ \A x \in Held(holds) : w[x] = holds[x].cents /\ w[x] \in Nat
                  /\ IsSum(g, w, Held(holds)) /\ ReservedCents(holds) = g[Held(holds)]
  BY <1>1, ReservedIsSum
<1>5. PICK f : IsSum(f, Amount, Live) /\ MapThenSumSet(LAMBDA d : Amount[d], Live) = f[Live]
  BY <1>1, LiveIsSum
<1>6. IsFiniteSet(Held(holds)) /\ IsFiniteSet(Live) BY <1>1, <1>2, SetsAssumption, FS_Subset
<1>7. \A x \in Live : Amount[x] \in Nat /\ Amount[x] <= w[x] BY <1>2, <1>3, <1>4
<1>8. f[Live] <= g[Held(holds)] BY <1>2, <1>4, <1>5, <1>6, <1>7, SumIsMonotone
<1>9. f[Live] \in Nat /\ g[Held(holds)] \in Nat BY <1>3, <1>4, <1>5, <1>6, SumIsNat
<1>. QED BY <1>4, <1>5, <1>8, <1>9

\* Only a reservation is admitted.
LEMMA OnlyReserveAdmits ==
  ASSUME TypeOK, Next, NEW c \in Calls, pc[c] = "idle", pc'[c] = "creating"
  PROVE  Reserve(c)
<1>. USE DEF TypeOK, Tasks, book, store, task
<1>1. ASSUME NEW d \in Calls, CallNext(d) PROVE Reserve(c)
  <2>1. CASE Reserve(d) BY <2>1 DEF Reserve
  <2>2. CASE CreateOk(d) \/ CreateFails(d) \/ LateCreate(d) BY <2>2 DEF CreateOk, CreateFails, LateCreate
  <2>3. CASE CancelUnsent(d) \/ Settle(d) \/ Release(d) BY <2>3 DEF CancelUnsent, Settle, Release
  <2>. QED BY <1>1, <2>1, <2>2, <2>3 DEF CallNext
<1>2. ASSUME NEW t \in Tasks, TaskNext(t) \/ (t \in Chats /\ ChatReply(t)) PROVE FALSE
  BY <1>2, SetsAssumption DEF TaskNext, Record, ReadTotal, ApplyTotal, Abandon, ChatReply, Dropped
<1>3. CASE Crash BY <1>3 DEF Crash, Dropped
<1>4. CASE SweepBook \/ SweepRows \/ SweepRowsFails \/ Tick \/ Rollover \/ Start
  BY <1>4 DEF SweepBook, SweepRows, SweepRowsFails, Tick, Rollover, Start
<1>. QED BY <1>1, <1>2, <1>3, <1>4 DEF Next

\* Whatever settles, lapses, is lost, restored or swept in between, a reservation is
\* admitted only if the spend, every live request and the new one fit the hard cap
\* together (BudgetBook::reserve).
THEOREM AdmissionCountsLiveAlways == Spec => AdmissionCountsLive
<1>1. ASSUME IndInv, [Next]_vars PROVE [AdmissionStep]_vars
  <2>. SUFFICES ASSUME Next, NEW c \in Calls, pc[c] = "idle", pc'[c] = "creating"
                PROVE  actual + MapThenSumSet(LAMBDA d : Amount[d], Live) + Amount[c] <= Hard
    BY <1>1 DEF AdmissionStep
  <2>1. TypeOK BY <1>1 DEF IndInv
  <2>2. Reserve(c) BY <2>1, OnlyReserveAdmits
  <2>3. up /\ actual + ReservedCents(holds) + Amount[c] <= Hard
    BY <2>1, <2>2 DEF Reserve, Admits, TypeOK, Tasks
  <2>4. PICK live : live = MapThenSumSet(LAMBDA d : Amount[d], Live) OBVIOUS
  <2>5. live \in Nat /\ ReservedCents(holds) \in Nat /\ live <= ReservedCents(holds)
    BY <1>1, <2>3, <2>4, LiveIsReserved
  <2>6. actual \in Nat /\ Amount[c] \in Nat /\ Hard \in Nat
    BY <2>1, AmountAssumption, LimitsAssumption DEF TypeOK
  <2>7. actual + live + Amount[c] <= Hard BY <2>3, <2>5, <2>6
  <2>. QED BY <2>4, <2>7
<1>. QED BY IndInit, IndStep, <1>1, PTL DEF Spec, AdmissionCountsLive

-----------------------------------------------------------------------------
(* Picking entries of a sequence by their places.                           *)

Below(K, i) == {j \in K : j < i}
HasRank(K, n) == \E i \in K : Cardinality(Below(K, i)) = n - 1

\* Each place in K has a rank, and each rank up to their number a place.
LEMMA RanksExist ==
  ASSUME NEW l \in Nat, NEW K \in SUBSET (1 .. l)
  PROVE  /\ IsFiniteSet(K) /\ Cardinality(K) \in Nat
         /\ \A n \in 1 .. Cardinality(K) : HasRank(K, n)
<1>. DEFINE G == {m \in Nat : \A J \in SUBSET (1 .. m) : \A n \in 1 .. Cardinality(J) : HasRank(J, n)}
<1>0. \A m \in Nat : \A J \in SUBSET (1 .. m) : IsFiniteSet(J) /\ Cardinality(J) \in Nat
  <2>. SUFFICES ASSUME NEW m \in Nat, NEW J \in SUBSET (1 .. m)
                PROVE  IsFiniteSet(J) /\ Cardinality(J) \in Nat
    OBVIOUS
  <2>1. IsFiniteSet(1 .. m) BY FS_Interval, 1 \in Int, m \in Int
  <2>2. IsFiniteSet(J) BY <2>1, FS_Subset
  <2>. QED BY <2>2, FS_CardinalityType
<1>1. 0 \in G
  <2>1. \A J \in SUBSET (1 .. 0) : J = {} OBVIOUS
  <2>2. Cardinality({}) = 0 BY FS_EmptySet
  <2>. QED BY <2>1, <2>2
<1>2. ASSUME NEW m \in Nat, m \in G PROVE m + 1 \in G
  <2>. SUFFICES ASSUME NEW J \in SUBSET (1 .. m + 1), NEW n \in 1 .. Cardinality(J) PROVE HasRank(J, n)
    OBVIOUS
  <2>1. CASE m + 1 \notin J
    <3>1. J \in SUBSET (1 .. m) BY <2>1
    <3>. QED BY <1>2, <3>1
  <2>2. CASE m + 1 \in J
    <3>1. PICK I : I = J \ {m + 1} OBVIOUS
    <3>2. I \in SUBSET (1 .. m) BY <3>1
    <3>3. Cardinality(I) = Cardinality(J) - 1 /\ Cardinality(J) \in Nat BY <1>0, <2>2, <3>1, FS_RemoveElement
    <3>4. CASE n = Cardinality(J)
      <4>1. Below(J, m + 1) = I
        <5>1. \A j \in J : j \in Nat /\ (j < m + 1 <=> j # m + 1) OBVIOUS
        <5>. QED BY <3>1, <5>1 DEF Below
      <4>. QED BY <2>2, <3>3, <3>4, <4>1 DEF HasRank
    <3>5. CASE n # Cardinality(J)
      <4>1. n \in 1 .. Cardinality(I) BY <3>3, <3>5
      <4>2. PICK i \in I : Cardinality(Below(I, i)) = n - 1 BY <1>2, <3>2, <4>1 DEF HasRank
      <4>3. i \in J /\ i \in Nat /\ i < m + 1 BY <3>1, <3>2
      <4>4. Below(J, i) = Below(I, i) BY <3>1, <3>2, <4>3 DEF Below
      <4>. QED BY <4>2, <4>3, <4>4 DEF HasRank
    <3>. QED BY <3>4, <3>5
  <2>. QED BY <2>1, <2>2
<1>3. \A m \in Nat : m \in G
  <2>. HIDE DEF G
  <2>. QED BY <1>1, <1>2, NatInduces
<1>. QED BY <1>0, <1>3

\* Every entry of c is one of s at a place in K.
TakenFrom(s, K, c) ==
    /\ DOMAIN c = 1 .. Cardinality(K) /\ Cardinality(K) \in Nat
    /\ \A n \in 1 .. Cardinality(K) : \E i \in K : c[n] = s[i]
Places(K) == \E l \in Nat : K \in SUBSET (1 .. l)

LEMMA PickedFrom == \A s, K : Places(K) => TakenFrom(s, K, Picked(s, K))
<1>. SUFFICES ASSUME NEW s, NEW K, NEW l \in Nat, K \in SUBSET (1 .. l) PROVE TakenFrom(s, K, Picked(s, K))
  BY DEF Places
<1>1. Cardinality(K) \in Nat /\ \A n \in 1 .. Cardinality(K) : HasRank(K, n) BY RanksExist
<1>2. ASSUME NEW n \in 1 .. Cardinality(K) PROVE \E i \in K : Picked(s, K)[n] = s[i]
  <2>1. \E i \in K : Cardinality({j \in K : j < i}) = n - 1 BY <1>1 DEF HasRank, Below
  <2>2. PICK i : i = CHOOSE k \in K : Cardinality({j \in K : j < k}) = n - 1 OBVIOUS
  <2>3. i \in K BY <2>1, <2>2, Zenon
  <2>4. Picked(s, K)[n] = s[i] BY <2>2 DEF Picked
  <2>. QED BY <2>3, <2>4
<1>3. DOMAIN Picked(s, K) = 1 .. Cardinality(K) BY DEF Picked
<1>. QED BY <1>1, <1>2, <1>3 DEF TakenFrom

-----------------------------------------------------------------------------
(* The inductive invariant of the router.                                   *)

IsRequest(r) ==
    r = [at |-> r.at, ask |-> r.ask, plan |-> r.plan, model |-> r.model, calls |-> r.calls,
         up |-> r.up, barred |-> r.barred, route |-> r.route]

\* A step of the plan of r to backend b: what the plan was made from allows to call it,
\* with the model m that the route pins.
StepAllowed(r, b, m) ==
    /\ b \notin r.barred
    /\ Metered(b) =>
          /\ b \in r.up
          /\ \A t \in r.route : \A i, j \in DOMAIN t.chain :
                i < j /\ Subscription(t.chain[i].provider) /\ t.chain[j] = [provider |-> b, model |-> m]
                    => t.metered_after_subscription
    /\ r.route # {} => m # NoModel

\* The plan still to be worked through, and the calls made on it.
PlanOf(r) ==
    /\ r.plan \in Seq({r.plan[n] : n \in DOMAIN r.plan})
    /\ \A n \in DOMAIN r.plan : StepAllowed(r, r.plan[n].backend, r.plan[n].pinned)
    /\ r.route # {} => r.ask.model = NoModel
CallsOf(r) ==
    /\ r.calls \in Nat
    /\ r.at = "trying" =>
          /\ r.ask.kind = "stream" => r.calls = 0
          /\ r.ask.only # NoModel => Len(r.plan) + r.calls <= 1
    /\ r.at = "calling" =>
          /\ r.plan # <<>> /\ StepAllowed(r, r.plan[1].backend, r.model)
          /\ r.ask.only # NoModel => Len(r.plan) + r.calls <= 2
    /\ r.ask.kind = "stream" \/ r.ask.only # NoModel => r.calls <= 1

RequestOK(r) == IsRequest(r) /\ PlanOf(r) /\ CallsOf(r)

RouterInv ==
    /\ routing \in Routings
    /\ req \in [ChatRequests -> {req[q] : q \in ChatRequests}]
    /\ \A q \in ChatRequests : RequestOK(req[q])

LEMMA NoRequestIs ==
  ASSUME NEW r, IsRequest(r), r.plan = <<>>, r.route = {}, r.calls = 0, r.at \in {"idle", "done"}
  PROVE  RequestOK(r)
<1>1. PlanOf(r) BY DEF PlanOf
<1>2. CallsOf(r) BY DEF CallsOf
<1>. QED BY <1>1, <1>2 DEF RequestOK

\* A step of a routed tier's order is an entry of its chain that may be tried.
FromChain(route, step) ==
    \E j \in DOMAIN route.chain :
       /\ step.backend = route.chain[j].provider /\ step.pinned = route.chain[j].model
       /\ \/ route.metered_after_subscription
          \/ ~Metered(route.chain[j].provider)
          \/ \A i \in 1 .. j - 1 : ~Subscription(route.chain[i].provider)

OrderedOK(ask, s) ==
    /\ Len(s) \in Nat /\ DOMAIN s = 1 .. Len(s) /\ (ask.only # NoModel => Len(s) = 1)
    /\ RouteOf(ask) # {} =>
          /\ ask.model = NoModel /\ ask.only = NoModel
          /\ RouteOf(ask) = {routing.tiers[ask.tier]}
          /\ \A n \in DOMAIN s : FromChain(routing.tiers[ask.tier], s[n])

LEMMA ChainIsNumbered ==
  ASSUME NEW route, ValidChain(route)
  PROVE  \E l \in Nat : DOMAIN route.chain = 1 .. l
<1>1. \E n \in 0 .. MaxChain : DOMAIN route.chain = 1 .. n BY DEF ValidChain
<1>. QED BY <1>1 DEF MaxChain

\* The order in which backends are tried.
LEMMA OrderedIs ==
  ASSUME RouterInv, NEW ask \in Asks, NEW s, s = Ordered(ask)
  PROVE  OrderedOK(ask, s)
<1>. USE DEF OrderedOK
<1>1. CASE ask.only # NoModel
  <2>1. s = <<Step(ask.only, NoModel)>> BY <1>1 DEF Ordered
  <2>2. RouteOf(ask) = {} BY <1>1 DEF RouteOf
  <2>. QED BY <2>1, <2>2
<1>2. CASE ask.only = NoModel /\ RouteOf(ask) = {}
  <2>1. PICK b : b = BuiltIn(ask.tier) OBVIOUS
  <2>2. Len(b) \in Nat /\ DOMAIN b = 1 .. Len(b)
    <3>1. CASE ask.tier = "Cheap" BY <2>1, <3>1 DEF BuiltIn
    <3>2. CASE ask.tier = "Default" BY <2>1, <3>2 DEF BuiltIn
    <3>3. CASE ask.tier = "Hard" BY <2>1, <3>3 DEF BuiltIn
    <3>. QED BY <3>1, <3>2, <3>3, AsksAssumption DEF Tiers
  <2>3. s = [i \in DOMAIN b |-> Step(b[i], NoModel)] BY <1>2, <2>1 DEF Ordered
  <2>4. DOMAIN s = 1 .. Len(b) BY <2>2, <2>3
  <2>5. Len(s) = Len(b) BY <2>2, <2>3, <2>4
  <2>. QED BY <1>2, <2>2, <2>4, <2>5
<1>3. CASE ask.only = NoModel /\ RouteOf(ask) # {}
  <2>1. PICK route : route = routing.tiers[ask.tier] OBVIOUS
  <2>2. PICK K : K = {i \in DOMAIN route.chain :
              \/ route.metered_after_subscription
              \/ ~Metered(route.chain[i].provider)
              \/ \A j \in 1 .. i - 1 : ~Subscription(route.chain[j].provider)}
    OBVIOUS
  <2>3. ValidChain(route) BY <2>1, RoutingAssumption, AsksAssumption DEF RouterInv, ValidRouting
  <2>4. PICK l \in Nat : DOMAIN route.chain = 1 .. l BY <2>3, ChainIsNumbered
  <2>5. K \in SUBSET (1 .. l) BY <2>2, <2>4
  <2>6. PICK c : c = RuntimeChain(route) OBVIOUS
  <2>7. c = Picked(route.chain, K) BY <2>2, <2>6 DEF RuntimeChain
  <2>8. TakenFrom(route.chain, K, c)
    <3>1. Places(K) BY <2>5 DEF Places
    <3>. QED BY <2>7, <3>1, PickedFrom, Zenon
  <2>9. s = [i \in DOMAIN c |-> Step(c[i].provider, c[i].model)] BY <1>3, <2>1, <2>6 DEF Ordered
  <2>10. DOMAIN s = 1 .. Cardinality(K) /\ Len(s) = Cardinality(K) BY <2>8, <2>9 DEF TakenFrom
  <2>11. ASSUME NEW n \in DOMAIN s PROVE FromChain(route, s[n])
    <3>1. PICK j \in K : c[n] = route.chain[j] BY <2>8, <2>10 DEF TakenFrom
    <3>2. s[n].backend = route.chain[j].provider /\ s[n].pinned = route.chain[j].model
      BY <2>8, <2>9, <2>10, <3>1 DEF Step, TakenFrom
    <3>. QED BY <2>2, <3>1, <3>2 DEF FromChain
  <2>12. RouteOf(ask) = {routing.tiers[ask.tier]} /\ ask.model = NoModel BY <1>3 DEF RouteOf
  <2>. QED BY <1>3, <2>1, <2>8, <2>10, <2>11, <2>12 DEF TakenFrom
<1>. QED BY <1>1, <1>2, <1>3

\* A metered entry behind a subscription is in the order only where the tier says so.
LEMMA ChainPays ==
  ASSUME RouterInv, NEW ask \in Asks, NEW route, route = routing.tiers[ask.tier],
         NEW step, FromChain(route, step), Metered(step.backend),
         NEW i \in DOMAIN route.chain, NEW j \in DOMAIN route.chain, i < j,
         Subscription(route.chain[i].provider),
         route.chain[j] = [provider |-> step.backend, model |-> step.pinned]
  PROVE  route.metered_after_subscription
<1>1. ValidChain(route) BY RoutingAssumption, AsksAssumption DEF RouterInv, ValidRouting
<1>2. \A k \in DOMAIN route.chain :
         route.chain[k] = [provider |-> route.chain[k].provider, model |-> route.chain[k].model]
  BY EntryAssumption, AsksAssumption DEF RouterInv
<1>3. PICK k \in DOMAIN route.chain :
       /\ step.backend = route.chain[k].provider /\ step.pinned = route.chain[k].model
       /\ \/ route.metered_after_subscription
          \/ ~Metered(route.chain[k].provider)
          \/ \A h \in 1 .. k - 1 : ~Subscription(route.chain[h].provider)
  BY DEF FromChain
<1>4. route.chain[k] = [provider |-> step.backend, model |-> step.pinned] BY <1>2, <1>3
<1>5. k = j BY <1>1, <1>4 DEF ValidChain
<1>6. i \in 1 .. k - 1
  <2>1. PICK l \in Nat : DOMAIN route.chain = 1 .. l BY <1>1, ChainIsNumbered
  <2>. QED BY <1>5, <2>1
<1>. QED BY <1>3, <1>6

\* The plan of a new request.
LEMMA PlanIs ==
  ASSUME RouterInv, NEW ask \in Asks, NEW r, r.ask = ask, r.plan = PlanFor(ask), r.up = available,
         r.barred = {b \in Candidates : ~Healthy(b)}, r.route = RouteOf(ask)
  PROVE  PlanOf(r) /\ Len(r.plan) \in Nat /\ (ask.only # NoModel => Len(r.plan) <= 1)
<1>1. PICK s : s = Ordered(ask) OBVIOUS
<1>2. OrderedOK(ask, s) BY <1>1, OrderedIs
<1>3. PICK paid : paid = {i \in DOMAIN s : /\ s[i].backend \in Candidates
                                           /\ ~RefusesProvider(routing, s[i].backend)}
  OBVIOUS
<1>4. PICK ups : ups = {i \in paid : s[i].backend \in available} OBVIOUS
<1>5. PICK base : base = IF ups = {} THEN SafetyNet(s, paid) ELSE ups OBVIOUS
<1>6. PICK K : K = {i \in base : Healthy(s[i].backend)} OBVIOUS
<1>7. r.plan = Picked(s, K) BY <1>1, <1>3, <1>4, <1>5, <1>6 DEF PlanFor
<1>8. \A i \in K : /\ i \in DOMAIN s /\ s[i].backend \in Candidates /\ Healthy(s[i].backend)
                   /\ Metered(s[i].backend) => s[i].backend \in available
  BY <1>3, <1>4, <1>5, <1>6 DEF SafetyNet
<1>9. PICK l \in Nat : l = Len(s) /\ DOMAIN s = 1 .. l BY <1>2 DEF OrderedOK
<1>10. K \in SUBSET (1 .. l) BY <1>8, <1>9
<1>11. TakenFrom(s, K, r.plan)
  <2>1. Places(K) BY <1>10 DEF Places
  <2>. QED BY <1>7, <2>1, PickedFrom, Zenon
<1>12. PICK p : p = r.plan OBVIOUS
<1>13. PICK c \in Nat : c = Cardinality(K) BY <1>11 DEF TakenFrom
<1>14. DOMAIN p = 1 .. c /\ \A n \in 1 .. c : \E i \in K : p[n] = s[i] BY <1>11, <1>12, <1>13 DEF TakenFrom
<1>15. p = [n \in 1 .. c |-> p[n]] BY <1>7, <1>12, <1>13 DEF Picked
<1>16. p \in Seq({p[n] : n \in DOMAIN p}) /\ Len(p) = c BY <1>14, <1>15
<1>17. ask.only # NoModel => c <= 1
  <2>. SUFFICES ASSUME ask.only # NoModel PROVE c <= 1 OBVIOUS
  <2>1. l = 1 BY <1>2, <1>9 DEF OrderedOK
  <2>2. IsFiniteSet({1}) /\ Cardinality({1}) = 1 BY FS_Singleton
  <2>3. K \subseteq {1} BY <1>10, <2>1
  <2>. QED BY <1>13, <2>2, <2>3, FS_Subset
<1>18. ASSUME NEW n \in DOMAIN p PROVE StepAllowed(r, p[n].backend, p[n].pinned)
  <2>1. PICK i \in K : p[n] = s[i] BY <1>14
  <2>2. PICK step : step = s[i] OBVIOUS
  <2>3. step.backend \notin r.barred /\ (Metered(step.backend) => step.backend \in r.up) BY <1>8, <2>2
  <2>4. CASE r.route = {} BY <2>1, <2>2, <2>3, <2>4 DEF StepAllowed
  <2>5. CASE r.route # {}
    <3>1. PICK route : route = routing.tiers[ask.tier] OBVIOUS
    <3>2. r.route = {route} /\ FromChain(route, step) BY <1>2, <1>8, <2>2, <2>5, <3>1 DEF OrderedOK
    <3>3. ASSUME Metered(step.backend), NEW h \in DOMAIN route.chain, NEW j \in DOMAIN route.chain, h < j,
                 Subscription(route.chain[h].provider),
                 route.chain[j] = [provider |-> step.backend, model |-> step.pinned]
          PROVE  route.metered_after_subscription
      BY <3>1, <3>2, <3>3, ChainPays
    <3>4. step.pinned # NoModel
      <4>1. ValidChain(route) BY <3>1, RoutingAssumption, AsksAssumption DEF RouterInv, ValidRouting
      <4>. QED BY <3>2, <4>1 DEF FromChain, ValidChain
    <3>. QED BY <2>1, <2>2, <2>3, <3>2, <3>3, <3>4 DEF StepAllowed
  <2>. QED BY <2>4, <2>5
<1>19. r.route # {} => r.ask.model = NoModel BY <1>2 DEF OrderedOK
<1>. QED BY <1>12, <1>16, <1>17, <1>18, <1>19 DEF PlanOf

-----------------------------------------------------------------------------
(* The models that may be sent.                                             *)

LEMMA LeastIsOne ==
  ASSUME NEW S \in SUBSET Nat, S # {}
  PROVE  Least(S) \in S
<1>1. \E i \in S : \A j \in S : i <= j BY LeastNatural
<1>. QED BY <1>1 DEF Least

LEMMA ClassIsAllowed ==
  ASSUME NEW b, NEW class, NEW m \in OfClass(b, class)
  PROVE  Allows(b, m)
<1>1. PICK listed : listed = {i \in DOMAIN Catalog : /\ Catalog[i].backend = b /\ Catalog[i].class = class
                                                     /\ Allows(b, Catalog[i].id)}
  OBVIOUS
<1>2. CASE listed # {}
  <2>1. listed \in SUBSET Nat BY <1>1, CatalogAssumption
  <2>2. PICK i : i = Least(listed) OBVIOUS
  <2>3. i \in listed BY <1>2, <2>1, <2>2, LeastIsOne
  <2>4. m = Catalog[i].id BY <1>1, <1>2, <2>2 DEF OfClass
  <2>. QED BY <1>1, <2>3, <2>4
<1>3. CASE listed = {}
  <2>1. PICK p \in Pairs : p[1] = b /\ ~suspended /\ policy[p] = "on" /\ m = p[2] BY <1>1, <1>3 DEF OfClass
  <2>2. p = <<b, m>> BY <2>1, PairsAssumption
  <2>. QED BY <2>1, <2>2 DEF Allows
<1>. QED BY <1>2, <1>3

LEMMA ChosenIsAllowed ==
  ASSUME NEW b, NEW pinned, NEW ask, NEW m \in ChooseModel(b, pinned, ask)
  PROVE  Allows(b, m) /\ (ask.model = NoModel /\ pinned # NoModel => m = pinned)
<1>1. CASE ask.model # NoModel BY <1>1 DEF ChooseModel, RequestedIsAllowed
<1>2. CASE ask.model = NoModel /\ pinned # NoModel BY <1>2 DEF ChooseModel
<1>3. CASE ask.model = NoModel /\ pinned = NoModel
  <2>1. m \in ModelFor(b, ask.tier) BY <1>3 DEF ChooseModel
  <2>2. \E class : m \in OfClass(b, class) BY <2>1 DEF ModelFor
  <2>. QED BY <1>3, <2>2, ClassIsAllowed
<1>. QED BY <1>1, <1>2, <1>3

LEMMA OpenIsAllowed ==
  ASSUME NEW q, NEW m \in OpenModels(q), req[q].ask.kind = "research" => ResearchOn(routing)
  PROVE  /\ Allows(NextBackend(q), m)
         /\ ~RefusesProvider(routing, NextBackend(q))
         /\ req[q].ask.kind = "research" => ResearchOn(routing) /\ ~Metered(NextBackend(q))
         /\ req[q].ask.model = NoModel /\ req[q].plan[1].pinned # NoModel => m = req[q].plan[1].pinned
<1>1. m \in ChooseModel(NextBackend(q), req[q].plan[1].pinned, req[q].ask) BY DEF OpenModels
<1>2. /\ Allows(NextBackend(q), m)
      /\ req[q].ask.model = NoModel /\ req[q].plan[1].pinned # NoModel => m = req[q].plan[1].pinned
  BY <1>1, ChosenIsAllowed
<1>3. CASE req[q].ask.kind = "research"
  <2>1. Subscription(NextBackend(q)) BY <1>3 DEF OpenModels
  <2>2. ~Metered(NextBackend(q)) BY <2>1 DEF Subscription, Metered, MeteredId
  <2>. QED BY <1>2, <1>3, <2>2 DEF RefusesProvider
<1>4. CASE req[q].ask.kind # "research" BY <1>2, <1>4 DEF OpenModels, PaidApiNowRefuses
<1>. QED BY <1>3, <1>4

-----------------------------------------------------------------------------
(* Every step of a request keeps the invariant.                             *)

\* A step that replaces one request by another that is in order.
LEMMA OneRequestChanges ==
  ASSUME RouterInv, NEW q \in ChatRequests, NEW r, Say(q, r), RequestOK(r), routing' \in Routings
  PROVE  RouterInv'
<1>1. req' = [req EXCEPT ![q] = r] BY DEF Say
<1>2. \A p \in ChatRequests : req'[p] = IF p = q THEN r ELSE req[p] BY <1>1 DEF RouterInv
<1>3. req' \in [ChatRequests -> {req'[p] : p \in ChatRequests}]
  <2>1. req' = [p \in ChatRequests |-> req'[p]] BY <1>1 DEF RouterInv
  <2>. QED BY <2>1
<1>4. \A p \in ChatRequests : RequestOK(req'[p]) BY <1>2 DEF RouterInv
<1>. QED BY <1>3, <1>4 DEF RouterInv

LEMMA DoneIs ==
  ASSUME RouterInv, NEW q \in ChatRequests
  PROVE  RequestOK(Done(q))
<1>1. PICK r : r = Done(q) OBVIOUS
<1>2. PICK o : o = req[q] /\ RequestOK(o) BY DEF RouterInv
<1>3. /\ r.at = "done" /\ r.ask = o.ask /\ r.plan = <<>> /\ r.model = NoModel /\ r.calls = o.calls
      /\ r.up = {} /\ r.barred = {} /\ r.route = {} /\ IsRequest(r)
  BY <1>1, <1>2 DEF Done, NoRequest, IsRequest
<1>4. PlanOf(r) BY <1>3 DEF PlanOf
<1>5. CallsOf(r) BY <1>2, <1>3 DEF CallsOf, RequestOK
<1>. QED BY <1>1, <1>3, <1>4, <1>5 DEF RequestOK

\* The rest of a plan.
LEMMA TailIs ==
  ASSUME NEW o, NEW r, PlanOf(o), o.plan # <<>>, r.plan = Tail(o.plan), r.ask = o.ask,
         r.up = o.up, r.barred = o.barred, r.route = o.route
  PROVE  PlanOf(r) /\ Len(o.plan) \in Nat /\ Len(r.plan) = Len(o.plan) - 1
<1>1. PICK p, S : p = o.plan /\ p \in Seq(S) BY DEF PlanOf
<1>2. PICK t : t = Tail(p) /\ t = r.plan BY <1>1
<1>3. /\ Len(p) \in Nat /\ Len(p) >= 1 /\ DOMAIN p = 1 .. Len(p)
      /\ Len(t) = Len(p) - 1 /\ t \in Seq(S) /\ DOMAIN t = 1 .. Len(t)
      /\ \A n \in DOMAIN t : n + 1 \in DOMAIN p /\ t[n] = p[n + 1]
  BY <1>1, <1>2
<1>4. t \in Seq({t[n] : n \in DOMAIN t})
  <2>1. t = [n \in 1 .. Len(t) |-> t[n]] BY <1>3
  <2>. QED BY <1>3, <2>1
<1>5. ASSUME NEW n \in DOMAIN t PROVE StepAllowed(r, t[n].backend, t[n].pinned)
  <2>1. PICK k \in DOMAIN p : t[n] = p[k] BY <1>3
  <2>2. StepAllowed(o, p[k].backend, p[k].pinned) BY <1>1 DEF PlanOf
  <2>. QED BY <2>1, <2>2 DEF StepAllowed
<1>6. r.route # {} => r.ask.model = NoModel BY DEF PlanOf
<1>7. PlanOf(r) BY <1>2, <1>4, <1>5, <1>6 DEF PlanOf
<1>. QED BY <1>1, <1>2, <1>3, <1>7

LEMMA BeginStep ==
  ASSUME RouterInv, NEW q \in ChatRequests, NEW ask \in Asks, Begin(q, ask)
  PROVE  RouterInv'
<1>0. routing' \in Routings BY DEF Begin, RouterInv
<1>1. CASE Say(q, [NoRequest EXCEPT !.at = "done", !.ask = ask])
  <2>1. PICK r : r = [NoRequest EXCEPT !.at = "done", !.ask = ask] OBVIOUS
  <2>2. /\ r.at = "done" /\ r.plan = <<>> /\ r.calls = 0 /\ r.route = {} /\ IsRequest(r)
    BY <2>1 DEF NoRequest, IsRequest
  <2>3. RequestOK(r) BY <2>2, NoRequestIs
  <2>. QED BY <1>0, <1>1, <2>1, <2>3, OneRequestChanges
<1>2. CASE Say(q, [NoRequest EXCEPT !.at = "trying", !.ask = ask, !.plan = PlanFor(ask), !.up = available,
                                    !.barred = {b \in Candidates : ~Healthy(b)}, !.route = RouteOf(ask)])
  <2>0. PICK plan, barred, route : /\ plan = PlanFor(ask) /\ barred = {b \in Candidates : ~Healthy(b)}
                                   /\ route = RouteOf(ask)
    OBVIOUS
  <2>1. PICK r : r = [NoRequest EXCEPT !.at = "trying", !.ask = ask, !.plan = plan, !.up = available,
                                       !.barred = barred, !.route = route]
    OBVIOUS
  <2>2. /\ r.at = "trying" /\ r.ask = ask /\ r.plan = plan /\ r.calls = 0 /\ r.up = available
        /\ r.barred = barred /\ r.route = route /\ IsRequest(r)
    BY <2>1 DEF NoRequest, IsRequest
  <2>3. PlanOf(r) /\ Len(r.plan) \in Nat /\ (ask.only # NoModel => Len(r.plan) <= 1)
    BY <2>0, <2>2, PlanIs
  <2>4. CallsOf(r) BY <2>2, <2>3 DEF CallsOf
  <2>5. RequestOK(r) BY <2>2, <2>3, <2>4 DEF RequestOK
  <2>6. Say(q, r) BY <1>2, <2>0, <2>1
  <2>. QED BY <1>0, <2>5, <2>6, OneRequestChanges
<1>. QED BY <1>1, <1>2 DEF Begin

LEMMA SkipStep ==
  ASSUME RouterInv, NEW q \in ChatRequests, Skip(q)
  PROVE  RouterInv'
<1>0. routing' \in Routings BY DEF Skip, RouterInv
<1>1. PICK o : o = req[q] /\ RequestOK(o) BY DEF RouterInv
<1>2. PICK r : r = [o EXCEPT !.plan = Tail(@)] OBVIOUS
<1>3. Say(q, r) /\ o.at = "trying" /\ o.plan # <<>> BY <1>1, <1>2 DEF Skip
<1>4. /\ r.at = o.at /\ r.ask = o.ask /\ r.plan = Tail(o.plan) /\ r.calls = o.calls /\ r.up = o.up
      /\ r.barred = o.barred /\ r.route = o.route /\ IsRequest(r)
  BY <1>1, <1>2 DEF RequestOK, IsRequest
<1>5. PlanOf(r) /\ Len(o.plan) \in Nat /\ Len(r.plan) = Len(o.plan) - 1
  BY <1>1, <1>3, <1>4, TailIs DEF RequestOK
<1>6. CallsOf(r) BY <1>1, <1>3, <1>4, <1>5 DEF RequestOK, CallsOf
<1>7. RequestOK(r) BY <1>4, <1>5, <1>6 DEF RequestOK
<1>. QED BY <1>0, <1>3, <1>7, OneRequestChanges

LEMMA AttemptStep ==
  ASSUME RouterInv, NEW q \in ChatRequests, Attempt(q)
  PROVE  RouterInv'
<1>0. routing' \in Routings BY DEF Attempt, RouterInv
<1>1. PICK o : o = req[q] /\ RequestOK(o) BY DEF RouterInv
<1>2. PICK m \in OpenModels(q) : Say(q, [req[q] EXCEPT !.at = "calling", !.model = m, !.calls = @ + 1])
  BY DEF Attempt
<1>3. PICK r : r = [o EXCEPT !.at = "calling", !.model = m, !.calls = @ + 1] OBVIOUS
<1>4. Say(q, r) /\ o.at = "trying" /\ o.plan # <<>> /\ (o.ask.kind = "research" => ResearchOn(routing))
  BY <1>1, <1>2, <1>3 DEF Attempt
<1>5. /\ r.at = "calling" /\ r.ask = o.ask /\ r.plan = o.plan /\ r.model = m /\ r.calls = o.calls + 1
      /\ r.up = o.up /\ r.barred = o.barred /\ r.route = o.route /\ IsRequest(r)
  BY <1>1, <1>3 DEF RequestOK, IsRequest
<1>6. PlanOf(r)
  <2>1. PlanOf(o) BY <1>1 DEF RequestOK
  <2>. QED BY <1>5, <2>1 DEF PlanOf, StepAllowed
<1>7. Len(o.plan) \in Nat /\ Len(o.plan) >= 1 /\ 1 \in DOMAIN o.plan
  <2>1. PICK p, S : p = o.plan /\ p \in Seq(S) /\ p # <<>> BY <1>1, <1>4 DEF RequestOK, PlanOf
  <2>. QED BY <2>1
<1>8. StepAllowed(r, r.plan[1].backend, r.plan[1].pinned) BY <1>5, <1>6, <1>7 DEF PlanOf
<1>9. o.ask.model = NoModel /\ o.plan[1].pinned # NoModel => m = o.plan[1].pinned
  <2>1. req[q].ask.kind = "research" => ResearchOn(routing) BY <1>1, <1>4
  <2>2. /\ Allows(NextBackend(q), m)
        /\ ~RefusesProvider(routing, NextBackend(q))
        /\ req[q].ask.kind = "research" => ResearchOn(routing) /\ ~Metered(NextBackend(q))
        /\ req[q].ask.model = NoModel /\ req[q].plan[1].pinned # NoModel => m = req[q].plan[1].pinned
    BY <1>2, <2>1, OpenIsAllowed
  <2>. QED BY <1>1, <2>2
<1>10. r.route # {} => m = r.plan[1].pinned BY <1>5, <1>6, <1>8, <1>9 DEF PlanOf, StepAllowed
<1>11. StepAllowed(r, r.plan[1].backend, m)
  <2>1. CASE r.route # {} BY <1>8, <1>10, <2>1
  <2>2. CASE r.route = {} BY <1>8, <2>2 DEF StepAllowed
  <2>. QED BY <2>1, <2>2
<1>12. CallsOf(r)
  <2>1. CallsOf(o) BY <1>1 DEF RequestOK
  <2>. QED BY <1>4, <1>5, <1>7, <1>11, <2>1 DEF CallsOf
<1>13. RequestOK(r) BY <1>5, <1>6, <1>12 DEF RequestOK
<1>. QED BY <1>0, <1>4, <1>13, OneRequestChanges

LEMMA EndStep ==
  ASSUME RouterInv, NEW q \in ChatRequests, Say(q, Done(q)), routing' = routing
  PROVE  RouterInv'
<1>1. RequestOK(Done(q)) BY DoneIs
<1>2. routing' \in Routings BY DEF RouterInv
<1>. QED BY <1>1, <1>2, OneRequestChanges

LEMMA FailStep ==
  ASSUME RouterInv, NEW q \in ChatRequests, NEW f, FailAttempt(q, f)
  PROVE  RouterInv'
<1>0. routing' = routing /\ routing' \in Routings BY DEF FailAttempt, RouterInv
<1>1. PICK o : o = req[q] /\ RequestOK(o) BY DEF RouterInv
<1>2. CASE req[q].ask.kind = "stream"
  <2>1. Say(q, Done(q)) BY <1>2 DEF FailAttempt, AfterFailure
  <2>. QED BY <1>0, <2>1, EndStep
<1>3. CASE req[q].ask.kind # "stream"
  <2>1. PICK r : r = [o EXCEPT !.at = "trying", !.plan = Tail(@), !.model = NoModel] OBVIOUS
  <2>2. Say(q, r) /\ o.at = "calling" /\ o.ask.kind # "stream" BY <1>1, <1>3, <2>1 DEF FailAttempt, AfterFailure
  <2>3. /\ r.at = "trying" /\ r.ask = o.ask /\ r.plan = Tail(o.plan) /\ r.calls = o.calls /\ r.up = o.up
        /\ r.barred = o.barred /\ r.route = o.route /\ IsRequest(r)
    BY <1>1, <2>1 DEF RequestOK, IsRequest
  <2>4. o.plan # <<>> BY <1>1, <2>2 DEF RequestOK, CallsOf
  <2>5. PlanOf(r) /\ Len(o.plan) \in Nat /\ Len(r.plan) = Len(o.plan) - 1
    BY <1>1, <2>3, <2>4, TailIs DEF RequestOK
  <2>6. CallsOf(r) BY <1>1, <2>2, <2>3, <2>5 DEF RequestOK, CallsOf
  <2>7. RequestOK(r) BY <2>3, <2>5, <2>6 DEF RequestOK
  <2>. QED BY <1>0, <2>2, <2>7, OneRequestChanges
<1>. QED BY <1>2, <1>3

\* No step of the rest of the world touches a request.
LEMMA WorldStep ==
  ASSUME RouterInv, UNCHANGED req, routing' \in Routings
  PROVE  RouterInv'
BY DEF RouterInv

LEMMA RouterInitial == RouterInit => RouterInv
<1>. SUFFICES ASSUME RouterInit PROVE RouterInv OBVIOUS
<1>1. RequestOK(NoRequest)
  <2>1. PICK r : r = NoRequest OBVIOUS
  <2>2. r.at = "idle" /\ r.plan = <<>> /\ r.calls = 0 /\ r.route = {} /\ IsRequest(r)
    BY <2>1 DEF NoRequest, IsRequest
  <2>. QED BY <2>1, <2>2, NoRequestIs
<1>. QED BY <1>1 DEF RouterInit, RouterInv

LEMMA RouterInductive == RouterInv /\ [RouterNext]_routerVars => RouterInv'
<1>. SUFFICES ASSUME RouterInv, [RouterNext]_routerVars PROVE RouterInv' OBVIOUS
<1>0. routing \in Routings BY DEF RouterInv
<1>1. ASSUME NEW q \in ChatRequests, NEW ask \in Asks, Begin(q, ask) PROVE RouterInv' BY <1>1, BeginStep
<1>2. ASSUME NEW q \in ChatRequests, Skip(q) PROVE RouterInv' BY <1>2, SkipStep
<1>3. ASSUME NEW q \in ChatRequests, Attempt(q) PROVE RouterInv' BY <1>3, AttemptStep
<1>4. ASSUME NEW q \in ChatRequests, StopResearch(q) \/ Exhausted(q) \/ Answer(q) \/ Refuse(q) PROVE RouterInv'
  <2>1. Say(q, Done(q)) /\ routing' = routing BY <1>4 DEF StopResearch, Exhausted, Answer, Refuse
  <2>. QED BY <2>1, EndStep
<1>5. ASSUME NEW q \in ChatRequests, NEW f, FailAttempt(q, f) PROVE RouterInv' BY <1>5, FailStep
<1>6. ASSUME NEW r \in Routings, SwapRouting(r) PROVE RouterInv'
  <2>1. UNCHANGED req /\ routing' \in Routings BY <1>6 DEF SwapRouting
  <2>. QED BY <2>1, WorldStep
<1>7. ASSUME NEW p, Toggle(p) \/ Discover(p) PROVE RouterInv'
  <2>1. UNCHANGED req /\ routing' \in Routings BY <1>0, <1>7 DEF Toggle, Discover
  <2>. QED BY <2>1, WorldStep
<1>8. ASSUME NEW b, Registry(b) PROVE RouterInv'
  <2>1. UNCHANGED req /\ routing' \in Routings BY <1>0, <1>8 DEF Registry
  <2>. QED BY <2>1, WorldStep
<1>9. CASE Suspend \/ Clock \/ UNCHANGED routerVars
  <2>1. UNCHANGED req /\ routing' \in Routings BY <1>0, <1>9 DEF Suspend, Clock, routerVars
  <2>. QED BY <2>1, WorldStep
<1>. QED BY <1>1, <1>2, <1>3, <1>4, <1>5, <1>6, <1>7, <1>8, <1>9 DEF RouterNext, RequestStep

-----------------------------------------------------------------------------
\* What the plan was made from allows every call under way.
LEMMA PlansAreObeyed == RouterInv => NoSilentPayment
<1>. SUFFICES ASSUME RouterInv, NEW q \in ChatRequests
              PROVE  OneCall(q) /\ (req[q].at = "calling" => PlanAllows(q))
  BY DEF NoSilentPayment
<1>1. PICK r : r = req[q] /\ RequestOK(r) BY DEF RouterInv
<1>2. OneCall(q) BY <1>1 DEF RequestOK, CallsOf, OneCall
<1>3. r.at = "calling" => StepAllowed(r, r.plan[1].backend, r.model) BY <1>1 DEF RequestOK, CallsOf
<1>. QED BY <1>1, <1>2, <1>3 DEF PlanAllows, StepAllowed, NextBackend

\* A call starts only by an attempt, and the switches of that moment allow it.
LEMMA AttemptsAreAllowed ==
  ASSUME RouterInv, [RouterNext]_routerVars, NEW q \in ChatRequests, Starts(q)
  PROVE  AttemptIsAllowed(q)
<1>0. ASSUME NEW p \in ChatRequests, NEW r, Say(p, r), r.at # "calling" PROVE FALSE
  <2>1. req' = [req EXCEPT ![p] = r] BY <1>0 DEF Say
  <2>2. req'[q] = IF q = p THEN r ELSE req[q] BY <2>1 DEF RouterInv
  <2>. QED BY <1>0, <2>2 DEF Starts
<1>1. req' # req BY DEF Starts
<1>2. ASSUME NEW p \in ChatRequests, Attempt(p) PROVE AttemptIsAllowed(q)
  <2>1. PICK m \in OpenModels(p) : Say(p, [req[p] EXCEPT !.at = "calling", !.model = m, !.calls = @ + 1])
    BY <1>2 DEF Attempt
  <2>2. req[p].ask.kind = "research" => ResearchOn(routing) BY <1>2 DEF Attempt
  <2>3. p = q BY <2>1 DEF Say, Starts, RouterInv
  <2>4. PICK o : o = req[q] /\ IsRequest(o) BY DEF RouterInv, RequestOK
  <2>5. req'[q] = [o EXCEPT !.at = "calling", !.model = m, !.calls = @ + 1]
    BY <2>1, <2>3, <2>4 DEF Say, RouterInv
  <2>6. req'[q].model = m BY <2>4, <2>5 DEF IsRequest
  <2>7. /\ Allows(NextBackend(p), m)
        /\ ~RefusesProvider(routing, NextBackend(p))
        /\ req[p].ask.kind = "research" => ResearchOn(routing) /\ ~Metered(NextBackend(p))
        /\ req[p].ask.model = NoModel /\ req[p].plan[1].pinned # NoModel => m = req[p].plan[1].pinned
    BY <2>1, <2>2, OpenIsAllowed
  <2>. QED BY <2>3, <2>6, <2>7 DEF AttemptIsAllowed
<1>3. \A p : Done(p).at = "done" BY DEF Done, NoRequest
<1>4. ASSUME NEW p \in ChatRequests, StopResearch(p) \/ Exhausted(p) \/ Answer(p) \/ Refuse(p) PROVE FALSE
  <2>1. Say(p, Done(p)) BY <1>4 DEF StopResearch, Exhausted, Answer, Refuse
  <2>. QED BY <1>0, <1>3, <2>1
<1>5. ASSUME NEW p \in ChatRequests, Skip(p) PROVE FALSE
  <2>1. PICK o : o = req[p] /\ IsRequest(o) BY DEF RouterInv, RequestOK
  <2>2. PICK r : r = [o EXCEPT !.plan = Tail(@)] OBVIOUS
  <2>3. Say(p, r) /\ o.at = "trying" BY <1>5, <2>1, <2>2 DEF Skip
  <2>4. r.at = "trying" BY <2>1, <2>2, <2>3 DEF IsRequest
  <2>. QED BY <1>0, <2>3, <2>4
<1>6. ASSUME NEW p \in ChatRequests, NEW f, FailAttempt(p, f) PROVE FALSE
  <2>1. PICK o : o = req[p] /\ IsRequest(o) BY DEF RouterInv, RequestOK
  <2>2. PICK r : r = [o EXCEPT !.at = "trying", !.plan = Tail(@), !.model = NoModel] OBVIOUS
  <2>3. r.at = "trying" BY <2>1, <2>2 DEF IsRequest
  <2>4. Say(p, Done(p)) \/ Say(p, r) BY <1>6, <2>1, <2>2 DEF FailAttempt, AfterFailure
  <2>. QED BY <1>0, <1>3, <2>3, <2>4
<1>7. ASSUME NEW p \in ChatRequests, NEW ask, Begin(p, ask) PROVE FALSE
  <2>1. PICK r : Say(p, r) /\ r.at \in {"done", "trying"} 
    <3>1. CASE Say(p, [NoRequest EXCEPT !.at = "done", !.ask = ask])
      <4>1. PICK r : r = [NoRequest EXCEPT !.at = "done", !.ask = ask] OBVIOUS
      <4>2. r.at = "done" BY <4>1 DEF NoRequest
      <4>. QED BY <3>1, <4>1, <4>2
    <3>2. CASE Say(p, [NoRequest EXCEPT !.at = "trying", !.ask = ask, !.plan = PlanFor(ask), !.up = available,
                                        !.barred = {b \in Candidates : ~Healthy(b)}, !.route = RouteOf(ask)])
      <4>0. PICK plan, barred, route : /\ plan = PlanFor(ask) /\ barred = {b \in Candidates : ~Healthy(b)}
                                       /\ route = RouteOf(ask)
        OBVIOUS
      <4>1. PICK r : r = [NoRequest EXCEPT !.at = "trying", !.ask = ask, !.plan = plan, !.up = available,
                                           !.barred = barred, !.route = route]
        OBVIOUS
      <4>2. r.at = "trying" BY <4>1 DEF NoRequest
      <4>. QED BY <3>2, <4>0, <4>1, <4>2
    <3>. QED BY <1>7, <3>1, <3>2 DEF Begin
  <2>. QED BY <1>0, <2>1
<1>8. ASSUME NEW x, SwapRouting(x) \/ Toggle(x) \/ Discover(x) \/ Registry(x) PROVE FALSE
  BY <1>1, <1>8 DEF SwapRouting, Toggle, Discover, Registry
<1>9. CASE Suspend \/ Clock \/ UNCHANGED routerVars BY <1>1, <1>9 DEF Suspend, Clock, routerVars
<1>. QED BY <1>2, <1>4, <1>5, <1>6, <1>7, <1>8, <1>9 DEF RouterNext, RequestStep

\* The owner's routing and switches are obeyed while they change under a request, for any requests
\* in flight, any backends, catalog and policy: by every attempt when it starts, and by the plan it
\* came from (router.rs: choose_model, the paid-API recheck and plan_for).
THEOREM RoutingIsObeyedAlways == RouterSpec => RoutingIsObeyed
<1>1. RouterInit => RouterInv BY RouterInitial
<1>2. RouterInv /\ [RouterNext]_routerVars => RouterInv' BY RouterInductive
<1>3. RouterInv /\ RouterInv' /\ [RouterNext]_routerVars =>
        [/\ NoSilentPayment'
         /\ \A q \in ChatRequests : Starts(q) => AttemptIsAllowed(q)]_routerVars
  <2>1. RouterInv' => NoSilentPayment' BY PlansAreObeyed, PTL
  <2>2. RouterInv /\ [RouterNext]_routerVars => \A q \in ChatRequests : Starts(q) => AttemptIsAllowed(q)
    BY AttemptsAreAllowed
  <2>. QED BY <2>1, <2>2
<1>. QED BY <1>1, <1>2, <1>3, PTL DEF RouterSpec, RoutingIsObeyed
=============================================================================
