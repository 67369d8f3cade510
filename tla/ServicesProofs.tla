--------------------------- MODULE ServicesProofs ---------------------------
(***************************************************************************)
(* Proofs about services of the Core that share no state: the budget       *)
(* warning, unlock requests, push targets, agent actions, subscription     *)
(* workers, the rate limiter, the release mirror, the lot ledger and the   *)
(* paper trader, each for every value of its constants.                    *)
(***************************************************************************)
EXTENDS Notifier, BudgetNotice, Unlock, RateLimit, SubscriptionWorker, AgentActions, AppMirror,
        PaperLedger, PaperTrading, FiniteInduction, SequenceTheorems, FiniteSetTheorems, TLAPS

-----------------------------------------------------------------------------
(* The budget warning.                                                      *)

\* A month without a mark has at most one warning per start that could not read the
\* spend, a marked one has one more; and a month not over the line has none.
NoticeInv ==
  /\ month \in Nat \ {0} /\ marker \in Nat /\ warned \in Nat /\ blind \in Nat
  /\ reading \in [Refreshes -> {"none", "high", "low"}]
  /\ marker # month => warned <= blind
  /\ warned <= 1 + blind
  /\ ~over => warned = 0

\* One warning a month, and one more per start that could not read the spend, however
\* refreshes race and the Core restarts (budget_spend, budget_crossed, seed_budget).
THEOREM BudgetWarnedOnceAlways == NoticeSpec => []BudgetWarnedOnce
<1>1. NoticeInit => NoticeInv BY DEF NoticeInit, NoticeInv
<1>2. NoticeInv /\ [NoticeNext]_noticeVars => NoticeInv'
  <2>. SUFFICES ASSUME NoticeInv, [NoticeNext]_noticeVars PROVE NoticeInv' OBVIOUS
  <2>. USE DEF NoticeInv
  <2>1. ASSUME NEW r \in Refreshes, RefreshReads(r) PROVE NoticeInv'
    <3>1. over' = over \/ over' = TRUE BY <2>1 DEF RefreshReads
    <3>2. over => over' BY <3>1, Zenon
    <3>3. reading' \in [Refreshes -> {"none", "high", "low"}] BY <2>1 DEF RefreshReads
    <3>4. UNCHANGED <<month, marker, warned, blind>> BY <2>1 DEF RefreshReads
    <3>. QED BY <3>2, <3>3, <3>4
  <2>2. ASSUME NEW r \in Refreshes, BudgetSpend(r) PROVE NoticeInv'
    <3>1. CASE reading[r] = "high" /\ marker # month
      BY <2>2, <3>1 DEF BudgetSpend, Crossed
    <3>2. CASE ~(reading[r] = "high" /\ marker # month)
      <4>1. warned' = warned BY <2>2, <3>2 DEF BudgetSpend, Crossed
      <4>2. marker' \in {marker, month} /\ (marker' # month => marker # month)
        BY <2>2, <3>2 DEF BudgetSpend, Crossed
      <4>3. UNCHANGED <<month, over, blind>> /\ reading' \in [Refreshes -> {"none", "high", "low"}]
        BY <2>2 DEF BudgetSpend
      <4>. QED BY <4>1, <4>2, <4>3
    <3>. QED BY <3>1, <3>2
  <2>3. CASE IntervalEnds BY <2>3 DEF IntervalEnds
  <2>4. CASE MonthBegins BY <2>4 DEF MonthBegins
  <2>5. ASSUME NEW readable \in BOOLEAN, CoreRestarts(readable) PROVE NoticeInv'
    BY <2>5 DEF CoreRestarts, SeedBudget
  <2>6. CASE UNCHANGED noticeVars BY <2>6 DEF noticeVars
  <2>. QED BY <2>1, <2>2, <2>3, <2>4, <2>5, <2>6 DEF NoticeNext
<1>3. NoticeInv => BudgetWarnedOnce BY DEF NoticeInv, BudgetWarnedOnce
<1>. QED BY <1>1, <1>2, <1>3, PTL DEF NoticeSpec

-----------------------------------------------------------------------------
(* Unlock requests.                                                         *)

UnlockRow ==
  [by : Askers \cup {Nothing}, decider : Askers \cup {Nothing}, late : BOOLEAN,
   status : {"none", "pending", "approved", "denied"}]

UnlockWrite == [id : Requests \cup {Nothing}, replaces : SUBSET Requests, doomed : BOOLEAN]

UnlockTypes ==
  /\ trusted \subseteq Askers
  /\ request \in [Requests -> UnlockRow]
  /\ creating \in [Askers -> UnlockWrite]
  /\ approving \in [Askers -> Requests \cup {Nothing}]
  /\ seen \in [Requests -> {"none", "pending", "expired", "approved", "denied"}]

\* Another device decided it.
DecidedByOther(r) == request[r].decider \in Askers \ {request[r].by}

\* Who decided is on record: nobody while it is pending, another device once it is
\* approved, nobody or another device once it is denied; a superseding transaction that
\* may still commit has read rows that are still pending, and its own row is not there.
UnlockInv ==
  /\ UnlockTypes
  /\ \A r \in Requests :
       /\ request[r].status = "pending" => request[r].decider = Nothing
       /\ request[r].status = "approved" => DecidedByOther(r)
       /\ request[r].status = "denied" => request[r].decider = Nothing \/ DecidedByOther(r)
  /\ \A d \in Askers :
       creating[d] # NoCreating => creating[d].id \in Requests /\ request[creating[d].id].status = "none"
  /\ \A d, e \in Askers : creating[d].id = creating[e].id /\ creating[d].id # Nothing => d = e
  /\ \A d \in Askers : ~creating[d].doomed =>
       \A o \in creating[d].replaces : request[o].status = "pending"
  /\ UnlockDecidedOnce

\* What a write to some rows does to the transactions that would supersede them.
LEMMA LoseCreatesEffect ==
  ASSUME UnlockTypes, NEW rows \in SUBSET Requests, NEW d \in Askers
  PROVE  /\ LoseCreates(rows) \in [Askers -> UnlockWrite]
         /\ LoseCreates(rows)[d].id = creating[d].id
         /\ LoseCreates(rows)[d].replaces = creating[d].replaces
         /\ ~LoseCreates(rows)[d].doomed => ~creating[d].doomed /\ creating[d].replaces \cap rows = {}
         /\ LoseCreates(rows)[d] # NoCreating => creating[d] # NoCreating
<1>1. creating[d] \in UnlockWrite
  BY DEF UnlockTypes, UnlockRow, UnlockWrite
<1>2. \/ LoseCreates(rows)[d] = creating[d] /\ creating[d].replaces \cap rows = {}
      \/ LoseCreates(rows)[d] = [creating[d] EXCEPT !.doomed = TRUE] /\ creating[d].replaces \cap rows # {}
  BY DEF LoseCreates
<1>3. LoseCreates(rows) \in [Askers -> UnlockWrite]
  BY DEF UnlockTypes, UnlockWrite, LoseCreates
<1>. QED BY <1>1, <1>2, <1>3 DEF NoCreating, UnlockWrite

\* Rows that were pending are decided, by another device or by nobody.
Decides(rows) ==
  /\ \A r \in Requests \ rows : request'[r] = request[r]
  /\ \A r \in rows : /\ request[r].status = "pending" /\ request'[r].by = request[r].by
                     /\ request'[r].status \in {"approved", "denied"}
                     /\ \/ DecidedByOther(r)'
                        \/ request'[r].status = "denied" /\ request'[r].decider = Nothing

LEMMA DecidesKeeps ==
  ASSUME UnlockInv, NEW rows \in SUBSET Requests, Decides(rows), UnlockTypes',
         creating' = LoseCreates(rows), UNCHANGED seen
  PROVE  UnlockInv'
<1>1. \A d \in Askers :
        /\ creating'[d].id = creating[d].id /\ creating'[d].replaces = creating[d].replaces
        /\ ~creating'[d].doomed => ~creating[d].doomed /\ creating[d].replaces \cap rows = {}
        /\ creating'[d] # NoCreating => creating[d] # NoCreating
  BY LoseCreatesEffect DEF UnlockInv
<1>2. \A r \in Requests :
        /\ request'[r].status = "pending" => request'[r].decider = Nothing
        /\ request'[r].status = "approved" => DecidedByOther(r)'
        /\ request'[r].status = "denied" => request'[r].decider = Nothing \/ DecidedByOther(r)'
  BY DEF UnlockInv, Decides, DecidedByOther
<1>3. \A d \in Askers :
        creating'[d] # NoCreating => creating'[d].id \in Requests /\ request'[creating'[d].id].status = "none"
  BY <1>1 DEF UnlockInv, Decides
<1>4. \A d, e \in Askers : creating'[d].id = creating'[e].id /\ creating'[d].id # Nothing => d = e
  BY <1>1 DEF UnlockInv
<1>5. \A d \in Askers : ~creating'[d].doomed => \A o \in creating'[d].replaces : request'[o].status = "pending"
  BY <1>1 DEF UnlockInv, UnlockTypes, UnlockRow, UnlockWrite, Decides
<1>6. UnlockDecidedOnce'
  <2>1. ASSUME NEW r \in Requests, seen[r] \in {"approved", "denied"}
        PROVE  request'[r].decider \in Askers \ {request'[r].by} /\ request'[r].status = seen[r]
    <3>1. request[r].status = seen[r] /\ request[r].decider \in Askers \ {request[r].by}
      BY <2>1 DEF UnlockInv, UnlockDecidedOnce
    <3>2. r \notin rows BY <2>1, <3>1 DEF Decides
    <3>. QED BY <3>1, <3>2 DEF Decides
  <2>. QED BY <2>1 DEF UnlockDecidedOnce
<1>. QED BY <1>2, <1>3, <1>4, <1>5, <1>6 DEF UnlockInv

LEMMA UnlockInvStep == UnlockInv /\ [UnlockNext]_unlockVars => UnlockInv'
<1>. SUFFICES ASSUME UnlockInv, [UnlockNext]_unlockVars PROVE UnlockInv' OBVIOUS
<1>. USE UnlockAssumption
<1>0. UnlockTypes BY DEF UnlockInv
<1>1. ASSUME NEW d \in Askers, NEW r \in Requests, BeginUnlock(d, r) PROVE UnlockInv'
  <2>1. UNCHANGED <<trusted, request, approving, seen>> /\ request[r].status = "none"
        /\ \A e \in Askers : creating[e].id # r
    BY <1>1 DEF BeginUnlock, Unused
  <2>2. /\ creating'[d].id = r /\ ~creating'[d].doomed
        /\ \A o \in creating'[d].replaces : o \in Requests /\ request[o].status = "pending"
        /\ \A e \in Askers : e # d => creating'[e] = creating[e]
    BY <1>0, <1>1 DEF BeginUnlock, Open, UnlockTypes, UnlockRow, UnlockWrite
  <2>3. UnlockTypes' BY <1>0, <1>1 DEF BeginUnlock, UnlockTypes, UnlockRow, UnlockWrite
  <2>4. \A e \in Askers :
          creating'[e] # NoCreating => creating'[e].id \in Requests /\ request'[creating'[e].id].status = "none"
    BY <2>1, <2>2 DEF UnlockInv
  <2>5. \A e, f \in Askers : creating'[e].id = creating'[f].id /\ creating'[e].id # Nothing => e = f
    BY <2>1, <2>2 DEF UnlockInv
  <2>6. \A e \in Askers : ~creating'[e].doomed => \A o \in creating'[e].replaces : request'[o].status = "pending"
    BY <2>1, <2>2 DEF UnlockInv
  <2>7. \A o \in Requests :
          /\ request'[o].status = "pending" => request'[o].decider = Nothing
          /\ request'[o].status = "approved" => DecidedByOther(o)'
          /\ request'[o].status = "denied" => request'[o].decider = Nothing \/ DecidedByOther(o)'
    BY <2>1 DEF UnlockInv, DecidedByOther
  <2>8. UnlockDecidedOnce' BY <2>1 DEF UnlockInv, UnlockDecidedOnce
  <2>. QED BY <2>3, <2>4, <2>5, <2>6, <2>7, <2>8 DEF UnlockInv
<1>2. ASSUME NEW d \in Askers, CommitUnlock(d) PROVE UnlockInv'
  <2>. DEFINE c == creating[d]
  <2>1. c # NoCreating /\ c.id \in Requests /\ request[c.id].status = "none" /\ c.replaces \subseteq Requests
        /\ UNCHANGED <<trusted, approving, seen>>
    BY <1>0, <1>2 DEF CommitUnlock, UnlockInv, UnlockTypes, UnlockRow, UnlockWrite
  <2>2. CASE c.doomed
    <3>1. request' = request /\ creating' = [LoseCreates({}) EXCEPT ![d] = NoCreating]
      BY <1>2, <2>2 DEF CommitUnlock
    <3>2. \A e \in Askers : LoseCreates({})[e] = creating[e] BY DEF LoseCreates
    <3>3. LoseCreates({}) \in [Askers -> UnlockWrite]
      BY <1>0, LoseCreatesEffect
    <3>4. creating'[d] = NoCreating /\ \A e \in Askers : e # d => creating'[e] = creating[e]
      BY <3>1, <3>2, <3>3
    <3>5. UnlockTypes' BY <1>0, <2>1, <3>1, <3>3 DEF UnlockTypes, UnlockRow, UnlockWrite, NoCreating
    <3>6. \A e \in Askers :
            creating'[e] # NoCreating => creating'[e].id \in Requests /\ request'[creating'[e].id].status = "none"
      BY <3>1, <3>4 DEF UnlockInv
    <3>7. creating'[d].id = Nothing /\ creating'[d].replaces = {} BY <3>4 DEF NoCreating
    <3>8. \A e, f \in Askers : creating'[e].id = creating'[f].id /\ creating'[e].id # Nothing => e = f
      BY <3>4, <3>7 DEF UnlockInv
    <3>9. \A e \in Askers : ~creating'[e].doomed => \A o \in creating'[e].replaces : request'[o].status = "pending"
      BY <3>1, <3>4, <3>7 DEF UnlockInv
    <3>10. \A o \in Requests :
             /\ request'[o].status = "pending" => request'[o].decider = Nothing
             /\ request'[o].status = "approved" => DecidedByOther(o)'
             /\ request'[o].status = "denied" => request'[o].decider = Nothing \/ DecidedByOther(o)'
      BY <3>1 DEF UnlockInv, DecidedByOther
    <3>11. UnlockDecidedOnce' BY <2>1, <3>1 DEF UnlockInv, UnlockDecidedOnce
    <3>. QED BY <3>5, <3>6, <3>8, <3>9, <3>10, <3>11 DEF UnlockInv
  <2>3. CASE ~c.doomed
    <3>1. /\ request' = [Superseded(c.replaces) EXCEPT ![c.id] = [Unused EXCEPT !.by = d, !.status = "pending"]]
          /\ creating' = [LoseCreates(c.replaces) EXCEPT ![d] = NoCreating]
      BY <1>2, <2>3 DEF CommitUnlock
    <3>2. \A o \in c.replaces : request[o].status = "pending" BY <2>3 DEF UnlockInv
    <3>3. c.id \notin c.replaces BY <2>1, <3>2
    <3>4. /\ LoseCreates(c.replaces) \in
               [Askers -> UnlockWrite]
          /\ \A e \in Askers :
               /\ LoseCreates(c.replaces)[e].id = creating[e].id
               /\ LoseCreates(c.replaces)[e].replaces = creating[e].replaces
               /\ ~LoseCreates(c.replaces)[e].doomed => ~creating[e].doomed /\ creating[e].replaces \cap c.replaces = {}
               /\ LoseCreates(c.replaces)[e] # NoCreating => creating[e] # NoCreating
      BY <1>0, <2>1, LoseCreatesEffect
    <3>5. /\ creating'[d] = NoCreating
          /\ \A e \in Askers : e # d => creating'[e] = LoseCreates(c.replaces)[e]
      BY <3>1, <3>4
    <3>6. /\ request'[c.id].by = d /\ request'[c.id].status = "pending" /\ request'[c.id].decider = Nothing
          /\ \A o \in c.replaces : /\ request'[o].status = "denied" /\ request'[o].decider = request[o].decider
                                   /\ request'[o].by = request[o].by
          /\ \A o \in Requests : o \notin c.replaces /\ o # c.id => request'[o] = request[o]
      BY <1>0, <2>1, <3>1, <3>3 DEF UnlockTypes, UnlockRow, UnlockWrite, Superseded, Unused
    <3>7. UnlockTypes'
      <4>1. Superseded(c.replaces) \in
              [Requests -> UnlockRow]
        BY <1>0 DEF UnlockTypes, UnlockRow, UnlockWrite, Superseded
      <4>2. [Unused EXCEPT !.by = d, !.status = "pending"] \in
              UnlockRow
        BY DEF Unused, UnlockRow
      <4>3. creating' \in [Askers -> UnlockWrite]
        BY <3>1, <3>4 DEF NoCreating, UnlockWrite
      <4>. QED BY <1>0, <2>1, <3>1, <4>1, <4>2, <4>3 DEF UnlockTypes, UnlockRow, UnlockWrite
    <3>8. \A r \in Requests :
            /\ request'[r].status = "pending" => request'[r].decider = Nothing
            /\ request'[r].status = "approved" => DecidedByOther(r)'
            /\ request'[r].status = "denied" => request'[r].decider = Nothing \/ DecidedByOther(r)'
      BY <3>2, <3>6 DEF UnlockInv, DecidedByOther
    <3>9. \A e \in Askers :
            creating'[e] # NoCreating => creating'[e].id \in Requests /\ request'[creating'[e].id].status = "none"
      <4>1. ASSUME NEW e \in Askers, creating'[e] # NoCreating
            PROVE  creating'[e].id \in Requests /\ request'[creating'[e].id].status = "none"
        <5>1. e # d /\ creating'[e].id = creating[e].id /\ creating[e] # NoCreating BY <3>4, <3>5, <4>1
        <5>2. creating[e].id \in Requests /\ request[creating[e].id].status = "none" BY <5>1 DEF UnlockInv
        <5>3. creating[e].id # c.id BY <2>1, <5>1, <5>2 DEF UnlockInv
        <5>4. creating[e].id \notin c.replaces BY <3>2, <5>2
        <5>. QED BY <3>6, <5>1, <5>2, <5>3, <5>4
      <4>. QED BY <4>1
    <3>10. \A e, f \in Askers : creating'[e].id = creating'[f].id /\ creating'[e].id # Nothing => e = f
      BY <3>4, <3>5 DEF UnlockInv, NoCreating
    <3>11. \A e \in Askers : ~creating'[e].doomed => \A o \in creating'[e].replaces : request'[o].status = "pending"
      <4>1. ASSUME NEW e \in Askers, ~creating'[e].doomed, NEW o \in creating'[e].replaces
            PROVE  request'[o].status = "pending"
        <5>1. e # d BY <3>5, <4>1 DEF NoCreating
        <5>2. o \in creating[e].replaces /\ ~creating[e].doomed /\ o \notin c.replaces
          BY <3>4, <3>5, <4>1, <5>1
        <5>3. o \in Requests /\ request[o].status = "pending" BY <1>0, <5>2 DEF UnlockInv, UnlockTypes, UnlockRow, UnlockWrite
        <5>. QED BY <3>6, <5>2, <5>3
      <4>. QED BY <4>1
    <3>12. UnlockDecidedOnce'
      <4>1. ASSUME NEW r \in Requests, seen[r] \in {"approved", "denied"}
            PROVE  request'[r].decider \in Askers \ {request'[r].by} /\ request'[r].status = seen[r]
        <5>1. request[r].status = seen[r] /\ request[r].decider \in Askers \ {request[r].by}
          BY <4>1 DEF UnlockInv, UnlockDecidedOnce
        <5>2. r \notin c.replaces /\ r # c.id BY <2>1, <3>2, <4>1, <5>1
        <5>. QED BY <3>6, <5>1, <5>2
      <4>. QED BY <2>1, <4>1 DEF UnlockDecidedOnce
    <3>. QED BY <3>7, <3>8, <3>9, <3>10, <3>11, <3>12 DEF UnlockInv
  <2>. QED BY <2>2, <2>3
<1>3. ASSUME NEW d \in Askers, NEW r \in Requests, StartApproval(d, r) PROVE UnlockInv'
  BY <1>0, <1>3 DEF StartApproval, UnlockInv, UnlockTypes, UnlockRow, UnlockWrite, UnlockDecidedOnce, DecidedByOther
<1>4. ASSUME NEW d \in Askers, NEW r \in Requests, NEW status \in {"approved", "denied"},
             Decide(r, status, d), request[r].status = "pending", request[r].by # d,
             UNCHANGED <<trusted, seen>>, approving' \in [Askers -> Requests \cup {Nothing}]
      PROVE  UnlockInv'
  <2>1. Decides({r}) BY <1>0, <1>4 DEF Decide, Decides, DecidedByOther, UnlockTypes, UnlockRow, UnlockWrite
  <2>2. creating' = LoseCreates({r}) BY <1>4 DEF Decide
  <2>3. request' \in [Requests -> UnlockRow]
    <3>1. request[r] \in UnlockRow BY <1>0 DEF UnlockTypes
    <3>2. [[request[r] EXCEPT !.status = status] EXCEPT !.decider = d] \in UnlockRow
      BY <3>1 DEF UnlockRow
    <3>3. request' = [request EXCEPT ![r] = [[request[r] EXCEPT !.status = status] EXCEPT !.decider = d]]
      BY <1>0, <1>4 DEF Decide, UnlockTypes
    <3>. QED BY <1>0, <3>2, <3>3 DEF UnlockTypes
  <2>4. LoseCreates({r}) \in [Askers -> UnlockWrite] BY <1>0, LoseCreatesEffect
  <2>5. UnlockTypes' BY <1>0, <1>4, <2>2, <2>3, <2>4 DEF UnlockTypes
  <2>. QED BY <1>4, <2>1, <2>2, <2>5, DecidesKeeps
<1>5. ASSUME NEW d \in Askers, ClaimApproval(d) PROVE UnlockInv'
  <2>1. approving[d] \in Requests BY <1>0, <1>5 DEF ClaimApproval, UnlockTypes, UnlockRow, UnlockWrite
  <2>2. approving' \in [Askers -> Requests \cup {Nothing}] /\ UNCHANGED <<trusted, seen>>
    BY <1>0, <1>5 DEF ClaimApproval, UnlockTypes, UnlockRow, UnlockWrite
  <2>3. CASE Claimable(approving[d], d)
    BY <1>4, <1>5, <2>1, <2>2, <2>3 DEF ClaimApproval, Claimable, Open
  <2>4. CASE ~Claimable(approving[d], d)
    <3>1. UNCHANGED <<request, creating>> BY <1>5, <2>4 DEF ClaimApproval
    <3>. QED BY <1>0, <2>2, <3>1 DEF UnlockInv, UnlockTypes, UnlockRow, UnlockWrite, UnlockDecidedOnce, DecidedByOther
  <2>. QED BY <2>3, <2>4
<1>6. ASSUME NEW d \in Askers, NEW r \in Requests, DenyUnlock(d, r) PROVE UnlockInv'
  BY <1>0, <1>4, <1>6 DEF DenyUnlock, UnlockTypes, UnlockRow, UnlockWrite
<1>7. CASE RecoveryCancels
  <2>. DEFINE rs == {r \in Requests : request[r].status = "pending"}
  <2>1. request' = Superseded(rs) /\ creating' = LoseCreates(rs) /\ UNCHANGED <<trusted, approving, seen>>
    BY <1>7 DEF RecoveryCancels
  <2>2. Decides(rs)
    BY <1>0, <2>1 DEF Decides, Superseded, UnlockTypes, UnlockRow, UnlockWrite, UnlockInv
  <2>3. UnlockTypes'
    <3>1. Superseded(rs) \in [Requests -> UnlockRow] BY <1>0 DEF UnlockTypes, UnlockRow, Superseded
    <3>2. LoseCreates(rs) \in [Askers -> UnlockWrite] BY <1>0 DEF LoseCreates, UnlockTypes, UnlockWrite
    <3>. QED BY <1>0, <2>1, <3>1, <3>2 DEF UnlockTypes
  <2>. QED BY <2>1, <2>2, <2>3, DecidesKeeps
<1>8. ASSUME NEW r \in Requests, TwoMinutesPass(r) PROVE UnlockInv'
  <2>1. /\ UNCHANGED <<trusted, creating, approving, seen>>
        /\ request[r].status # "none"
        /\ \A o \in Requests : /\ request'[o].status = request[o].status /\ request'[o].by = request[o].by
                               /\ request'[o].decider = request[o].decider
                               /\ o # r => request'[o] = request[o]
    BY <1>0, <1>8 DEF TwoMinutesPass, UnlockTypes, UnlockRow, UnlockWrite
  <2>2. UnlockTypes'
    <3>1. request[r] \in UnlockRow BY <1>0 DEF UnlockTypes
    <3>2. [request[r] EXCEPT !.late = TRUE] \in UnlockRow BY <3>1 DEF UnlockRow
    <3>3. request' = [request EXCEPT ![r] = [request[r] EXCEPT !.late = TRUE]]
      BY <1>0, <1>8 DEF TwoMinutesPass, UnlockTypes
    <3>. QED BY <1>0, <1>8, <3>2, <3>3 DEF UnlockTypes, TwoMinutesPass
  <2>. QED BY <1>0, <2>1, <2>2 DEF UnlockInv, UnlockTypes, UnlockRow, UnlockWrite, UnlockDecidedOnce, DecidedByOther
<1>9. ASSUME NEW d \in Askers, Distrust(d) PROVE UnlockInv'
  BY <1>0, <1>9 DEF Distrust, UnlockInv, UnlockTypes, UnlockRow, UnlockWrite, UnlockDecidedOnce, DecidedByOther
<1>10. ASSUME NEW r \in Requests, PollUnlock(r) PROVE UnlockInv'
  <2>1. UNCHANGED <<trusted, request, creating, approving>> /\ request[r].by \in Askers
    BY <1>0, <1>10 DEF PollUnlock, UnlockTypes, UnlockRow, UnlockWrite
  <2>2. /\ UnlockStatus(r) \in {"none", "pending", "expired", "approved", "denied"}
        /\ UnlockStatus(r) \in {"approved", "denied"} => request[r].status = UnlockStatus(r) /\ DecidedByOther(r)
    BY <1>0 DEF UnlockStatus, UnlockInv, UnlockTypes, UnlockRow, UnlockWrite
  <2>3. UnlockTypes' BY <1>0, <1>10, <2>1, <2>2 DEF PollUnlock, UnlockTypes, UnlockRow, UnlockWrite
  <2>4. UnlockDecidedOnce'
    BY <1>0, <1>10, <2>1, <2>2 DEF PollUnlock, UnlockInv, UnlockTypes, UnlockRow, UnlockWrite, UnlockDecidedOnce, DecidedByOther
  <2>. QED BY <2>1, <2>3, <2>4 DEF UnlockInv, DecidedByOther
<1>11. CASE UNCHANGED unlockVars
  BY <1>11 DEF unlockVars, UnlockInv, UnlockTypes, UnlockRow, UnlockWrite, UnlockDecidedOnce, DecidedByOther
<1>. QED BY <1>1, <1>2, <1>3, <1>5, <1>6, <1>7, <1>8, <1>9, <1>10, <1>11 DEF UnlockNext

\* What the requester was told is what happened, and only another device decided it, however
\* approvals, denials, superseding requests and recoveries race (create_unlock_request,
\* approve_unlock_request, deny_unlock_request, unlock_request_status).
THEOREM UnlockDecidedOnceAlways == UnlockSpec => []UnlockDecidedOnce
<1>1. UnlockInit => UnlockInv
  BY UnlockAssumption DEF UnlockInit, UnlockInv, UnlockTypes, UnlockRow, UnlockWrite, UnlockDecidedOnce, DecidedByOther, Unused, NoCreating
<1>2. UnlockInv => UnlockDecidedOnce BY DEF UnlockInv
<1>. QED BY <1>1, <1>2, UnlockInvStep, PTL DEF UnlockSpec

----------------------------------------------------------------------------
(* Push targets and the provider token.                                     *)

PushWrite == [token : Tokens \cup {Nobody}, writes : SUBSET (Phones \cup Tokens), doomed : BOOLEAN]

WorkerKept ==
  /\ DOMAIN worker = {"at", "event", "except", "left", "to", "attempt"}
  /\ worker.to \in Tokens \cup {Nobody} /\ worker.left \subseteq Tokens

PushTypes ==
  /\ target \in [Phones -> Tokens \cup {Nobody}]
  /\ setting \in [Phones -> PushWrite]
  /\ WorkerKept
  /\ provider \in {"none", "new", "mid", "old"} /\ minted \in {"none", "new", "aged"}

\* A transaction that may still commit writes the row of its device, the index entry of its
\* token and the row of whichever device holds that token now.
CoversHolders(p) ==
  setting[p].doomed \/ ({p, setting[p].token} \cup Holders(setting[p].token)) \subseteq setting[p].writes

PushInv ==
  /\ PushTypes
  /\ \A p \in Phones : setting[p] = NoSetting \/ (setting[p].token \in Tokens /\ CoversHolders(p))
  /\ TokenHeldOnce

\* What a write to some rows and index entries does to the registrations under way.
LEMMA ConflictEffect ==
  ASSUME PushTypes, NEW rows
  PROVE  /\ ConflictSettings(rows) \in [Phones -> PushWrite]
         /\ \A p \in Phones :
              /\ setting[p] = NoSetting => ConflictSettings(rows)[p] = NoSetting
              /\ ConflictSettings(rows)[p].token = setting[p].token
              /\ ConflictSettings(rows)[p].writes = setting[p].writes
              /\ \/ ConflictSettings(rows)[p].doomed
                 \/ ~setting[p].doomed /\ setting[p].writes \cap rows = {}
<1>1. ConflictSettings(rows) \in [Phones -> PushWrite]
  BY DEF ConflictSettings, PushTypes, PushWrite
<1>2. ASSUME NEW p \in Phones
      PROVE  /\ ConflictSettings(rows)[p].token = setting[p].token
             /\ ConflictSettings(rows)[p].writes = setting[p].writes
             /\ \/ ConflictSettings(rows)[p].doomed
                \/ ~setting[p].doomed /\ setting[p].writes \cap rows = {}
  <2>1. setting[p] \in PushWrite BY DEF PushTypes
  <2>2. \/ ConflictSettings(rows)[p] = setting[p] /\ setting[p].writes \cap rows = {}
        \/ ConflictSettings(rows)[p] = [setting[p] EXCEPT !.doomed = TRUE]
    BY DEF ConflictSettings
  <2>. QED BY <2>1, <2>2 DEF PushWrite
<1>3. ASSUME NEW p \in Phones, setting[p] = NoSetting PROVE ConflictSettings(rows)[p] = NoSetting
  <2>1. setting[p].writes = {} BY <1>3 DEF NoSetting
  <2>. QED BY <1>3, <2>1 DEF ConflictSettings
<1>. QED BY <1>1, <1>2, <1>3

\* Deleting rows keeps the invariant.
LEMMA ForgetKeeps ==
  ASSUME PushInv, NEW ps \in SUBSET Phones, Forget(ps)
  PROVE  /\ target' \in [Phones -> Tokens \cup {Nobody}] /\ setting' \in [Phones -> PushWrite]
         /\ \A p \in Phones : setting'[p] = NoSetting \/ (setting'[p].token \in Tokens /\ CoversHolders(p)')
         /\ \A p, q \in Phones : target'[p] = target'[q] /\ target'[p] # Nobody => p = q
<1>. DEFINE rows == {p \in ps : target[p] # Nobody} \cup {target[p] : p \in ps}
<1>0. PushTypes BY DEF PushInv
<1>1. target' \in [Phones -> Tokens \cup {Nobody}]
      /\ \A p \in Phones : target'[p] = Nobody \/ target'[p] = target[p]
  BY <1>0 DEF Forget, PushTypes
<1>2. setting' = ConflictSettings(rows) BY DEF Forget
<1>. HIDE DEF rows
<1>3. /\ setting' \in [Phones -> PushWrite]
      /\ \A p \in Phones :
              /\ setting[p] = NoSetting => setting'[p] = NoSetting
              /\ setting'[p].token = setting[p].token
              /\ setting'[p].writes = setting[p].writes
              /\ setting'[p].doomed \/ ~setting[p].doomed
  BY <1>0, <1>2, ConflictEffect
<1>4. ASSUME NEW p \in Phones, setting[p] # NoSetting
      PROVE  setting'[p].token \in Tokens /\ CoversHolders(p)'
  <2>1. setting[p].token \in Tokens /\ CoversHolders(p) BY <1>4 DEF PushInv
  <2>2. Nobody \notin Tokens BY NotifierAssumption
  <2>3. \A q \in Phones : target'[q] = setting'[p].token => target[q] = setting[p].token
    BY <1>1, <1>3, <2>1, <2>2
  <2>. QED BY <1>3, <2>1, <2>3 DEF CoversHolders, Holders
<1>5. \A p, q \in Phones : target'[p] = target'[q] /\ target'[p] # Nobody => p = q
  BY <1>1 DEF PushInv, TokenHeldOnce
<1>. QED BY <1>1, <1>3, <1>4, <1>5

LEMMA PushInvStep == PushInv /\ [NotifierNext]_notifyVars => PushInv'
<1>. SUFFICES ASSUME PushInv, [NotifierNext]_notifyVars PROVE PushInv' OBVIOUS
<1>. USE NotifierAssumption
<1>0. PushTypes BY DEF PushInv
<1>1. ASSUME NEW p \in Phones, NEW t \in Tokens, BeginSetting(p, t) PROVE PushInv'
  <2>1. UNCHANGED <<target, worker, provider, minted>>
        /\ setting' = [setting EXCEPT ![p] = [token |-> t, writes |-> {p, t} \cup Holders(t), doomed |-> FALSE]]
    BY <1>1 DEF BeginSetting, workVars
  <2>2. [token |-> t, writes |-> {p, t} \cup Holders(t), doomed |-> FALSE] \in PushWrite
    BY DEF PushWrite, Holders
  <2>3. PushTypes' BY <1>0, <2>1, <2>2 DEF PushTypes, WorkerKept
  <2>4. setting'[p].token = t /\ setting'[p].writes = {p, t} \cup Holders(t)
        /\ \A q \in Phones : q # p => setting'[q] = setting[q]
    BY <1>0, <2>1 DEF PushTypes
  <2>5. ASSUME NEW q \in Phones
        PROVE  setting'[q] = NoSetting \/ (setting'[q].token \in Tokens /\ CoversHolders(q)')
    <3>1. CASE q = p BY <2>1, <2>4, <3>1 DEF CoversHolders, Holders
    <3>2. CASE q # p BY <2>1, <2>4, <3>2 DEF PushInv, CoversHolders, Holders
    <3>. QED BY <3>1, <3>2
  <2>6. TokenHeldOnce' BY <2>1 DEF PushInv, TokenHeldOnce
  <2>. QED BY <2>3, <2>5, <2>6 DEF PushInv
<1>2. ASSUME NEW p \in Phones, CommitSetting(p) PROVE PushInv'
  <2>. DEFINE s == setting[p]
  <2>1. /\ s # NoSetting /\ s.token \in Tokens /\ CoversHolders(p) /\ UNCHANGED <<worker, provider, minted>>
    BY <1>2 DEF CommitSetting, PushInv, workVars
  <2>2. CASE s.doomed
    <3>1. target' = target /\ setting' = [ConflictSettings({}) EXCEPT ![p] = NoSetting]
      BY <1>2, <2>2 DEF CommitSetting
    <3>2. ConflictSettings({}) \in [Phones -> PushWrite] BY <1>0, ConflictEffect
    <3>3. \A q \in Phones : ConflictSettings({})[q] = setting[q] BY DEF ConflictSettings
    <3>4. setting'[p] = NoSetting /\ \A q \in Phones : q # p => setting'[q] = setting[q] BY <3>1, <3>2, <3>3
    <3>5. NoSetting \in PushWrite BY DEF NoSetting, PushWrite
    <3>6. PushTypes' BY <1>0, <2>1, <3>1, <3>2, <3>5 DEF PushTypes, WorkerKept
    <3>7. \A q \in Phones : setting'[q] = NoSetting \/ (setting'[q].token \in Tokens /\ CoversHolders(q)')
      BY <3>1, <3>4 DEF PushInv, CoversHolders, Holders
    <3>8. TokenHeldOnce' BY <2>1, <3>1 DEF PushInv, TokenHeldOnce
    <3>. QED BY <3>6, <3>7, <3>8 DEF PushInv
  <2>3. CASE ~s.doomed
    <3>1. setting' = [ConflictSettings(s.writes) EXCEPT ![p] = NoSetting]
      BY <1>2, <2>3 DEF CommitSetting
    <3>2. target' = [q \in Phones |-> IF q = p THEN s.token ELSE IF q \in s.writes THEN Nobody ELSE target[q]]
      BY <1>2, <2>3 DEF CommitSetting
    <3>3. ConflictSettings(s.writes) \in [Phones -> PushWrite] BY <1>0, ConflictEffect
    <3>4. setting'[p] = NoSetting /\ \A q \in Phones : q # p => setting'[q] = ConflictSettings(s.writes)[q]
      BY <3>1, <3>3
    <3>5. \A q \in Phones : q # p =>
            /\ setting[q] = NoSetting => setting'[q] = NoSetting
            /\ setting'[q].token = setting[q].token /\ setting'[q].writes = setting[q].writes
            /\ setting'[q].doomed \/ (~setting[q].doomed /\ setting[q].writes \cap s.writes = {})
      BY <1>0, <3>4, ConflictEffect
    <3>6. NoSetting \in PushWrite BY DEF NoSetting, PushWrite
    <3>7. PushTypes' BY <1>0, <2>1, <3>1, <3>2, <3>3, <3>6 DEF PushTypes, WorkerKept
    <3>8. p \in s.writes /\ s.token \in s.writes /\ \A q \in Phones : target[q] = s.token => q \in s.writes
      BY <2>1, <2>3 DEF CoversHolders, Holders
    <3>9. target'[p] = s.token /\ \A q \in Phones : q # p => target'[q] = Nobody
                                        \/ (q \notin s.writes /\ target'[q] = target[q])
      BY <3>2
    <3>10. ASSUME NEW q \in Phones, q # p, setting[q] # NoSetting
           PROVE  setting'[q].token \in Tokens /\ CoversHolders(q)'
      <4>1. setting[q].token \in Tokens /\ CoversHolders(q) BY <3>10 DEF PushInv
      <4>2. CASE setting'[q].doomed BY <3>5, <3>10, <4>1, <4>2 DEF CoversHolders
      <4>3. CASE ~setting'[q].doomed
        <5>1. ~setting[q].doomed /\ setting[q].writes \cap s.writes = {} BY <3>5, <3>10, <4>3
        <5>2. setting[q].token # s.token BY <3>8, <4>1, <5>1 DEF CoversHolders
        <5>3. \A o \in Phones : target'[o] = setting[q].token => target[o] = setting[q].token
          BY <3>9, <4>1, <5>2
        <5>. QED BY <3>5, <3>10, <4>1, <5>1, <5>3 DEF CoversHolders, Holders
      <4>. QED BY <4>2, <4>3
    <3>11. \A q \in Phones : setting'[q] = NoSetting \/ (setting'[q].token \in Tokens /\ CoversHolders(q)')
      BY <3>4, <3>5, <3>10
    <3>12. \A a, b \in Phones : target'[a] = target'[b] /\ target'[a] # Nobody => a = b
      BY <2>1, <3>8, <3>9 DEF PushInv, TokenHeldOnce
    <3>13. minted' = "new" => provider' = "new" BY <2>1 DEF PushInv, TokenHeldOnce
    <3>. QED BY <3>7, <3>11, <3>12, <3>13 DEF PushInv, TokenHeldOnce
  <2>. QED BY <2>2, <2>3
<1>3. ASSUME NEW ps \in SUBSET Phones, Forget(ps), WorkerKept',
             provider' \in {"none", "new", "mid", "old"}, minted' \in {"none", "new", "aged"},
             minted' = "new" => provider' = "new"
      PROVE  PushInv'
  BY <1>3, ForgetKeeps DEF PushInv, PushTypes, TokenHeldOnce
<1>4. ASSUME UNCHANGED <<target, setting>>, WorkerKept',
             provider' \in {"none", "new", "mid", "old"}, minted' \in {"none", "new", "aged"},
             minted' = "new" => provider' = "new"
      PROVE  PushInv'
  BY <1>4 DEF PushInv, PushTypes, TokenHeldOnce, CoversHolders, Holders
<1>5. minted = "new" => provider = "new" BY DEF PushInv, TokenHeldOnce
<1>6. ASSUME NEW p \in Phones, RemoveTarget(p) \/ RevokePhone(p) PROVE PushInv'
  BY <1>0, <1>3, <1>5, <1>6 DEF WorkerKept, RemoveTarget, RevokePhone, PushTypes, workVars
<1>7. ASSUME NEW p, NEW event, Notify(event, p) PROVE PushInv'
  BY <1>0, <1>4, <1>5, <1>7 DEF WorkerKept, Notify, PushTypes, workVars, accountVars
<1>8. ASSUME NEW key, IntervalPasses(key) PROVE PushInv'
  BY <1>0, <1>4, <1>5, <1>8 DEF WorkerKept, IntervalPasses, PushTypes, workVars, accountVars
<1>9. CASE Restart
  BY <1>0, <1>4, <1>9 DEF WorkerKept, Restart, PushTypes, accountVars, Resting
<1>10. ASSUME UNCHANGED <<target, setting, provider, minted>>,
              WorkerKept'
       PROVE  PushInv'
  BY <1>0, <1>4, <1>5, <1>10 DEF PushTypes
<1>11. CASE TakeJob BY <1>0, <1>10, <1>11 DEF PushTypes, WorkerKept, TakeJob, accountVars, Resting
<1>12. CASE ReadTargets
  <2>1. UNCHANGED <<target, setting, provider, minted>> BY <1>12 DEF ReadTargets, accountVars
  <2>2. CASE worker' = ToNtfy BY <1>0, <1>10, <2>1, <2>2 DEF WorkerKept, ToNtfy, PushTypes
  <2>3. CASE worker' # ToNtfy
    <3>. DEFINE ts == {target[p] : p \in {q \in Phones : phone[q] = "active" /\ q # worker.except}} \ {Nobody}
    <3>1. worker' = [worker EXCEPT !.at = "deliver", !.left = ts] BY <1>12, <2>3 DEF ReadTargets
    <3>2. ts \subseteq Tokens BY <1>0 DEF PushTypes
    <3>. HIDE DEF ts
    <3>3. WorkerKept' BY <1>0, <3>1, <3>2 DEF PushTypes, WorkerKept
    <3>. QED BY <1>10, <2>1, <3>3
  <2>. QED BY <2>2, <2>3
<1>13. CASE NextTarget
  <2>1. UNCHANGED <<target, setting, provider, minted>> BY <1>13 DEF NextTarget, accountVars
  <2>2. CASE worker' = ToNtfy BY <1>0, <1>10, <2>1, <2>2 DEF WorkerKept, ToNtfy, PushTypes
  <2>3. CASE worker' # ToNtfy
    <3>1. PICK t \in worker.left : worker' = [worker EXCEPT !.to = t, !.left = @ \ {t}, !.attempt = 1]
      BY <1>13, <2>3 DEF NextTarget
    <3>2. WorkerKept' BY <1>0, <3>1 DEF PushTypes, WorkerKept
    <3>. QED BY <1>10, <2>1, <3>2
  <2>. QED BY <2>2, <2>3
<1>14. CASE PushTimesOut BY <1>0, <1>10, <1>14 DEF PushTypes, WorkerKept, PushTimesOut, accountVars, ToNtfy
<1>15. CASE Publish BY <1>0, <1>10, <1>15 DEF WorkerKept, Publish, accountVars, Resting, Again, PushTypes
<1>16. CASE Deliver
  <2>1. WorkerKept'
    BY <1>0, <1>16 DEF WorkerKept, Deliver, GiveUpTarget, Again, PushTypes
  <2>2. provider' \in {"none", "new", "mid", "old"} /\ minted' \in {"none", "new", "aged"}
    BY <1>0, <1>16 DEF Deliver, PushTypes
  <2>3. minted' = "new" => provider' = "new"
    BY <1>0, <1>5, <1>16 DEF Deliver, PushTypes, TokenReplaceable
  <2>4. UNCHANGED <<target, setting>> \/ Forget(Holders(worker.to))
    BY <1>16 DEF Deliver
  <2>5. Holders(worker.to) \in SUBSET Phones BY DEF Holders
  <2>. QED BY <1>3, <1>4, <2>1, <2>2, <2>3, <2>4, <2>5
<1>17. CASE TokenAges
  <2>1. UNCHANGED <<target, setting, worker>> BY <1>17 DEF TokenAges, accountVars
  <2>2. provider' \in {"none", "new", "mid", "old"} /\ minted' \in {"none", "aged"}
    BY <1>0, <1>17 DEF TokenAges, PushTypes
  <2>. QED BY <1>0, <1>4, <2>1, <2>2 DEF PushTypes, WorkerKept
<1>18. CASE UNCHANGED notifyVars
  BY <1>0, <1>4, <1>5, <1>18 DEF WorkerKept, notifyVars, accountVars, workVars, PushTypes
<1>. QED BY <1>1, <1>2, <1>6, <1>7, <1>8, <1>9, <1>11, <1>12, <1>13, <1>14, <1>15, <1>16, <1>17, <1>18
         DEF NotifierNext, WorkerNext

\* A token belongs to at most one device however registrations, removals and revocations
\* interleave, and no process caches a provider token younger than twenty minutes after
\* dropping one that young (set_push_target, revoke_device, provider_token).
THEOREM TokenHeldOnceAlways == NotifierSpec => []TokenHeldOnce
<1>1. NotifierInit => PushInv
  BY DEF NotifierInit, PushInv, PushTypes, PushWrite, WorkerKept, NoSetting, Resting, TokenHeldOnce
<1>2. PushInv => TokenHeldOnce BY DEF PushInv
<1>. QED BY <1>1, <1>2, PushInvStep, PTL DEF NotifierSpec

----------------------------------------------------------------------------
(* Agent actions.                                                           *)

Decidable == {"pending", "denied", "executed"}

AgentRowType ==
  [status : {"free", "counted"} \cup Decidable, deed : Deeds \cup {CHOOSE a \in Deeds : TRUE},
   live : BOOLEAN, by : Gadgets \cup {"none"}]

ApprovalType ==
  [at : {"idle", "fetched", "verified", "claimed", "resolved"}, id : Proposals \cup {"none"},
   by : Gadgets \cup {"none"}, checked : {"none", "absent"} \cup Inodes]

AgentTypes ==
  /\ agentRow \in [Proposals -> AgentRowType]
  /\ approval \in [Approvals -> ApprovalType]
  /\ disk \in [leaf : {"absent", "link", "away"} \cup Inodes, elsewhere : {"intact", "changed"}]
  /\ done \in [Proposals -> {0, 1}]

\* A row that an approval has claimed.
ClaimedRow(r) == agentRow[r].status = "executed" /\ ApprovableOn(agentRow[r].by, agentRow[r].deed)

\* An approval between its fetch and its claim: the action it was shown cannot change.
FetchHolds(h) ==
  approval[h].at \in {"fetched", "verified"} =>
    /\ approval[h].id \in Proposals /\ approval[h].by \in Gadgets
    /\ agentRow[approval[h].id].status \in Decidable
    /\ ApprovableOn(approval[h].by, agentRow[approval[h].id].deed)

Claims(h) == approval[h].at \in {"claimed", "resolved"}

\* An approval between its claim and its run has claimed a row that has not run.
ClaimHolds(h) ==
  /\ Claims(h) => /\ approval[h].id \in Proposals /\ ClaimedRow(approval[h].id)
                  /\ done[approval[h].id] = 0
  /\ approval[h].at = "resolved" => approval[h].checked \in {"absent"} \cup Inodes

AgentInv ==
  /\ AgentTypes
  /\ \A h \in Approvals : FetchHolds(h) /\ ClaimHolds(h)
  /\ \A h, k \in Approvals : Claims(h) /\ Claims(k) /\ approval[h].id = approval[k].id => h = k
  /\ \A r \in Proposals : done[r] = 1 => ClaimedRow(r)
  /\ disk.elsewhere = "intact"

\* A step that leaves the approvals, the runs and other files alone, and every row that
\* could be decided as it was or decided.
LEMMA RowStepKeeps ==
  ASSUME AgentInv, UNCHANGED <<approval, done>>, disk' = disk \/ disk'.elsewhere = "intact", AgentTypes',
         \A r \in Proposals : agentRow[r].status \in Decidable =>
           /\ agentRow'[r].status \in Decidable
           /\ agentRow'[r].deed = agentRow[r].deed /\ agentRow'[r].by = agentRow[r].by
           /\ agentRow[r].status = "executed" => agentRow'[r].status = "executed"
  PROVE  AgentInv'
<1>1. \A r \in Proposals : ClaimedRow(r) => ClaimedRow(r)' BY DEF ClaimedRow, Decidable
<1>2. ASSUME NEW h \in Approvals PROVE FetchHolds(h)' /\ ClaimHolds(h)'
  <2>1. FetchHolds(h) /\ ClaimHolds(h) BY DEF AgentInv
  <2>2. FetchHolds(h)' BY <2>1 DEF FetchHolds
  <2>3. ClaimHolds(h)' BY <1>1, <2>1 DEF ClaimHolds, Claims
  <2>. QED BY <2>2, <2>3
<1>3. \A h, k \in Approvals : Claims(h)' /\ Claims(k)' /\ approval'[h].id = approval'[k].id => h = k
  BY DEF AgentInv, Claims
<1>4. \A r \in Proposals : done'[r] = 1 => ClaimedRow(r)' BY <1>1 DEF AgentInv
<1>5. disk'.elsewhere = "intact" BY DEF AgentInv
<1>. QED BY <1>2, <1>3, <1>4, <1>5 DEF AgentInv

\* A step of one approval that leaves the rows, the runs and the workspace alone.
LEMMA ApprovalStepKeeps ==
  ASSUME AgentInv, NEW h \in Approvals, NEW a \in ApprovalType, approval' = [approval EXCEPT ![h] = a],
         UNCHANGED <<agentRow, disk, done>>, FetchHolds(h)', ClaimHolds(h)',
         Claims(h)' => Claims(h) /\ a.id = approval[h].id
  PROVE  AgentInv'
<1>0. approval \in [Approvals -> ApprovalType] BY DEF AgentInv, AgentTypes
<1>1. approval'[h] = a /\ \A k \in Approvals : k # h => approval'[k] = approval[k] BY <1>0
<1>2. ASSUME NEW k \in Approvals, k # h PROVE FetchHolds(k)' /\ ClaimHolds(k)'
  BY <1>1, <1>2 DEF AgentInv, FetchHolds, ClaimHolds, Claims, ClaimedRow
<1>3. \A k \in Approvals : FetchHolds(k)' /\ ClaimHolds(k)' BY <1>2
<1>4. \A k \in Approvals : Claims(k)' => Claims(k) /\ approval'[k].id = approval[k].id
  BY <1>1 DEF Claims
<1>5. \A k, m \in Approvals : Claims(k)' /\ Claims(m)' /\ approval'[k].id = approval'[m].id => k = m
  BY <1>4 DEF AgentInv
<1>6. AgentTypes' BY <1>0 DEF AgentInv, AgentTypes
<1>7. \A r \in Proposals : done'[r] = 1 => ClaimedRow(r)' BY DEF AgentInv, ClaimedRow
<1>8. disk'.elsewhere = "intact" BY DEF AgentInv
<1>. QED BY <1>3, <1>5, <1>6, <1>7, <1>8 DEF AgentInv

\* An approval that ends.
LEMMA QuitKeeps ==
  ASSUME AgentInv, NEW h \in Approvals, Quits(h), UNCHANGED <<agentRow, disk, done>>
  PROVE  AgentInv'
<1>1. NoApproval \in ApprovalType BY DEF NoApproval, ApprovalType
<1>2. approval'[h] = NoApproval BY DEF Quits, AgentInv, AgentTypes
<1>3. approval'[h].at = "idle" BY <1>2 DEF NoApproval
<1>4. FetchHolds(h)' /\ ClaimHolds(h)' /\ ~Claims(h)' BY <1>3 DEF FetchHolds, ClaimHolds, Claims
<1>. QED BY <1>1, <1>4, ApprovalStepKeeps DEF Quits

\* An approval that ends having run its action: the row is claimed by nobody else.
LEMMA RunKeeps ==
  ASSUME AgentInv, NEW h \in Approvals, Claims(h), Quits(h), Ran(h), UNCHANGED agentRow,
         disk' \in [leaf : {"absent", "link", "away"} \cup Inodes, elsewhere : {"intact", "changed"}],
         disk'.elsewhere = "intact"
  PROVE  AgentInv'
<1>. DEFINE i == approval[h].id
<1>0. AgentTypes BY DEF AgentInv
<1>1. i \in Proposals /\ ClaimedRow(i) /\ done[i] = 0 BY DEF AgentInv, ClaimHolds
<1>2. done' \in [Proposals -> {0, 1}] /\ \A r \in Proposals : r # i => done'[r] = done[r]
  BY <1>0, <1>1 DEF Ran, AgentTypes
<1>3. NoApproval \in ApprovalType BY DEF NoApproval, ApprovalType
<1>4. AgentTypes' BY <1>0, <1>2, <1>3 DEF AgentTypes, Quits
<1>5. approval'[h] = NoApproval /\ \A k \in Approvals : k # h => approval'[k] = approval[k]
  BY <1>0 DEF Quits, AgentTypes
<1>6. approval'[h].at = "idle" BY <1>5 DEF NoApproval
<1>7. FetchHolds(h)' /\ ClaimHolds(h)' /\ ~Claims(h)' BY <1>6 DEF FetchHolds, ClaimHolds, Claims
<1>8. ASSUME NEW k \in Approvals, k # h PROVE FetchHolds(k)' /\ ClaimHolds(k)'
  <2>1. FetchHolds(k) /\ ClaimHolds(k) BY DEF AgentInv
  <2>2. FetchHolds(k)' BY <1>5, <1>8, <2>1 DEF FetchHolds
  <2>3. Claims(k) => approval[k].id # i BY <1>8 DEF AgentInv
  <2>4. ClaimHolds(k)' BY <1>2, <1>5, <1>8, <2>1, <2>3 DEF ClaimHolds, Claims, ClaimedRow
  <2>. QED BY <2>2, <2>4
<1>9. \A k \in Approvals : Claims(k)' => Claims(k) /\ approval'[k].id = approval[k].id
  BY <1>5, <1>7 DEF Claims
<1>10. \A k, m \in Approvals : Claims(k)' /\ Claims(m)' /\ approval'[k].id = approval'[m].id => k = m
  BY <1>9 DEF AgentInv
<1>11. \A r \in Proposals : done'[r] = 1 => ClaimedRow(r)'
  BY <1>1, <1>2 DEF AgentInv, ClaimedRow
<1>. QED BY <1>4, <1>7, <1>8, <1>10, <1>11 DEF AgentInv

\* A claim: the row was pending, so nobody else had claimed it.
LEMMA ClaimKeeps ==
  ASSUME AgentInv, NEW h \in Approvals, ClaimPending(h)
  PROVE  AgentInv'
<1>0. AgentTypes BY DEF AgentInv
<1>4. PICK i \in Proposals : i = approval[h].id BY DEF ClaimPending, AgentInv, FetchHolds
<1>1. i \in Proposals /\ approval[h].by \in Gadgets /\ ApprovableOn(approval[h].by, agentRow[i].deed)
      /\ UNCHANGED <<disk, done>> /\ ~Claims(h)
  BY <1>4 DEF ClaimPending, AgentInv, FetchHolds, Claims
<1>2. CASE Quits(h) /\ UNCHANGED agentRow BY <1>1, <1>2, QuitKeeps
<1>3. CASE ~(Quits(h) /\ UNCHANGED agentRow)
  <2>1. /\ agentRow[i].status = "pending"
        /\ agentRow' = [agentRow EXCEPT ![i].status = "executed", ![i].by = approval[h].by]
        /\ approval' = [approval EXCEPT ![h].at = "claimed"] \/ Quits(h)
    BY <1>4, <1>3 DEF ClaimPending, StillPending, Unresolved
  <2>2. agentRow[i] \in AgentRowType BY <1>0, <1>1 DEF AgentTypes
  <2>3. [[agentRow[i] EXCEPT !.status = "executed"] EXCEPT !.by = approval[h].by] \in AgentRowType
    BY <1>1, <2>2 DEF AgentRowType, Decidable
  <2>4. agentRow' = [agentRow EXCEPT ![i] = [[agentRow[i] EXCEPT !.status = "executed"] EXCEPT !.by = approval[h].by]]
    BY <1>0, <1>1, <2>1 DEF AgentTypes
  <2>5. /\ agentRow'[i].status = "executed" /\ agentRow'[i].by = approval[h].by /\ agentRow'[i].deed = agentRow[i].deed
        /\ \A r \in Proposals : r # i => agentRow'[r] = agentRow[r]
    BY <1>0, <1>1, <2>2, <2>4 DEF AgentTypes, AgentRowType
  <2>6. /\ \A k \in Approvals : k # h => approval'[k] = approval[k]
        /\ (approval'[h].at = "claimed" /\ approval'[h].id = i) \/ approval'[h].at = "idle"
        /\ approval' \in [Approvals -> ApprovalType]
    BY <1>0, <1>4, <2>1 DEF AgentTypes, ApprovalType, Quits, NoApproval
  <2>7. AgentTypes' BY <1>0, <1>1, <2>3, <2>4, <2>6 DEF AgentTypes
  <2>8. \A r \in Proposals : ClaimedRow(r) => r # i BY <2>1 DEF ClaimedRow
  <2>9. ClaimedRow(i)' BY <1>1, <2>5 DEF ClaimedRow
  <2>10. done[i] = 0 BY <1>0, <1>1, <2>8 DEF AgentInv, AgentTypes
  <2>11. ASSUME NEW k \in Approvals PROVE FetchHolds(k)' /\ ClaimHolds(k)'
    <3>1. FetchHolds(k) /\ ClaimHolds(k) BY DEF AgentInv
    <3>2. CASE k = h BY <1>1, <2>6, <2>9, <2>10, <3>2 DEF FetchHolds, ClaimHolds, Claims
    <3>3. CASE k # h
      <4>1. FetchHolds(k)' BY <2>5, <2>6, <3>1, <3>3 DEF FetchHolds, Decidable
      <4>2. ClaimHolds(k)' BY <1>1, <2>5, <2>6, <2>8, <3>1, <3>3 DEF ClaimHolds, Claims, ClaimedRow
      <4>. QED BY <4>1, <4>2
    <3>. QED BY <3>2, <3>3
  <2>12. \A k \in Approvals : k # h /\ Claims(k)' => Claims(k) /\ approval'[k].id = approval[k].id /\ approval[k].id # i
    BY <2>6, <2>8 DEF Claims, AgentInv, ClaimHolds
  <2>13. Claims(h)' => approval'[h].id = i BY <2>6 DEF Claims
  <2>14. \A k, m \in Approvals : Claims(k)' /\ Claims(m)' /\ approval'[k].id = approval'[m].id => k = m
    BY <2>12, <2>13 DEF AgentInv
  <2>15. \A r \in Proposals : done'[r] = 1 => ClaimedRow(r)'
    BY <1>1, <2>5, <2>9 DEF AgentInv, ClaimedRow
  <2>16. disk'.elsewhere = "intact" BY <1>1 DEF AgentInv
  <2>. QED BY <2>7, <2>11, <2>14, <2>15, <2>16 DEF AgentInv
<1>. QED BY <1>2, <1>3

LEMMA AgentInvStep == AgentInv /\ [AgentNext]_agentVars => AgentInv'
<1>. SUFFICES ASSUME AgentInv, [AgentNext]_agentVars PROVE AgentInv' OBVIOUS
<1>. USE AgentAssumption
<1>0. AgentTypes BY DEF AgentInv
<1>1. ASSUME NEW r \in Proposals, NEW row \in AgentRowType, agentRow' = [agentRow EXCEPT ![r] = row],
             agentRow[r].status \in {"free", "counted"} \/
               (row.status \in Decidable /\ row.deed = agentRow[r].deed /\ row.by = agentRow[r].by
                /\ agentRow[r].status # "executed"),
             UNCHANGED <<approval, disk, done>>
      PROVE  AgentInv'
  <2>1. AgentTypes' BY <1>0, <1>1 DEF AgentTypes
  <2>2. agentRow'[r] = row /\ \A o \in Proposals : o # r => agentRow'[o] = agentRow[o]
    BY <1>0, <1>1 DEF AgentTypes
  <2>3. \A o \in Proposals : agentRow[o].status \in Decidable =>
           /\ agentRow'[o].status \in Decidable
           /\ agentRow'[o].deed = agentRow[o].deed /\ agentRow'[o].by = agentRow[o].by
           /\ agentRow[o].status = "executed" => agentRow'[o].status = "executed"
    BY <1>1, <2>2 DEF Decidable
  <2>. QED BY <1>1, <2>1, <2>3, RowStepKeeps
<1>2. ASSUME NEW r \in Proposals, NEW deed \in Deeds, Propose(r, deed) PROVE AgentInv'
  <2>. DEFINE row == [[agentRow[r] EXCEPT !.status = "counted"] EXCEPT !.deed = deed]
  <2>1. agentRow[r] \in AgentRowType BY <1>0 DEF AgentTypes
  <2>2. row \in AgentRowType BY <2>1 DEF AgentRowType
  <2>3. agentRow' = [agentRow EXCEPT ![r] = row] BY <1>0, <1>2 DEF Propose, AgentTypes
  <2>. HIDE DEF row
  <2>. QED BY <1>1, <1>2, <2>2, <2>3 DEF Propose
<1>3. ASSUME NEW r \in Proposals, CreatePending(r) PROVE AgentInv'
  <2>1. agentRow[r] \in AgentRowType BY <1>0 DEF AgentTypes
  <2>2. [agentRow[r] EXCEPT !.status = "pending"] \in AgentRowType BY <2>1 DEF AgentRowType, Decidable
  <2>3. NoRow \in AgentRowType BY DEF NoRow, AgentRowType
  <2>4. \E row \in AgentRowType : agentRow' = [agentRow EXCEPT ![r] = row]
    BY <1>0, <1>3, <2>2, <2>3 DEF CreatePending, AgentTypes
  <2>. QED BY <1>1, <1>3, <2>4 DEF CreatePending
<1>4. ASSUME NEW r \in Proposals, FiveMinutesPass(r) PROVE AgentInv'
  <2>. DEFINE row == [agentRow[r] EXCEPT !.live = FALSE]
  <2>1. agentRow[r] \in AgentRowType BY <1>0 DEF AgentTypes
  <2>2. row \in AgentRowType BY <2>1 DEF AgentRowType
  <2>3. row.status = agentRow[r].status /\ row.deed = agentRow[r].deed /\ row.by = agentRow[r].by
    BY <2>1 DEF AgentRowType
  <2>4. agentRow' = [agentRow EXCEPT ![r] = row] BY <1>0, <1>4 DEF FiveMinutesPass, AgentTypes
  <2>5. agentRow[r].status = "pending" /\ UNCHANGED <<approval, disk, done>>
    BY <1>4 DEF FiveMinutesPass, Unresolved
  <2>. HIDE DEF row
  <2>. QED BY <1>1, <2>2, <2>3, <2>4, <2>5 DEF Decidable
<1>5. ASSUME NEW r \in Proposals, DenyPending(r) PROVE AgentInv'
  <2>. DEFINE row == [agentRow[r] EXCEPT !.status = "denied"]
  <2>1. agentRow[r] \in AgentRowType BY <1>0 DEF AgentTypes
  <2>2. row \in AgentRowType BY <2>1 DEF AgentRowType, Decidable
  <2>3. row.status = "denied" /\ row.deed = agentRow[r].deed /\ row.by = agentRow[r].by
    BY <2>1 DEF AgentRowType
  <2>4. agentRow' = [agentRow EXCEPT ![r] = row] BY <1>0, <1>5 DEF DenyPending, AgentTypes
  <2>5. agentRow[r].status = "pending" /\ UNCHANGED <<approval, disk, done>>
    BY <1>5 DEF DenyPending, Unresolved
  <2>. HIDE DEF row
  <2>. QED BY <1>1, <2>2, <2>3, <2>4, <2>5 DEF Decidable
<1>6. ASSUME NEW h \in Approvals, NEW r \in Proposals, NEW g \in Gadgets, FetchPending(h, r, g) PROVE AgentInv'
  <2>. DEFINE a == [[[approval[h] EXCEPT !.at = "fetched"] EXCEPT !.id = r] EXCEPT !.by = g]
  <2>1. approval[h] \in ApprovalType BY <1>0 DEF AgentTypes
  <2>2. a \in ApprovalType /\ a.at = "fetched" /\ a.id = r /\ a.by = g BY <2>1 DEF ApprovalType
  <2>3. approval' = [approval EXCEPT ![h] = a] BY <1>0, <1>6 DEF FetchPending, AgentTypes
  <2>4. approval'[h] = a BY <1>0, <2>3 DEF AgentTypes
  <2>5. agentRow[r].status = "pending" /\ ApprovableOn(g, agentRow[r].deed) /\ UNCHANGED <<agentRow, disk, done>>
    BY <1>6 DEF FetchPending, Unresolved
  <2>. HIDE DEF a
  <2>6. FetchHolds(h)' BY <2>2, <2>4, <2>5 DEF FetchHolds, Decidable
  <2>7. ClaimHolds(h)' /\ ~Claims(h)' BY <2>2, <2>4 DEF ClaimHolds, Claims
  <2>. QED BY <2>2, <2>3, <2>5, <2>6, <2>7, ApprovalStepKeeps
<1>7. ASSUME NEW h \in Approvals, VerifyApproval(h) PROVE AgentInv'
  <2>1. CASE Quits(h) BY <1>7, <2>1, QuitKeeps DEF VerifyApproval
  <2>2. CASE ~Quits(h)
    <3>. DEFINE a == [approval[h] EXCEPT !.at = "verified"]
    <3>1. approval[h] \in ApprovalType BY <1>0 DEF AgentTypes
    <3>2. a \in ApprovalType /\ a.at = "verified" /\ a.id = approval[h].id /\ a.by = approval[h].by
      BY <3>1 DEF ApprovalType
    <3>3. approval' = [approval EXCEPT ![h] = a] BY <1>0, <1>7, <2>2 DEF VerifyApproval, AgentTypes
    <3>4. approval'[h] = a BY <1>0, <3>3 DEF AgentTypes
    <3>5. approval[h].at = "fetched" /\ UNCHANGED <<agentRow, disk, done>> BY <1>7 DEF VerifyApproval
    <3>. HIDE DEF a
    <3>6. FetchHolds(h) BY DEF AgentInv
    <3>7. FetchHolds(h)' BY <3>2, <3>4, <3>5, <3>6 DEF FetchHolds
    <3>8. ClaimHolds(h)' /\ ~Claims(h)' BY <3>2, <3>4 DEF ClaimHolds, Claims
    <3>. QED BY <3>2, <3>3, <3>5, <3>7, <3>8, ApprovalStepKeeps
  <2>. QED BY <2>1, <2>2
<1>8. ASSUME NEW h \in Approvals, ClaimPending(h) PROVE AgentInv' BY <1>8, ClaimKeeps
<1>9. ASSUME NEW h \in Approvals, ResolveTarget(h) PROVE AgentInv'
  <2>1. approval[h].at = "claimed" /\ UNCHANGED <<agentRow, disk, done>> BY <1>9 DEF ResolveTarget
  <2>2. CASE Quits(h) BY <2>1, <2>2, QuitKeeps
  <2>3. CASE ~Quits(h)
    <3>. DEFINE a == [[approval[h] EXCEPT !.at = "resolved"] EXCEPT !.checked = disk.leaf]
    <3>1. approval[h] \in ApprovalType BY <1>0 DEF AgentTypes
    <3>2. disk.leaf \in {"absent"} \cup Inodes BY <1>9, <2>3 DEF ResolveTarget, Resolves
    <3>3. a \in ApprovalType /\ a.at = "resolved" /\ a.id = approval[h].id /\ a.checked = disk.leaf
      BY <3>1, <3>2 DEF ApprovalType
    <3>4. approval' = [approval EXCEPT ![h] = a] BY <1>0, <1>9, <2>3 DEF ResolveTarget, AgentTypes
    <3>5. approval'[h] = a BY <1>0, <3>4 DEF AgentTypes
    <3>. HIDE DEF a
    <3>6. Claims(h) /\ ClaimHolds(h) BY <2>1 DEF AgentInv, Claims
    <3>7. FetchHolds(h)' BY <3>3, <3>5 DEF FetchHolds
    <3>8. ClaimHolds(h)' BY <2>1, <3>2, <3>3, <3>5, <3>6 DEF ClaimHolds, Claims, ClaimedRow
    <3>. QED BY <2>1, <3>3, <3>4, <3>6, <3>7, <3>8, ApprovalStepKeeps
  <2>. QED BY <2>2, <2>3
<1>10. ASSUME NEW h \in Approvals, WriteTarget(h) PROVE AgentInv'
  <2>1. Claims(h) /\ Quits(h) /\ UNCHANGED agentRow BY <1>10 DEF WriteTarget, Claims
  <2>2. CASE OpensChecked(approval[h].checked)
    <3>1. approval[h].checked \in {"absent"} \cup Inodes BY <1>10 DEF WriteTarget, AgentInv, ClaimHolds
    <3>2. disk.leaf \in {"absent"} \cup Inodes BY <2>2, <3>1 DEF OpensChecked
    <3>3. disk.leaf \notin {"link", "away"} BY <3>2
    <3>4. PICK made \in Inodes : disk' = Written(made) BY <1>10, <2>2 DEF WriteTarget
    <3>5. disk'.elsewhere = "intact"
          /\ disk' \in [leaf : {"absent", "link", "away"} \cup Inodes, elsewhere : {"intact", "changed"}]
      BY <1>0, <3>3, <3>4 DEF Written, AgentTypes, AgentInv
    <3>6. Ran(h) BY <1>10, <2>2 DEF WriteTarget
    <3>. QED BY <2>1, <3>5, <3>6, RunKeeps
  <2>3. CASE ~OpensChecked(approval[h].checked)
    BY <1>10, <2>1, <2>3, QuitKeeps DEF WriteTarget
  <2>. QED BY <2>2, <2>3
<1>11. ASSUME NEW h \in Approvals, CommitTarget(h) PROVE AgentInv'
  <2>1. Claims(h) /\ Quits(h) /\ UNCHANGED <<agentRow, disk>> BY <1>11 DEF CommitTarget, Claims
  <2>2. CASE Ran(h)
    <3>1. disk' \in [leaf : {"absent", "link", "away"} \cup Inodes, elsewhere : {"intact", "changed"}]
          /\ disk'.elsewhere = "intact"
      BY <1>0, <2>1 DEF AgentTypes, AgentInv
    <3>. QED BY <2>1, <2>2, <3>1, RunKeeps
  <2>3. CASE ~Ran(h) BY <1>11, <2>1, <2>3, QuitKeeps DEF CommitTarget
  <2>. QED BY <2>2, <2>3
<1>12. ASSUME NEW g \in Gadgets, RevokeGadget(g) PROVE AgentInv'
  <2>1. UNCHANGED <<agentRow, approval, disk, done>> BY <1>12 DEF RevokeGadget
  <2>2. AgentTypes' BY <1>0, <2>1 DEF AgentTypes
  <2>. QED BY <2>1, <2>2, RowStepKeeps
<1>13. CASE OtherProcess
  <2>1. UNCHANGED <<agentRow, approval, done>> BY <1>13 DEF OtherProcess
  <2>2. PICK leaf \in {"absent", "link", "away"} \cup Inodes : disk' = [disk EXCEPT !.leaf = leaf]
    BY <1>13 DEF OtherProcess
  <2>3. disk' \in [leaf : {"absent", "link", "away"} \cup Inodes, elsewhere : {"intact", "changed"}]
        /\ disk'.elsewhere = "intact"
    BY <1>0, <2>2 DEF AgentTypes, AgentInv
  <2>4. AgentTypes' BY <1>0, <2>1, <2>3 DEF AgentTypes
  <2>. QED BY <2>1, <2>3, <2>4, RowStepKeeps
<1>14. CASE AgentRestarts
  <2>1. /\ approval' = [h \in Approvals |-> NoApproval] /\ UNCHANGED <<disk, done>>
        /\ agentRow' = [r \in Proposals |-> IF agentRow[r].status = "counted" THEN NoRow ELSE agentRow[r]]
    BY <1>14 DEF AgentRestarts
  <2>2. NoApproval \in ApprovalType /\ NoApproval.at = "idle" BY DEF NoApproval, ApprovalType
  <2>3. NoRow \in AgentRowType BY DEF NoRow, AgentRowType
  <2>4. AgentTypes' BY <1>0, <2>1, <2>2, <2>3 DEF AgentTypes
  <2>5. \A h \in Approvals : approval'[h].at = "idle" BY <2>1, <2>2
  <2>6. \A h \in Approvals : FetchHolds(h)' /\ ClaimHolds(h)' /\ ~Claims(h)'
    BY <2>5 DEF FetchHolds, ClaimHolds, Claims
  <2>7. \A r \in Proposals : agentRow[r].status = "executed" => agentRow'[r] = agentRow[r] BY <2>1
  <2>8. \A r \in Proposals : done'[r] = 1 => ClaimedRow(r)' BY <2>1, <2>7 DEF AgentInv, ClaimedRow
  <2>9. disk'.elsewhere = "intact" BY <2>1 DEF AgentInv
  <2>. QED BY <2>4, <2>6, <2>8, <2>9 DEF AgentInv
<1>15. CASE UNCHANGED agentVars
  <2>1. UNCHANGED <<agentRow, approval, disk, done>> BY <1>15 DEF agentVars
  <2>2. AgentTypes' BY <1>0, <2>1 DEF AgentTypes
  <2>. QED BY <2>1, <2>2, RowStepKeeps
<1>. QED BY <1>2, <1>3, <1>4, <1>5, <1>6, <1>7, <1>8, <1>9, <1>10, <1>11, <1>12, <1>13, <1>14, <1>15
         DEF AgentNext, ApprovalStep

\* However approvals, denials, retries, restarts and other processes meet, an action runs
\* once at most, only as a device that may approve it claimed it, and no write changes a
\* file outside the workspace (agent_pending_approve, resolve_write, write_file).
THEOREM ActionsAreContainedAlways == AgentSpec => []ActionsAreContained
<1>1. AgentInit => AgentInv
  <2>. SUFFICES ASSUME AgentInit PROVE AgentInv OBVIOUS
  <2>1. NoApproval \in ApprovalType /\ NoApproval.at = "idle" BY DEF NoApproval, ApprovalType
  <2>2. NoRow \in AgentRowType BY DEF NoRow, AgentRowType
  <2>3. AgentTypes BY <2>1, <2>2 DEF AgentInit, AgentTypes
  <2>4. \A h \in Approvals : FetchHolds(h) /\ ClaimHolds(h) /\ ~Claims(h)
    BY <2>1 DEF AgentInit, FetchHolds, ClaimHolds, Claims
  <2>. QED BY <2>3, <2>4 DEF AgentInit, AgentInv
<1>2. AgentInv => ActionsAreContained
  BY DEF AgentInv, AgentTypes, ActionsAreContained, RunsAsApproved, ClaimedRow
<1>. QED BY <1>1, <1>2, AgentInvStep, PTL DEF AgentSpec

----------------------------------------------------------------------------
(* Subscription workers.                                                    *)

Verdicts ==
  {"RuntimeFailure", "NotConfigured", "IncompatibleRuntime", "SubscriptionUnavailable", "Completed",
   "PlanLimit", "ToolUseRefused"} \cup CodexFailures

AskType ==
  [client : {"free", "waiting", "timed out"} \cup Verdicts, research : BOOLEAN, wait : Nat,
   work : {"none", "reading"} \cup Handling, age : Nat, since : Nat,
   alive : BOOLEAN, helpers : BOOLEAN, stopped : BOOLEAN, state : Verdicts]

\* A request: only a run has processes that the CLI started, and a Codex run that was
\* stopped has left none; a run has not been stopped, its time is no more than the
\* request's, and a request is not read for longer than its limit.
SoundAsk(a) ==
  /\ a.work \notin Handling => ~a.alive
  /\ a.client = "free" => a.work = "none" /\ ~a.helpers /\ ~a.stopped /\ a.age = 0
  /\ a.work # "none" => ~a.stopped
  /\ a.helpers => a.work \in {"none", "run"}
  /\ workerCli = "codex" /\ a.stopped => ~a.helpers
  /\ a.work = "reading" => a.age <= ReadLimit
  /\ a.work \in Handling => a.since >= a.age

SlotsInv ==
  /\ crowd \in BOOLEAN
  /\ IsFiniteSet(Busy) /\ SlotsHeld <= RunSlots /\ Cardinality(Researching) <= ResearchSlots

WorkerInv ==
  /\ workerCli \in {"claude", "codex"} /\ ask \in [Prompts -> AskType]
  /\ \A p \in Prompts : SoundAsk(ask[p])
  /\ SlotsInv

LEMMA SlotCounts == ResearchSlots \in Nat /\ RunSlots \in Nat
BY WorkerAssumption

LEMMA ResearchIsBusy ==
  ASSUME IsFiniteSet(Busy)
  PROVE  /\ Cardinality(Busy) \in Nat /\ IsFiniteSet(Researching) /\ Cardinality(Researching) \in Nat
<1>1. Researching \subseteq Busy BY DEF Researching, Busy
<1>. QED BY <1>1, FS_Subset, FS_CardinalityType

\* Slots that are not taken anew stay within their bounds.
LEMMA FewerSlots ==
  ASSUME SlotsInv, Busy' \subseteq Busy, Researching' \subseteq Researching, crowd' = crowd \/ crowd' = FALSE
  PROVE  SlotsInv'
<1>1. IsFiniteSet(Busy') /\ Cardinality(Busy') <= Cardinality(Busy) BY FS_Subset DEF SlotsInv
<1>2. Cardinality(Busy) \in Nat /\ Cardinality(Busy') \in Nat BY <1>1, FS_CardinalityType DEF SlotsInv
<1>3. IsFiniteSet(Researching) /\ Cardinality(Researching) \in Nat BY ResearchIsBusy DEF SlotsInv
<1>4. Cardinality(Researching') <= Cardinality(Researching) /\ Cardinality(Researching') \in Nat
  BY <1>3, FS_Subset, FS_CardinalityType
<1>5. Cardinality(Researching') <= ResearchSlots
  <2>1. Cardinality(Researching) <= ResearchSlots BY DEF SlotsInv
  <2>. QED BY <1>3, <1>4, <2>1, SlotCounts
<1>6. SlotsHeld' <= RunSlots
  <2>1. SlotsHeld <= RunSlots BY DEF SlotsInv
  <2>. QED BY <1>1, <1>2, <2>1, SlotCounts DEF SlotsHeld
<1>7. crowd' \in BOOLEAN BY Zenon DEF SlotsInv
<1>. QED BY <1>1, <1>5, <1>6, <1>7 DEF SlotsInv

\* A slot, or a research slot, that was free is taken.
LEMMA OneMoreSlot ==
  ASSUME SlotsInv, NEW p, SlotsHeld < RunSlots, Busy' \subseteq Busy \cup {p},
         Researching' \subseteq Researching, crowd' = crowd
  PROVE  SlotsInv'
<1>0. IsFiniteSet(Busy) /\ Cardinality(Busy) \in Nat BY FS_CardinalityType DEF SlotsInv
<1>1. IsFiniteSet(Busy \cup {p}) /\ Cardinality(Busy \cup {p}) <= Cardinality(Busy) + 1
      /\ Cardinality(Busy) \in Nat
  <2>1. IsFiniteSet(Busy) BY <1>0
  <2>2. /\ IsFiniteSet(Busy \cup {p})
        /\ Cardinality(Busy \cup {p})
             = IF p \in Busy THEN Cardinality(Busy) ELSE Cardinality(Busy) + 1
    BY ONLY <2>1, FS_AddElement
  <2>. QED BY ONLY <1>0, <2>2
<1>2. IsFiniteSet(Busy') /\ Cardinality(Busy') <= Cardinality(Busy \cup {p}) BY <1>1, FS_Subset
<1>3. Cardinality(Busy') \in Nat /\ Cardinality(Busy \cup {p}) \in Nat BY <1>1, <1>2, FS_CardinalityType
<1>4. IsFiniteSet(Researching) /\ Cardinality(Researching) \in Nat BY ResearchIsBusy DEF SlotsInv
<1>5. Cardinality(Researching') <= Cardinality(Researching) /\ Cardinality(Researching') \in Nat
  BY <1>4, FS_Subset, FS_CardinalityType
<1>6. Cardinality(Researching') <= ResearchSlots
  <2>1. Cardinality(Researching) <= ResearchSlots BY DEF SlotsInv
  <2>. QED BY <1>4, <1>5, <2>1, SlotCounts
<1>7. SlotsHeld' <= RunSlots BY <1>1, <1>2, <1>3, SlotCounts DEF SlotsHeld
<1>8. crowd' \in BOOLEAN BY Zenon DEF SlotsInv
<1>. QED BY <1>2, <1>6, <1>7, <1>8 DEF SlotsInv

LEMMA OneMoreResearch ==
  ASSUME SlotsInv, NEW p, ResearchSlotFree, Busy' \subseteq Busy,
         Researching' \subseteq Researching \cup {p}, crowd' = crowd
  PROVE  SlotsInv'
<1>1. IsFiniteSet(Busy') /\ Cardinality(Busy') <= Cardinality(Busy) BY FS_Subset DEF SlotsInv
<1>2. Cardinality(Busy) \in Nat /\ Cardinality(Busy') \in Nat BY <1>1, FS_CardinalityType DEF SlotsInv
<1>3. IsFiniteSet(Researching) /\ Cardinality(Researching) \in Nat BY ResearchIsBusy DEF SlotsInv
<1>4. /\ IsFiniteSet(Researching \cup {p})
      /\ Cardinality(Researching \cup {p}) <= Cardinality(Researching) + 1
  BY <1>3, FS_AddElement
<1>5. /\ IsFiniteSet(Researching') /\ Cardinality(Researching') <= Cardinality(Researching \cup {p})
  BY <1>4, FS_Subset
<1>6. Cardinality(Researching') \in Nat /\ Cardinality(Researching \cup {p}) \in Nat
  BY <1>4, <1>5, FS_CardinalityType
<1>7. Cardinality(Researching') <= ResearchSlots
  BY <1>3, <1>4, <1>5, <1>6, SlotCounts DEF ResearchSlotFree
<1>8. SlotsHeld' <= RunSlots
  <2>1. SlotsHeld <= RunSlots BY DEF SlotsInv
  <2>. QED BY <1>1, <1>2, <2>1, SlotCounts DEF SlotsHeld
<1>9. crowd' \in BOOLEAN BY Zenon DEF SlotsInv
<1>. QED BY <1>1, <1>7, <1>8, <1>9 DEF SlotsInv

\* What holds once one request has become a.
LEMMA OneAsk ==
  ASSUME WorkerInv, NEW p \in Prompts, NEW a \in AskType, ask' = [ask EXCEPT ![p] = a],
         UNCHANGED <<workerCli, crowd>>, SoundAsk(a),
         a.work # "none" => ask[p].work # "none" \/ SlotsHeld < RunSlots,
         a.work \in Handling => \/ a.research = ask[p].research /\ ask[p].work \in Handling
                                \/ ask[p].work # "none" /\ (a.research => ResearchSlotFree)
  PROVE  WorkerInv'
<1>1. ask \in [Prompts -> AskType] BY DEF WorkerInv
<1>2. ask' \in [Prompts -> AskType] /\ ask'[p] = a /\ \A q \in Prompts : q # p => ask'[q] = ask[q]
  BY <1>1
<1>3. \A q \in Prompts : SoundAsk(ask[q])' BY <1>2 DEF WorkerInv, SoundAsk
<1>4. ask[p].work \in {"none", "reading"} \cup Handling /\ a.work \in {"none", "reading"} \cup Handling
  BY <1>1 DEF AskType
<1>5. Busy' \subseteq Busy \cup {p} BY <1>2 DEF Busy
<1>6. a.work = "none" \/ ask[p].work # "none" => Busy' \subseteq Busy
  BY <1>2, <1>4 DEF Busy, Handling
<1>7. Researching' \subseteq Researching \cup {p} BY <1>2 DEF Researching
<1>8. \/ a.work \notin Handling \/ ~a.research
      \/ a.research = ask[p].research /\ ask[p].work \in Handling
      => Researching' \subseteq Researching
  BY <1>2 DEF Researching
<1>9. SlotsInv'
  <2>1. CASE a.work = "none" \/ ask[p].work # "none"
    <3>1. Busy' \subseteq Busy BY <1>6, <2>1
    <3>2. CASE Researching' \subseteq Researching BY <3>1, <3>2, FewerSlots DEF WorkerInv
    <3>3. CASE ~(Researching' \subseteq Researching)
      BY <1>7, <1>8, <3>1, <3>3, OneMoreResearch DEF WorkerInv
    <3>. QED BY <3>2, <3>3
  <2>2. CASE a.work # "none" /\ ask[p].work = "none"
    <3>1. SlotsHeld < RunSlots BY <2>2
    <3>2. a.work \notin Handling BY <2>2 DEF Handling
    <3>. QED BY <1>5, <1>8, <3>1, <3>2, OneMoreSlot DEF WorkerInv
  <2>. QED BY <2>1, <2>2
<1>. QED BY <1>2, <1>3, <1>9 DEF WorkerInv

\* The verdicts are not names of what a client does.
LEMMA VerdictsDiffer == {"free", "waiting", "timed out"} \cap Verdicts = {}
BY WorkerAssumption DEF Verdicts

LEMMA BooleanValues == FALSE \in BOOLEAN /\ TRUE \in BOOLEAN
BY Zenon

\* What an answer makes of a request.
LEMMA AnswerShape ==
  ASSUME WorkerInv, NEW p \in Prompts, NEW state \in Verdicts, NEW stopped \in BOOLEAN
  PROVE  \E b \in AskType :
           /\ Replied(p, state, stopped) = [ask EXCEPT ![p] = b]
           /\ b.work = "none" /\ ~b.alive /\ b.client # "free"
           /\ b.helpers = ask[p].helpers /\ b.stopped = stopped
<1>. DEFINE cl == IF ask[p].client = "waiting" THEN state ELSE "timed out"
            b == [NoPrompt EXCEPT !.client = cl, !.helpers = ask[p].helpers, !.stopped = stopped]
<1>1. ask[p] \in AskType BY DEF WorkerInv
<1>2. ask[p].helpers \in BOOLEAN BY <1>1 DEF AskType
<1>3. cl \in {"timed out"} \cup Verdicts OBVIOUS
<1>4. NoPrompt \in AskType BY DEF NoPrompt, AskType, Verdicts
<1>5. NoPrompt.work = "none" /\ ~NoPrompt.alive BY DEF NoPrompt
<1>6. Replied(p, state, stopped) = [ask EXCEPT ![p] = b] BY DEF Replied
<1>. HIDE DEF cl
<1>7. b = [[[NoPrompt EXCEPT !.client = cl] EXCEPT !.helpers = ask[p].helpers] EXCEPT !.stopped = stopped]
  OBVIOUS
<1>. HIDE DEF b
<1>8. /\ b \in AskType /\ b.work = "none" /\ ~b.alive /\ b.client = cl
      /\ b.helpers = ask[p].helpers /\ b.stopped = stopped
  BY <1>2, <1>3, <1>4, <1>5, <1>7 DEF AskType
<1>9. b.client # "free" BY <1>3, <1>8, VerdictsDiffer
<1>. QED BY <1>6, <1>8, <1>9

\* A request that is answered; with its group stopped or without anything left, when the
\* worker says that it stopped it.
LEMMA AnswerKeeps ==
  ASSUME WorkerInv, NEW p \in Prompts, NEW state \in Verdicts, NEW stopped \in BOOLEAN,
         UNCHANGED <<workerCli, crowd>>,
         \/ ask' = Replied(p, state, stopped) /\ (workerCli = "codex" /\ stopped => ~ask[p].helpers)
         \/ ask' = [Replied(p, state, stopped) EXCEPT ![p].helpers = FALSE]
  PROVE  WorkerInv'
<1>0. ask \in [Prompts -> AskType] /\ SoundAsk(ask[p]) BY DEF WorkerInv
<1>1. PICK b \in AskType :
        /\ Replied(p, state, stopped) = [ask EXCEPT ![p] = b]
        /\ b.work = "none" /\ ~b.alive /\ b.client # "free"
        /\ b.helpers = ask[p].helpers /\ b.stopped = stopped
  BY AnswerShape
<1>. DEFINE c == [b EXCEPT !.helpers = FALSE]
<1>2. c \in AskType /\ c.work = "none" /\ ~c.alive /\ c.client # "free" /\ ~c.helpers
  BY <1>1 DEF AskType
<1>3. [Replied(p, state, stopped) EXCEPT ![p].helpers = FALSE] = [ask EXCEPT ![p] = c]
  BY <1>0, <1>1
<1>. HIDE DEF c
<1>4. (workerCli = "codex" /\ stopped => ~ask[p].helpers) => SoundAsk(b) BY <1>0, <1>1 DEF SoundAsk, Handling
<1>5. SoundAsk(c) BY <1>2 DEF SoundAsk, Handling
<1>6. CASE ask' = Replied(p, state, stopped) /\ (workerCli = "codex" /\ stopped => ~ask[p].helpers)
  BY <1>1, <1>4, <1>6, OneAsk DEF Handling
<1>7. CASE ask' = [Replied(p, state, stopped) EXCEPT ![p].helpers = FALSE]
  BY <1>2, <1>3, <1>5, <1>7, OneAsk DEF Handling
<1>. QED BY <1>6, <1>7

\* When the reply's deadline is over, so is that of a Codex run, however long the probes took.
LEMMA ReplyDueAfterRun ==
  ASSUME WorkerInv, NEW p \in Prompts, workerCli = "codex", Is(p, "run"), ReplyDue(p)
  PROVE  RunIsDue(p)
<1>1. ask[p] \in AskType /\ SoundAsk(ask[p]) BY DEF WorkerInv
<1>2. ask[p].since \in Nat /\ ask[p].age \in Nat BY <1>1 DEF AskType
<1>3. ask[p].since >= ask[p].age BY <1>1 DEF SoundAsk, Is, Handling
<1>4. RunTimeout(p) \in Nat /\ ReplyMargin \in Nat BY WorkerAssumption DEF RunTimeout
<1>5. ask[p].since >= RunTimeout(p) + ReplyMargin BY DEF ReplyDue, ReplyLimit
<1>6. RunDue(p, ask[p].since - ask[p].age) =
        IF ask[p].since - ask[p].age >= RunTimeout(p) THEN 0 ELSE RunTimeout(p) - (ask[p].since - ask[p].age)
  BY DEF RunDue
<1>7. ask[p].age >= RunDue(p, ask[p].since - ask[p].age) BY <1>2, <1>3, <1>4, <1>5, <1>6
<1>. QED BY <1>7 DEF RunIsDue

LEMMA WorkerInvStep == WorkerInv /\ [SubscriptionNext]_workerVars => WorkerInv'
<1>. SUFFICES ASSUME WorkerInv, [SubscriptionNext]_workerVars PROVE WorkerInv' OBVIOUS
<1>0. workerCli \in {"claude", "codex"} /\ ask \in [Prompts -> AskType]
      /\ \A p \in Prompts : ask[p] \in AskType /\ SoundAsk(ask[p])
  BY DEF WorkerInv
<1>1. ASSUME NEW p \in Prompts, NEW research \in BOOLEAN, Prompt(p, research) PROVE WorkerInv'
  <2>1. ask[p].client = "free" /\ UNCHANGED <<workerCli, crowd>> BY <1>1 DEF Prompt
  <2>2. ask[p].work = "none" /\ ~ask[p].helpers /\ ~ask[p].stopped /\ ~ask[p].alive /\ ask[p].age = 0
    BY <1>0, <2>1 DEF SoundAsk, Handling
  <2>3. ASSUME NEW state \in {"RuntimeFailure", "NotConfigured"}, ask' = [ask EXCEPT ![p].client = state]
        PROVE  WorkerInv'
    <3>. DEFINE a == [ask[p] EXCEPT !.client = state]
    <3>1. a \in AskType /\ a.work = ask[p].work /\ a.alive = ask[p].alive /\ a.helpers = ask[p].helpers
          /\ a.stopped = ask[p].stopped /\ a.client = state /\ a.age = ask[p].age
      BY <1>0 DEF AskType, Verdicts
    <3>2. ask' = [ask EXCEPT ![p] = a] BY <1>0, <2>3
    <3>. HIDE DEF a
    <3>3. SoundAsk(a) BY <2>2, <3>1 DEF SoundAsk, Handling
    <3>. QED BY <2>1, <2>2, <3>1, <3>2, <3>3, OneAsk DEF Handling
  <2>4. CASE /\ SlotsHeld < RunSlots
             /\ ask' = [ask EXCEPT ![p].client = "waiting", ![p].research = research, ![p].work = "reading"]
    <3>. DEFINE a == [[[ask[p] EXCEPT !.client = "waiting"] EXCEPT !.research = research] EXCEPT !.work = "reading"]
    <3>1. a \in AskType /\ a.work = "reading" /\ a.alive = ask[p].alive /\ a.helpers = ask[p].helpers
          /\ a.stopped = ask[p].stopped /\ a.client = "waiting" /\ a.age = ask[p].age
      BY <1>0 DEF AskType
    <3>2. ask' = [ask EXCEPT ![p] = a] BY <1>0, <2>4
    <3>. HIDE DEF a
    <3>5. ReadLimit \in Nat BY WorkerAssumption
    <3>4. 0 <= ReadLimit BY <3>5
    <3>3. SoundAsk(a) BY <2>2, <3>1, <3>4 DEF SoundAsk, Handling
    <3>. QED BY <2>1, <2>2, <2>4, <3>1, <3>2, <3>3, OneAsk DEF Handling
  <2>. QED BY <1>1, <2>3, <2>4 DEF Prompt
<1>2. ASSUME NEW p \in Prompts, ClientTimesOut(p) PROVE WorkerInv'
  <2>. DEFINE a == [ask[p] EXCEPT !.client = "timed out"]
  <2>1. /\ a \in AskType /\ a.work = ask[p].work /\ a.alive = ask[p].alive /\ a.helpers = ask[p].helpers
        /\ a.stopped = ask[p].stopped /\ a.client = "timed out" /\ a.research = ask[p].research
        /\ a.since = ask[p].since /\ a.age = ask[p].age
    BY <1>0 DEF AskType
  <2>2. ask' = [ask EXCEPT ![p] = a] /\ UNCHANGED <<workerCli, crowd>> BY <1>0, <1>2 DEF ClientTimesOut
  <2>. HIDE DEF a
  <2>3. SoundAsk(ask[p]) BY <1>0
  <2>4. SoundAsk(a) BY <2>1, <2>3 DEF SoundAsk
  <2>. QED BY <2>1, <2>2, <2>4, OneAsk
<1>3. ASSUME NEW p \in Prompts, Dismissed(p) PROVE WorkerInv'
  <2>1. NoPrompt \in AskType BY DEF NoPrompt, AskType, Verdicts
  <2>2. SoundAsk(NoPrompt) /\ NoPrompt.work = "none" BY DEF NoPrompt, SoundAsk, Handling
  <2>. QED BY <1>3, <2>1, <2>2, OneAsk DEF Dismissed, Handling
<1>4. ASSUME NEW p \in Prompts, ReadRequest(p) PROVE WorkerInv'
  <2>1. ask[p].work = "reading" /\ UNCHANGED <<workerCli, crowd>> BY <1>4 DEF ReadRequest, Is
  <2>2. CASE ask' = Replied(p, "RuntimeFailure", FALSE)
    <3>1. "RuntimeFailure" \in Verdicts BY DEF Verdicts
    <3>. QED BY BooleanValues, <2>1, <2>2, <3>1, AnswerKeeps
  <2>3. CASE /\ ask[p].research => ResearchSlotFree
             /\ ask' = [ask EXCEPT ![p].work = "version", ![p].age = 0, ![p].alive = TRUE]
    <3>. DEFINE a == [[[ask[p] EXCEPT !.work = "version"] EXCEPT !.age = 0] EXCEPT !.alive = TRUE]
    <3>1. /\ a \in AskType /\ a.work = "version" /\ a.age = 0 /\ a.helpers = ask[p].helpers
          /\ a.stopped = ask[p].stopped /\ a.client = ask[p].client /\ a.research = ask[p].research
          /\ a.since \in Nat
      BY <1>0 DEF AskType, Handling
    <3>2. ask' = [ask EXCEPT ![p] = a] BY <1>0, <2>3
    <3>. HIDE DEF a
    <3>3. SoundAsk(ask[p]) BY <1>0
    <3>4. SoundAsk(a) BY <2>1, <3>1, <3>3 DEF SoundAsk, Handling
    <3>. QED BY <2>1, <2>3, <3>1, <3>2, <3>4, OneAsk
  <2>. QED BY <1>4, <2>2, <2>3 DEF ReadRequest
<1>5. ASSUME NEW p \in Prompts, NEW work \in {"login", "run"}, ask[p].work \in {"version", "login"},
             ask' = [ask EXCEPT ![p].work = work, ![p].age = 0], UNCHANGED <<workerCli, crowd>>
      PROVE  WorkerInv'
  <2>. DEFINE a == [[ask[p] EXCEPT !.work = work] EXCEPT !.age = 0]
  <2>1. /\ a \in AskType /\ a.work = work /\ a.age = 0 /\ a.helpers = ask[p].helpers
        /\ a.stopped = ask[p].stopped /\ a.client = ask[p].client /\ a.research = ask[p].research
        /\ a.since \in Nat
    BY <1>0 DEF AskType, Handling
  <2>2. ask' = [ask EXCEPT ![p] = a] BY <1>0, <1>5
  <2>. HIDE DEF a
  <2>3. SoundAsk(ask[p]) BY <1>0
  <2>4. SoundAsk(a) BY <1>5, <2>1, <2>3 DEF SoundAsk, Handling
  <2>. QED BY <1>5, <2>1, <2>2, <2>4, OneAsk DEF Handling
<1>6. ASSUME NEW p \in Prompts, NEW state \in Verdicts, ask' = Replied(p, state, FALSE), UNCHANGED <<workerCli, crowd>>
      PROVE  WorkerInv'
  BY BooleanValues, <1>6, AnswerKeeps
<1>7. ASSUME NEW p \in Prompts, ProbeVersion(p) PROVE WorkerInv'
  <2>1. "IncompatibleRuntime" \in Verdicts BY DEF Verdicts
  <2>. QED BY <1>5, <1>6, <1>7, <2>1 DEF ProbeVersion, Is
<1>8. ASSUME NEW p \in Prompts, ProbeLogin(p) PROVE WorkerInv'
  <2>1. "SubscriptionUnavailable" \in Verdicts BY DEF Verdicts
  <2>. QED BY <1>5, <1>6, <1>8, <2>1 DEF ProbeLogin, Is
<1>10. ASSUME NEW p \in Prompts, CliSpawns(p) PROVE WorkerInv'
  <2>. DEFINE a == [ask[p] EXCEPT !.helpers = TRUE]
  <2>1. /\ a \in AskType /\ a.work = ask[p].work /\ a.alive = ask[p].alive
        /\ a.stopped = ask[p].stopped /\ a.client = ask[p].client /\ a.research = ask[p].research
        /\ a.since = ask[p].since /\ a.age = ask[p].age
    BY <1>0 DEF AskType
  <2>2. ask' = [ask EXCEPT ![p] = a] /\ UNCHANGED <<workerCli, crowd>> /\ ask[p].work = "run"
    BY <1>0, <1>10 DEF CliSpawns, Runs, Is
  <2>. HIDE DEF a
  <2>3. SoundAsk(ask[p]) BY <1>0
  <2>4. SoundAsk(a) BY <2>1, <2>2, <2>3 DEF SoundAsk, Handling
  <2>. QED BY <2>1, <2>2, <2>4, OneAsk
<1>11. ASSUME NEW p \in Prompts, HelperEnds(p) PROVE WorkerInv'
  <2>. DEFINE a == [ask[p] EXCEPT !.helpers = FALSE]
  <2>1. /\ a \in AskType /\ a.work = ask[p].work /\ a.alive = ask[p].alive /\ ~a.helpers
        /\ a.stopped = ask[p].stopped /\ a.client = ask[p].client /\ a.research = ask[p].research
        /\ a.since = ask[p].since /\ a.age = ask[p].age
    BY <1>0 DEF AskType
  <2>2. ask' = [ask EXCEPT ![p] = a] /\ UNCHANGED <<workerCli, crowd>> BY <1>0, <1>11 DEF HelperEnds
  <2>. HIDE DEF a
  <2>3. SoundAsk(ask[p]) BY <1>0
  <2>4. SoundAsk(a) BY <2>1, <2>3 DEF SoundAsk
  <2>. QED BY <2>1, <2>2, <2>4, OneAsk
<1>12. ASSUME NEW p \in Prompts, CodexRefused(p) PROVE WorkerInv'
  <2>1. "ToolUseRefused" \in Verdicts BY DEF Verdicts
  <2>2. ask' = [Replied(p, "ToolUseRefused", TRUE) EXCEPT ![p].helpers = FALSE] /\ UNCHANGED <<workerCli, crowd>>
    BY <1>12 DEF CodexRefused, StopGroup
  <2>. QED BY BooleanValues, <2>1, <2>2, AnswerKeeps
<1>13. ASSUME NEW p \in Prompts, ClaudeExits(p) \/ CodexExits(p) PROVE WorkerInv'
  <2>1. PICK state \in Verdicts : ask' = [ask EXCEPT ![p].alive = FALSE, ![p].state = state]
    <3>1. CodexErrors \subseteq Verdicts /\ "RuntimeFailure" \in Verdicts /\ "Completed" \in Verdicts
      BY DEF CodexErrors, Verdicts
    <3>2. \A ok, dn, answer \in BOOLEAN, error \in CodexErrors : Finish(ok, dn, answer, error) \in Verdicts
      BY <3>1 DEF Finish
    <3>3. ClaudeStates \subseteq Verdicts BY DEF Verdicts, ClaudeStates
    <3>. QED BY <1>13, <3>2, <3>3 DEF ClaudeExits, CodexExits
  <2>. DEFINE a == [[ask[p] EXCEPT !.alive = FALSE] EXCEPT !.state = state]
  <2>2. /\ a \in AskType /\ a.work = ask[p].work /\ ~a.alive /\ a.helpers = ask[p].helpers
        /\ a.stopped = ask[p].stopped /\ a.client = ask[p].client /\ a.research = ask[p].research
        /\ a.since = ask[p].since /\ a.age = ask[p].age
    BY <1>0 DEF AskType
  <2>3. ask' = [ask EXCEPT ![p] = a] /\ UNCHANGED <<workerCli, crowd>> BY <1>0, <1>13, <2>1 DEF ClaudeExits, CodexExits
  <2>. HIDE DEF a
  <2>4. SoundAsk(ask[p]) BY <1>0
  <2>5. SoundAsk(a) BY <2>2, <2>4 DEF SoundAsk
  <2>. QED BY <2>2, <2>3, <2>5, OneAsk
<1>14. ASSUME NEW p \in Prompts, RunFinishes(p) PROVE WorkerInv'
  <2>1. ask[p].state \in Verdicts BY <1>0 DEF AskType
  <2>. QED BY <1>6, <1>14, <2>1 DEF RunFinishes
<1>15. ASSUME NEW p \in Prompts, RunTimesOut(p) PROVE WorkerInv'
  <2>1. "RuntimeFailure" \in Verdicts /\ UNCHANGED <<workerCli, crowd>> BY <1>15 DEF Verdicts, RunTimesOut
  <2>2. CASE workerCli = "codex"
    <3>1. ask' = [Replied(p, "RuntimeFailure", TRUE) EXCEPT ![p].helpers = FALSE]
      BY <1>15, <2>2 DEF RunTimesOut, StopGroup
    <3>. QED BY BooleanValues, <2>1, <3>1, AnswerKeeps
  <2>3. CASE workerCli # "codex"
    <3>1. ask' = Replied(p, "RuntimeFailure", TRUE) BY <1>15, <2>3 DEF RunTimesOut
    <3>. QED BY BooleanValues, <2>1, <2>3, <3>1, AnswerKeeps
  <2>. QED BY <2>2, <2>3
<1>16. ASSUME NEW p \in Prompts, ReplyDeadline(p) PROVE WorkerInv'
  <2>1. ask[p].work \in Handling BY <1>16 DEF ReplyDeadline, ReplyDue
  <2>2. workerCli = "codex" => ~ask[p].helpers
    <3>1. ASSUME workerCli = "codex", ask[p].helpers PROVE FALSE
      <4>1. workerCli = "codex" /\ Is(p, "run") BY <1>0, <2>1, <3>1 DEF SoundAsk, Handling, Is
      <4>. QED BY <1>16, <4>1, ReplyDueAfterRun DEF ReplyDeadline
    <3>. QED BY <3>1
  <2>3. "RuntimeFailure" \in Verdicts BY DEF Verdicts
  <2>4. ask' = Replied(p, "RuntimeFailure", TRUE) /\ UNCHANGED <<workerCli, crowd>> BY <1>16 DEF ReplyDeadline
  <2>. QED BY BooleanValues, <2>2, <2>3, <2>4, AnswerKeeps
<1>17. CASE OtherChat
  <2>1. UNCHANGED <<workerCli, ask>> /\ crowd' = ~crowd /\ (crowd \/ SlotsHeld < RunSlots)
    BY <1>17 DEF OtherChat
  <2>2. UNCHANGED Busy /\ UNCHANGED Researching BY <2>1 DEF Busy, Researching
  <2>3. IsFiniteSet(Busy) /\ Cardinality(Busy) \in Nat /\ SlotsHeld <= RunSlots
    BY FS_CardinalityType DEF WorkerInv, SlotsInv
  <2>4. SlotsHeld' <= RunSlots
    <3>1. CASE crowd BY <2>1, <2>2, <2>3, <3>1, SlotCounts DEF SlotsHeld
    <3>2. CASE ~crowd BY <2>1, <2>2, <2>3, <3>2, SlotCounts DEF SlotsHeld
    <3>. QED BY <3>1, <3>2
  <2>5. crowd' \in BOOLEAN BY <2>1, Zenon
  <2>6. SlotsInv' BY <2>2, <2>3, <2>4, <2>5 DEF WorkerInv, SlotsInv
  <2>. QED BY <2>1, <2>6 DEF WorkerInv, SoundAsk
<1>18. CASE UNCHANGED workerVars
  <2>1. UNCHANGED <<workerCli, ask, crowd>> BY <1>18 DEF workerVars
  <2>2. UNCHANGED Busy /\ UNCHANGED Researching BY <2>1 DEF Busy, Researching
  <2>3. SlotsInv' BY <2>1, <2>2, FewerSlots DEF WorkerInv
  <2>. QED BY <2>1, <2>3 DEF WorkerInv, SoundAsk
<1>19. CASE WorkerStops
  <2>1. crowd' = FALSE /\ UNCHANGED workerCli BY <1>19 DEF WorkerStops
  <2>2. ASSUME NEW p \in Prompts
        PROVE  /\ ask'[p] \in AskType /\ ask'[p].work = "none" /\ SoundAsk(ask'[p])
    <3>1. CASE Is(p, "none")
      <4>. DEFINE a == [ask[p] EXCEPT !.helpers = FALSE]
      <4>1. /\ a \in AskType /\ a.work = ask[p].work /\ a.alive = ask[p].alive /\ ~a.helpers
            /\ a.stopped = ask[p].stopped /\ a.client = ask[p].client /\ a.age = ask[p].age
        BY <1>0 DEF AskType
      <4>2. ask'[p] = a BY <1>19, <3>1 DEF WorkerStops
      <4>. HIDE DEF a
      <4>3. SoundAsk(ask[p]) /\ ask[p].work = "none" BY <1>0, <3>1 DEF Is
      <4>4. SoundAsk(a) BY <4>1, <4>3 DEF SoundAsk, Handling
      <4>. QED BY <4>1, <4>2, <4>3, <4>4
    <3>2. CASE ~Is(p, "none")
      <4>1. "RuntimeFailure" \in Verdicts BY DEF Verdicts
      <4>2. PICK b \in AskType :
              /\ Replied(p, "RuntimeFailure", TRUE) = [ask EXCEPT ![p] = b]
              /\ b.work = "none" /\ ~b.alive /\ b.client # "free"
        BY <4>1, AnswerShape, BooleanValues
      <4>3. Replied(p, "RuntimeFailure", TRUE)[p] = b BY <1>0, <4>2
      <4>. DEFINE c == [b EXCEPT !.helpers = FALSE]
      <4>4. ask'[p] = c BY <1>19, <3>2, <4>3 DEF WorkerStops
      <4>5. c \in AskType /\ c.work = "none" /\ ~c.alive /\ c.client # "free" /\ ~c.helpers
        BY <4>2 DEF AskType
      <4>. HIDE DEF c
      <4>6. SoundAsk(c) BY <4>5 DEF SoundAsk, Handling
      <4>. QED BY <4>4, <4>5, <4>6
    <3>. QED BY <3>1, <3>2
  <2>3. ask' \in [Prompts -> AskType]
    <3>1. ask' = [p \in Prompts |-> ask'[p]] BY <1>19 DEF WorkerStops
    <3>. QED BY <2>2, <3>1
  <2>4. Busy' \subseteq Busy /\ Researching' \subseteq Researching BY <2>2 DEF Busy, Researching, Handling
  <2>5. SlotsInv' BY <2>1, <2>4, FewerSlots DEF WorkerInv
  <2>6. \A p \in Prompts : SoundAsk(ask[p])' BY <2>1, <2>2 DEF SoundAsk
  <2>. QED BY <1>0, <2>1, <2>3, <2>5, <2>6 DEF WorkerInv
<1>20. CASE WorkerTick
  <2>1. UNCHANGED <<workerCli, crowd>> BY <1>20 DEF WorkerTick
  <2>2. ASSUME NEW p \in Prompts
        PROVE  /\ ask'[p] \in AskType /\ SoundAsk(ask'[p])
               /\ ask'[p].work = ask[p].work /\ ask'[p].research = ask[p].research
    <3>. DEFINE w == IF ask[p].client = "waiting" THEN ask[p].wait + 1 ELSE ask[p].wait
                g == IF p \in Busy THEN ask[p].age + 1 ELSE ask[p].age
                n == IF ask[p].work \in Handling THEN ask[p].since + 1 ELSE ask[p].since
                a == [[[ask[p] EXCEPT !.wait = w] EXCEPT !.age = g] EXCEPT !.since = n]
    <3>1. ask[p].wait \in Nat /\ ask[p].age \in Nat /\ ask[p].since \in Nat BY <1>0 DEF AskType
    <3>2. w \in Nat /\ g \in Nat /\ n \in Nat BY <3>1
    <3>3. ask'[p] = a
      <4>1. ask'[p] = [ask[p] EXCEPT !.wait = w, !.age = g, !.since = n] BY <1>20 DEF WorkerTick
      <4>. HIDE DEF w, g, n
      <4>. QED BY <1>0, <4>1 DEF AskType
    <3>4. SoundAsk(ask[p]) BY <1>0
    <3>5. ask[p].work \in Handling => g = ask[p].age + 1 /\ n = ask[p].since + 1 BY DEF Busy
    <3>9. ask[p].work = "reading" => g <= ReadLimit
      <4>1. ask[p].work = "reading" => ~(ask[p].age >= ReadLimit) BY <1>20 DEF WorkerTick, Due, ReadDue, Is
      <4>2. ReadLimit \in Nat BY WorkerAssumption
      <4>. QED BY <3>1, <4>1, <4>2
    <3>10. ask[p].client = "free" => g = ask[p].age BY <3>4 DEF SoundAsk, Busy, Handling
    <3>6. ask[p].work \in Handling => n >= g BY <3>1, <3>4, <3>5 DEF SoundAsk
    <3>. HIDE DEF w, g, n
    <3>7. /\ a \in AskType /\ a.work = ask[p].work /\ a.alive = ask[p].alive /\ a.helpers = ask[p].helpers
          /\ a.stopped = ask[p].stopped /\ a.client = ask[p].client /\ a.research = ask[p].research
          /\ a.age = g /\ a.since = n
      BY <1>0, <3>2 DEF AskType
    <3>. HIDE DEF a
    <3>8. SoundAsk(a) BY <3>4, <3>6, <3>7, <3>9, <3>10 DEF SoundAsk
    <3>. QED BY <3>3, <3>7, <3>8
  <2>3. ask' \in [Prompts -> AskType]
    <3>1. ask' = [p \in Prompts |-> ask'[p]] BY <1>20 DEF WorkerTick
    <3>. QED BY <2>2, <3>1
  <2>4. Busy' \subseteq Busy /\ Researching' \subseteq Researching BY <2>2 DEF Busy, Researching
  <2>5. SlotsInv' BY <2>1, <2>4, FewerSlots DEF WorkerInv
  <2>6. \A p \in Prompts : SoundAsk(ask[p])' BY <2>1, <2>2 DEF SoundAsk
  <2>. QED BY <1>0, <2>1, <2>3, <2>5, <2>6 DEF WorkerInv
<1>. QED BY <1>1, <1>2, <1>3, <1>4, <1>7, <1>8, <1>10, <1>11, <1>12, <1>13, <1>14, <1>15, <1>16,
            <1>17, <1>18, <1>19, <1>20
         DEF SubscriptionNext, PromptStep

\* Whatever the probes take, however runs are refused or time out and whatever clients give
\* up on: a request that has ended has left no CLI behind and a stopped Codex run nothing the
\* CLI started, the slots and the research runs are bounded, and a request that is being read
\* has its slot for its read limit at most (kill_on_drop, stop_group, handle,
\* MAX_PARALLEL_RUNS, research_slot, REQUEST_READ_TIMEOUT).
THEOREM RunsAreContainedAlways == SubscriptionSpec => []RunsAreContained
<1>1. WorkerInit => WorkerInv
  <2>. SUFFICES ASSUME WorkerInit PROVE WorkerInv OBVIOUS
  <2>1. NoPrompt \in AskType BY DEF NoPrompt, AskType, Verdicts
  <2>2. SoundAsk(NoPrompt) /\ NoPrompt.work = "none" BY DEF NoPrompt, SoundAsk, Handling
  <2>3. ask = [p \in Prompts |-> NoPrompt] /\ crowd = FALSE /\ workerCli \in {"claude", "codex"} BY DEF WorkerInit
  <2>4. Busy = {} /\ Researching = {} BY <2>2, <2>3 DEF Busy, Researching, Handling
  <2>5. SlotsInv
    <3>1. crowd \in BOOLEAN BY <2>3, Zenon
    <3>2. IsFiniteSet(Busy) /\ Cardinality(Busy) = 0 /\ Cardinality(Researching) = 0 BY <2>4, FS_EmptySet
    <3>3. SlotsHeld <= RunSlots BY <2>3, <3>2, SlotCounts DEF SlotsHeld
    <3>. QED BY <3>1, <3>2, <3>3, SlotCounts DEF SlotsInv
  <2>. QED BY <2>1, <2>2, <2>3, <2>5 DEF WorkerInv
<1>2. WorkerInv => RunsAreContained
  BY DEF WorkerInv, SlotsInv, SoundAsk, RunsAreContained, StoppedIsGone, ResearchIsBounded, Is
<1>. QED BY <1>1, <1>2, WorkerInvStep, PTL DEF SubscriptionSpec

-----------------------------------------------------------------------------
(* The rate limiter.                                                        *)

LEMMA LimitConstants ==
  /\ TrackedKeys \in Nat \ {0} /\ LockWindow \in Nat \ {0} /\ PerWindow \in Nat \ {0} /\ MaxFailures \in Nat \ {0}
  /\ MaxDelay \in Nat \ {0} /\ MaxPassed \in Nat \ {0} /\ InFlight \in Nat /\ FreeGuesses \in Nat
  /\ MaxDoublings \in Nat /\ Memory \in Nat /\ Ceiling \in Nat \ {0}
BY LimitAssumption DEF Ceiling

\* A full table lets one key go for each it takes in.
TableOK(t) == IsFiniteSet(DOMAIN t) /\ Cardinality(DOMAIN t) <= TrackedKeys

\* Refused logins of one window and those still to be answered; those of a window
\* that is over count for nothing any more.
FailureOK(w, s) ==
  /\ s \in Sources /\ w.n \in Nat /\ w.start \in Nat
  /\ w.n <= MaxFailures - 1 + InFlight
  /\ now - w.start < LockWindow => w.n + flying[s] <= MaxFailures - 1 + InFlight

\* Requests of a device past the back-off.
Unanswered(d) == passed[d] + checking[d]

\* Wrong passwords up to the last one, and with the requests past the back-off if it came
\* just now.
GuessOK(g, d) ==
  /\ d \in Keyholders /\ g.n \in Nat /\ g.last \in Nat /\ g.last <= now
  /\ g.n <= FreeGuesses + MaxPassed * (g.last + 1)
  /\ g.last = now => g.n <= FreeGuesses \/ g.n + Unanswered(d) <= FreeGuesses + MaxPassed * (now + 1)

LimitInv ==
  /\ now \in Nat /\ flying \in [Sources -> 0..InFlight]
  /\ passed \in [Keyholders -> Nat] /\ checking \in [Keyholders -> Nat]
  /\ \A d \in Keyholders : Unanswered(d) \in 0..MaxPassed
  /\ TableOK(hits) /\ TableOK(failures)
  /\ \A s \in DOMAIN failures : FailureOK(failures[s], s)
  /\ \A d \in DOMAIN guesses : GuessOK(guesses[d], d)

LEMMA EvictedShape ==
  ASSUME NEW t, TableOK(t), NEW key, NEW window, NEW u \in Evicted(t, key, window)
  PROVE  /\ DOMAIN u \subseteq DOMAIN t /\ \A k \in DOMAIN u : u[k] = t[k]
         /\ TableOK(u) /\ (key \in DOMAIN u \/ Cardinality(DOMAIN u) < TrackedKeys)
<1>. DEFINE full(v) == Cardinality(DOMAIN v) >= TrackedKeys /\ key \notin DOMAIN v
            fresh == Only(t, {k \in DOMAIN t : now - t[k].start < window})
            oldest == {k \in DOMAIN fresh : \A o \in DOMAIN fresh : fresh[k].start <= fresh[o].start}
<1>0. IsFiniteSet(DOMAIN t) /\ Cardinality(DOMAIN t) \in Nat /\ Cardinality(DOMAIN t) <= TrackedKeys /\ TrackedKeys \in Nat
  BY FS_CardinalityType, LimitConstants DEF TableOK
<1>1. u \in IF ~full(t) THEN {t} ELSE IF ~full(fresh) THEN {fresh}
            ELSE {Only(fresh, DOMAIN fresh \ {k}) : k \in oldest}
  BY DEF Evicted
<1>2. DOMAIN fresh \subseteq DOMAIN t /\ \A k \in DOMAIN fresh : fresh[k] = t[k] BY DEF Only
<1>3. /\ IsFiniteSet(DOMAIN fresh) /\ Cardinality(DOMAIN fresh) \in Nat
      /\ Cardinality(DOMAIN fresh) <= Cardinality(DOMAIN t)
  BY <1>0, <1>2, FS_Subset, FS_CardinalityType
<1>4. CASE u = t /\ ~full(t) BY <1>0, <1>4 DEF TableOK
<1>5. CASE u = fresh /\ ~full(fresh) BY <1>0, <1>2, <1>3, <1>5 DEF TableOK
<1>6. ASSUME NEW k \in oldest, u = Only(fresh, DOMAIN fresh \ {k})
      PROVE  /\ DOMAIN u \subseteq DOMAIN t /\ \A e \in DOMAIN u : u[e] = t[e]
             /\ TableOK(u) /\ Cardinality(DOMAIN u) < TrackedKeys
  <2>1. DOMAIN u = DOMAIN fresh \ {k} /\ \A e \in DOMAIN u : u[e] = fresh[e] BY <1>6 DEF Only
  <2>2. IsFiniteSet(DOMAIN u) /\ Cardinality(DOMAIN u) = Cardinality(DOMAIN fresh) - 1
    BY <1>3, <2>1, FS_RemoveElement
  <2>3. Cardinality(DOMAIN u) < TrackedKeys BY <1>0, <1>3, <2>2
  <2>4. Cardinality(DOMAIN u) <= TrackedKeys BY <1>0, <1>3, <2>2
  <2>. QED BY <1>2, <2>1, <2>2, <2>3, <2>4 DEF TableOK
<1>. QED BY <1>1, <1>4, <1>5, <1>6

LEMMA CountedShape ==
  ASSUME NEW t, TableOK(t), NEW key, NEW window, NEW u \in Counted(t, key, window)
  PROVE  /\ TableOK(u) /\ key \in DOMAIN u
         /\ \A k \in DOMAIN u \ {key} : k \in DOMAIN t /\ u[k] = t[k]
         /\ \/ /\ key \in DOMAIN t /\ now - t[key].start < window /\ u[key].start = t[key].start
               /\ u[key].n = IF t[key].n < Ceiling THEN t[key].n + 1 ELSE t[key].n
            \/ u[key].start = now /\ u[key].n = 1
<1>1. PICK v \in Evicted(t, key, window) :
        LET kept == key \in DOMAIN v /\ now - v[key].start < window
            n == IF kept THEN v[key].n ELSE 0 IN
        u = Put(v, key, [start |-> IF kept THEN v[key].start ELSE now, n |-> IF n < Ceiling THEN n + 1 ELSE n])
  BY DEF Counted
<1>2. /\ DOMAIN v \subseteq DOMAIN t /\ \A k \in DOMAIN v : v[k] = t[k]
      /\ TableOK(v) /\ (key \in DOMAIN v \/ Cardinality(DOMAIN v) < TrackedKeys)
  BY EvictedShape
<1>3. DOMAIN u = DOMAIN v \cup {key} /\ \A k \in DOMAIN v \ {key} : u[k] = v[k] BY <1>1 DEF Put
<1>4. TableOK(u)
  <2>1. /\ IsFiniteSet(DOMAIN v) /\ Cardinality(DOMAIN v) \in Nat /\ Cardinality(DOMAIN v) <= TrackedKeys
        /\ TrackedKeys \in Nat
    BY <1>2, FS_CardinalityType, LimitConstants DEF TableOK
  <2>2. /\ IsFiniteSet(DOMAIN u)
        /\ Cardinality(DOMAIN u) = IF key \in DOMAIN v THEN Cardinality(DOMAIN v) ELSE Cardinality(DOMAIN v) + 1
    BY <1>3, <2>1, FS_AddElement
  <2>. QED BY <1>2, <2>1, <2>2 DEF TableOK
<1>5. CASE key \in DOMAIN v /\ now - v[key].start < window BY <1>1, <1>2, <1>3, <1>4, <1>5 DEF Put
<1>6. CASE ~(key \in DOMAIN v /\ now - v[key].start < window)
  BY <1>1, <1>2, <1>3, <1>4, <1>6, LimitConstants DEF Put
<1>. QED BY <1>5, <1>6

\* Past the free failures there is always something to wait for.
LEMMA DelayIsPositive ==
  ASSUME NEW n \in Nat, n > FreeGuesses
  PROVE  PasswordDelay(n) \in Nat \ {0}
<1>1. PICK k : k = (IF n - FreeGuesses - 1 < MaxDoublings THEN n - FreeGuesses - 1 ELSE MaxDoublings) OBVIOUS
<1>2. k \in 0..MaxDoublings BY <1>1, LimitConstants
<1>3. PICK d \in Nat \ {0} : d = 2 ^ k BY <1>2, DoublingAssumption
<1>4. PasswordDelay(n) = IF d < MaxDelay THEN d ELSE MaxDelay BY <1>1, <1>3, LimitConstants DEF PasswordDelay
<1>. QED BY <1>3, <1>4, LimitConstants

LEMMA LoginArrivesStep ==
  ASSUME LimitInv, NEW s \in Sources, LoginArrives(s)
  PROVE  LimitInv'
<1>0. /\ now \in Nat /\ flying \in [Sources -> 0..InFlight] /\ TableOK(hits) /\ TableOK(failures)
      /\ \A o \in DOMAIN failures : FailureOK(failures[o], o)
  BY DEF LimitInv
<1>1. /\ flying[s] < InFlight /\ UNCHANGED <<now, failures, guesses, passed, checking>>
      /\ \E t \in Counted(hits, s, Window) : hits' = t
      /\ flying' = flying \/ (FailuresInWindow(s) < MaxFailures /\ flying' = [flying EXCEPT ![s] = @ + 1])
  BY DEF LoginArrives, checkVars
<1>2. TableOK(hits)' BY <1>0, <1>1, CountedShape DEF TableOK
<1>3. flying' \in [Sources -> 0..InFlight] BY <1>0, <1>1, LimitConstants
<1>4. ASSUME NEW o \in DOMAIN failures PROVE FailureOK(failures[o], o)'
  <2>1. FailureOK(failures[o], o) BY <1>0
  <2>2. CASE flying'[o] = flying[o] BY <1>1, <2>1, <2>2 DEF FailureOK
  <2>3. CASE o = s /\ FailuresInWindow(s) < MaxFailures /\ flying'[s] = flying[s] + 1
    <3>1. now - failures[s].start < LockWindow => failures[s].n < MaxFailures BY <2>3 DEF FailuresInWindow
    <3>2. flying[s] \in Nat BY <1>0, LimitConstants
    <3>. QED BY <1>1, <2>1, <2>3, <3>1, <3>2, LimitConstants DEF FailureOK
  <2>. QED BY <1>0, <1>1, <2>1, <2>2, <2>3 DEF FailureOK
<1>. QED BY <1>0, <1>1, <1>2, <1>3, <1>4 DEF LimitInv, TableOK, GuessOK, Unanswered

LEMMA LoginAnsweredStep ==
  ASSUME LimitInv, NEW s \in Sources, NEW status, LoginAnswered(s, status)
  PROVE  LimitInv'
<1>0. /\ now \in Nat /\ flying \in [Sources -> 0..InFlight] /\ TableOK(failures)
      /\ \A o \in DOMAIN failures : FailureOK(failures[o], o)
  BY DEF LimitInv
<1>1. /\ flying[s] > 0 /\ flying' = [flying EXCEPT ![s] = @ - 1] /\ UNCHANGED <<now, hits, guesses, passed, checking>>
      /\ \/ failures' \in Counted(failures, s, LockWindow)
         \/ failures' = Only(failures, DOMAIN failures \ {s})
         \/ failures' = failures
  BY DEF LoginAnswered, checkVars
<1>2. /\ flying' \in [Sources -> 0..InFlight] /\ flying[s] \in Nat /\ flying'[s] = flying[s] - 1
      /\ \A o \in Sources : o # s => flying'[o] = flying[o]
  BY <1>0, <1>1, LimitConstants
<1>3. ASSUME NEW o \in DOMAIN failures, o \in DOMAIN failures', failures'[o] = failures[o]
      PROVE  FailureOK(failures[o], o)'
  <2>1. FailureOK(failures[o], o) BY <1>0
  <2>2. flying'[o] <= flying[o] /\ flying'[o] \in Nat /\ flying[o] \in Nat BY <1>0, <1>2, <2>1, LimitConstants DEF FailureOK
  <2>. QED BY <1>0, <1>1, <1>3, <2>1, <2>2, LimitConstants DEF FailureOK
<1>4. TableOK(failures)' /\ \A o \in DOMAIN failures' : FailureOK(failures[o], o)'
  <2>1. CASE failures' \in Counted(failures, s, LockWindow)
    <3>1. PICK u \in Counted(failures, s, LockWindow) : u = failures' BY <2>1
    <3>2. /\ TableOK(u) /\ s \in DOMAIN u
          /\ \A k \in DOMAIN u \ {s} : k \in DOMAIN failures /\ u[k] = failures[k]
          /\ \/ /\ s \in DOMAIN failures /\ now - failures[s].start < LockWindow /\ u[s].start = failures[s].start
                /\ u[s].n = IF failures[s].n < Ceiling THEN failures[s].n + 1 ELSE failures[s].n
             \/ u[s].start = now /\ u[s].n = 1
      BY <1>0, CountedShape
    <3>3. FailureOK(failures[s], s)'
      <4>1. CASE /\ s \in DOMAIN failures /\ now - failures[s].start < LockWindow /\ u[s].start = failures[s].start
                 /\ u[s].n = IF failures[s].n < Ceiling THEN failures[s].n + 1 ELSE failures[s].n
        <5>1. FailureOK(failures[s], s) BY <1>0, <4>1
        <5>2. u[s].n \in Nat /\ u[s].n <= failures[s].n + 1 BY <4>1, <5>1, LimitConstants DEF FailureOK
        <5>3. u[s].n + flying'[s] <= MaxFailures - 1 + InFlight
          BY <1>1, <1>2, <4>1, <5>1, <5>2, LimitConstants DEF FailureOK
        <5>4. u[s].n <= MaxFailures - 1 + InFlight BY <1>1, <1>2, <5>2, <5>3, LimitConstants
        <5>. QED BY <3>1, <4>1, <5>1, <5>2, <5>3, <5>4 DEF FailureOK
      <4>2. CASE u[s].start = now /\ u[s].n = 1
        <5>1. flying'[s] + 1 <= InFlight BY <1>0, <1>1, <1>2, LimitConstants
        <5>2. u[s].n + flying'[s] <= MaxFailures - 1 + InFlight BY <1>1, <1>2, <4>2, <5>1, LimitConstants
        <5>3. u[s].n <= MaxFailures - 1 + InFlight BY <1>1, <1>2, <4>2, <5>1, LimitConstants
        <5>. QED BY <1>0, <3>1, <4>2, <5>2, <5>3 DEF FailureOK
      <4>. QED BY <3>2, <4>1, <4>2
    <3>4. ASSUME NEW o \in DOMAIN failures', o # s PROVE FailureOK(failures[o], o)'
      BY <1>3, <3>1, <3>2, <3>4
    <3>5. TableOK(failures)' BY <3>1, <3>2 DEF TableOK
    <3>. QED BY <3>3, <3>4, <3>5
  <2>2. CASE failures' = Only(failures, DOMAIN failures \ {s})
    <3>1. DOMAIN failures' = DOMAIN failures \ {s} /\ \A o \in DOMAIN failures' : failures'[o] = failures[o]
      BY <2>2 DEF Only
    <3>2. TableOK(failures)'
      <4>1. IsFiniteSet(DOMAIN failures) /\ Cardinality(DOMAIN failures) \in Nat
        BY <1>0, FS_CardinalityType DEF TableOK
      <4>2. /\ IsFiniteSet(DOMAIN failures') /\ Cardinality(DOMAIN failures') \in Nat
            /\ Cardinality(DOMAIN failures') <= Cardinality(DOMAIN failures)
        BY <3>1, <4>1, FS_Subset, FS_CardinalityType
      <4>. QED BY <1>0, <4>1, <4>2, LimitConstants DEF TableOK
    <3>. QED BY <1>3, <3>1, <3>2
  <2>3. CASE failures' = failures
    BY <1>0, <1>3, <2>3 DEF TableOK
  <2>. QED BY <1>1, <2>1, <2>2, <2>3
<1>. QED BY <1>0, <1>1, <1>2, <1>4 DEF LimitInv, TableOK, GuessOK, Unanswered

\* The guesses a device may have made by now.
LEMMA GuessBound ==
  ASSUME LimitInv, NEW d \in DOMAIN guesses
  PROVE  /\ GuessOK(guesses[d], d) /\ MaxPassed * (now + 1) \in Nat /\ MaxPassed <= MaxPassed * (now + 1)
         /\ guesses[d].n <= FreeGuesses + MaxPassed * (now + 1)
         /\ guesses[d].n + Unanswered(d) <= FreeGuesses + MaxPassed * (now + 1)
<1>0. GuessOK(guesses[d], d) /\ now \in Nat /\ \A e \in Keyholders : Unanswered(e) \in 0..MaxPassed BY DEF LimitInv
<1>1. PICK g : g = guesses[d] OBVIOUS
<1>2. g.n \in Nat /\ g.last \in Nat /\ g.last <= now /\ Unanswered(d) \in 0..MaxPassed BY <1>0, <1>1 DEF GuessOK
<1>3. MaxPassed * (now + 1) \in Nat /\ MaxPassed * (now + 1) = MaxPassed * now + MaxPassed /\ MaxPassed * now \in Nat
  BY <1>0, LimitConstants
<1>4. MaxPassed <= MaxPassed * (now + 1) BY <1>3, LimitConstants
<1>5. CASE g.last = now
  <2>1. g.n <= FreeGuesses \/ g.n + Unanswered(d) <= FreeGuesses + MaxPassed * (now + 1) BY <1>0, <1>1, <1>5 DEF GuessOK
  <2>2. g.n + Unanswered(d) <= FreeGuesses + MaxPassed * (now + 1) BY <1>2, <1>3, <1>4, <2>1, LimitConstants
  <2>. QED BY <1>0, <1>1, <1>2, <1>3, <1>4, <2>2, LimitConstants
<1>6. CASE g.last < now
  <2>1. g.n <= FreeGuesses + MaxPassed * (g.last + 1) BY <1>0, <1>1 DEF GuessOK
  <2>2. PICK k \in Nat : now = g.last + 1 + k
    <3>1. now - g.last - 1 \in Nat /\ now = g.last + 1 + (now - g.last - 1) BY <1>0, <1>2, <1>6
    <3>. QED BY <3>1
  <2>3. MaxPassed * now = MaxPassed * (g.last + 1) + MaxPassed * k /\ MaxPassed * k \in Nat /\ MaxPassed * (g.last + 1) \in Nat
    BY <1>2, <2>2, LimitConstants
  <2>4. g.n <= FreeGuesses + MaxPassed * now BY <1>2, <1>3, <2>1, <2>3, LimitConstants
  <2>. QED BY <1>0, <1>1, <1>2, <1>3, <1>4, <2>4, LimitConstants
<1>. QED BY <1>0, <1>2, <1>5, <1>6

\* What leaves the failures noted alone and lets no request more past the back-off keeps
\* the bound: a permit is taken, a request ends unchecked, its caller leaves, or another
\* password is hashed.
LEMMA QuietStep ==
  ASSUME LimitInv, passed' \in [Keyholders -> Nat], checking' \in [Keyholders -> Nat],
         \A d \in Keyholders : Unanswered(d)' <= Unanswered(d),
         UNCHANGED <<now, hits, failures, flying, guesses>>
  PROVE  LimitInv'
<1>0. /\ now \in Nat /\ \A d \in Keyholders : Unanswered(d) \in 0..MaxPassed
      /\ \A e \in DOMAIN guesses : GuessOK(guesses[e], e)
  BY DEF LimitInv
<1>1. ASSUME NEW d \in Keyholders PROVE Unanswered(d)' \in 0..MaxPassed /\ Unanswered(d)' <= Unanswered(d)
  <2>1. passed'[d] \in Nat /\ checking'[d] \in Nat OBVIOUS
  <2>2. Unanswered(d)' \in Nat BY <2>1 DEF Unanswered
  <2>. QED BY <1>0, <2>2, LimitConstants
<1>2. ASSUME NEW e \in DOMAIN guesses PROVE GuessOK(guesses[e], e)'
  <2>1. GuessOK(guesses[e], e) BY <1>0
  <2>2. e \in Keyholders /\ guesses[e].n \in Nat BY <2>1 DEF GuessOK
  <2>3. Unanswered(e)' \in 0..MaxPassed /\ Unanswered(e)' <= Unanswered(e) /\ Unanswered(e) \in 0..MaxPassed
    BY <1>0, <1>1, <2>2
  <2>4. MaxPassed * (now + 1) \in Nat BY <1>0, LimitConstants
  <2>5. guesses[e].n + Unanswered(e) <= FreeGuesses + MaxPassed * (now + 1)
          => guesses[e].n + Unanswered(e)' <= FreeGuesses + MaxPassed * (now + 1)
    BY <2>2, <2>3, <2>4, LimitConstants
  <2>. QED BY <2>1, <2>5 DEF GuessOK
<1>. QED BY <1>1, <1>2 DEF LimitInv, TableOK, FailureOK

LEMMA PassBackoffStep ==
  ASSUME LimitInv, NEW d \in Keyholders, PassBackoff(d)
  PROVE  LimitInv'
<1>0. /\ now \in Nat /\ passed \in [Keyholders -> Nat] /\ checking \in [Keyholders -> Nat]
      /\ \A e \in Keyholders : Unanswered(e) \in 0..MaxPassed
      /\ \A e \in DOMAIN guesses : GuessOK(guesses[e], e)
  BY DEF LimitInv
<1>1. /\ ~BackingOff(d) /\ Unanswered(d) < MaxPassed /\ passed' = [passed EXCEPT ![d] = @ + 1]
      /\ UNCHANGED <<now, hits, failures, flying, checking>>
      /\ guesses' = IF d \in DOMAIN guesses /\ now - guesses[d].last >= Memory
                    THEN Only(guesses, DOMAIN guesses \ {d}) ELSE guesses
  BY DEF PassBackoff, Unanswered
<1>2. /\ passed' \in [Keyholders -> Nat] /\ Unanswered(d)' = Unanswered(d) + 1
      /\ \A e \in Keyholders : e # d => Unanswered(e)' = Unanswered(e)
  BY <1>0, <1>1 DEF Unanswered
<1>3. \A e \in Keyholders : Unanswered(e)' \in 0..MaxPassed BY <1>0, <1>1, <1>2, LimitConstants
<1>4. ASSUME NEW e \in DOMAIN guesses' PROVE GuessOK(guesses[e], e)'
  <2>1. e \in DOMAIN guesses /\ guesses'[e] = guesses[e] /\ (e = d => now - guesses[d].last < Memory)
    <3>1. CASE d \in DOMAIN guesses /\ now - guesses[d].last >= Memory BY <1>1, <3>1 DEF Only
    <3>2. CASE d \in DOMAIN guesses /\ ~(now - guesses[d].last >= Memory)
      <4>1. guesses[d].last \in Nat BY <1>0, <3>2 DEF GuessOK
      <4>2. now - guesses[d].last < Memory BY <1>0, <3>2, <4>1, LimitConstants
      <4>. QED BY <1>1, <3>2, <4>2
    <3>3. CASE d \notin DOMAIN guesses BY <1>1, <3>3
    <3>. QED BY <3>1, <3>2, <3>3
  <2>2. GuessOK(guesses[e], e) BY <1>0, <2>1
  <2>3. CASE e # d BY <1>0, <1>1, <1>2, <2>1, <2>2, <2>3 DEF GuessOK
  <2>4. CASE e = d
    <3>1. guesses[d].last = now => guesses[d].n <= FreeGuesses
      <4>. SUFFICES ASSUME guesses[d].last = now, guesses[d].n > FreeGuesses PROVE FALSE
        BY <2>2, <2>4, LimitConstants DEF GuessOK
      <4>1. PasswordDelay(guesses[d].n) \in Nat \ {0} BY <2>2, <2>4, DelayIsPositive DEF GuessOK
      <4>2. now - guesses[d].last = 0 BY <1>0
      <4>. QED BY <1>1, <2>1, <2>4, <4>1, <4>2 DEF BackingOff
    <3>. QED BY <1>1, <2>1, <2>2, <2>4, <3>1 DEF GuessOK
  <2>. QED BY <2>3, <2>4
<1>. QED BY <1>0, <1>1, <1>2, <1>3, <1>4 DEF LimitInv, TableOK, FailureOK

LEMMA CheckAnsweredStep ==
  ASSUME LimitInv, NEW d \in Keyholders, NEW verdict, CheckAnswered(d, verdict)
  PROVE  LimitInv'
<1>0. /\ now \in Nat /\ passed \in [Keyholders -> Nat] /\ checking \in [Keyholders -> Nat]
      /\ \A e \in Keyholders : Unanswered(e) \in 0..MaxPassed
      /\ \A e \in DOMAIN guesses : GuessOK(guesses[e], e)
  BY DEF LimitInv
<1>1. PICK n : n = (IF d \in DOMAIN guesses /\ now - guesses[d].last < Memory THEN guesses[d].n ELSE 0) + 1 OBVIOUS
<1>2. /\ checking[d] > 0 /\ checking' = [checking EXCEPT ![d] = @ - 1]
      /\ UNCHANGED <<now, hits, failures, flying, passed>>
      /\ \/ guesses' = Only(guesses, DOMAIN guesses \ {d})
         \/ guesses' = Put(guesses, d, [n |-> n, last |-> now])
         \/ guesses' = guesses
  BY <1>1 DEF CheckAnswered
<1>3. /\ checking' \in [Keyholders -> Nat] /\ Unanswered(d) \in 0..MaxPassed
      /\ Unanswered(d)' = Unanswered(d) - 1 /\ Unanswered(d)' \in Nat
      /\ \A e \in Keyholders : e # d => Unanswered(e)' = Unanswered(e)
  BY <1>0, <1>2 DEF Unanswered
<1>6. CASE guesses' = guesses
  <2>1. \A e \in Keyholders : Unanswered(e)' <= Unanswered(e) BY <1>0, <1>3, LimitConstants
  <2>. QED BY <1>0, <1>2, <1>3, <1>6, <2>1, QuietStep
<1>7. CASE ~(guesses' = guesses)
  <2>4. ASSUME NEW e \in DOMAIN guesses', e # d PROVE GuessOK(guesses[e], e)'
    <3>1. e \in DOMAIN guesses /\ guesses'[e] = guesses[e] BY <1>2, <1>7, <2>4 DEF Only, Put
    <3>. QED BY <1>0, <1>2, <1>3, <2>4, <3>1 DEF GuessOK
  <2>5. ASSUME d \in DOMAIN guesses' PROVE GuessOK(guesses[d], d)'
    <3>1. guesses' = Put(guesses, d, [n |-> n, last |-> now]) BY <1>2, <1>7, <2>5 DEF Only
    <3>2. guesses'[d] = [n |-> n, last |-> now] BY <3>1 DEF Put
    <3>3. n \in Nat /\ n + Unanswered(d)' <= FreeGuesses + MaxPassed * (now + 1) /\ MaxPassed * (now + 1) \in Nat
      <4>1. CASE d \in DOMAIN guesses /\ now - guesses[d].last < Memory
        <5>1. n = guesses[d].n + 1 /\ guesses[d].n \in Nat BY <1>1, <4>1, GuessBound DEF GuessOK
        <5>. QED BY <1>2, <1>3, <4>1, <5>1, GuessBound, LimitConstants
      <4>2. CASE ~(d \in DOMAIN guesses /\ now - guesses[d].last < Memory)
        <5>1. n = 1 BY <1>1, <4>2
        <5>2. MaxPassed * (now + 1) = MaxPassed * now + MaxPassed /\ MaxPassed * now \in Nat /\ MaxPassed * (now + 1) \in Nat
          BY <1>0, LimitConstants
        <5>. QED BY <1>2, <1>3, <5>1, <5>2, LimitConstants
      <4>. QED BY <4>1, <4>2
    <3>4. n <= FreeGuesses + MaxPassed * (now + 1) BY <1>2, <1>3, <3>3, LimitConstants
    <3>. QED BY <1>0, <1>2, <3>2, <3>3, <3>4 DEF GuessOK
  <2>6. \A e \in Keyholders : Unanswered(e)' \in 0..MaxPassed BY <1>0, <1>3, LimitConstants
  <2>. QED BY <1>0, <1>2, <1>3, <2>4, <2>5, <2>6 DEF LimitInv, TableOK, FailureOK
<1>. QED BY <1>6, <1>7

LEMMA PermitStep ==
  ASSUME LimitInv, NEW d \in Keyholders, TakePermit(d) \/ EndUnchecked(d) \/ CallerLeaves(d)
  PROVE  LimitInv'
<1>0. passed \in [Keyholders -> Nat] /\ checking \in [Keyholders -> Nat] BY DEF LimitInv
<1>1. CASE TakePermit(d)
  <2>1. /\ passed[d] > 0 /\ passed' = [passed EXCEPT ![d] = @ - 1] /\ checking' = [checking EXCEPT ![d] = @ + 1]
        /\ UNCHANGED <<now, hits, failures, flying, guesses>>
    BY <1>1 DEF TakePermit
  <2>2. /\ passed' \in [Keyholders -> Nat] /\ checking' \in [Keyholders -> Nat]
        /\ \A e \in Keyholders : Unanswered(e)' <= Unanswered(e)
    BY <1>0, <2>1 DEF Unanswered
  <2>. QED BY <2>1, <2>2, QuietStep
<1>2. CASE EndUnchecked(d)
  <2>1. /\ passed[d] > 0 /\ passed' = [passed EXCEPT ![d] = @ - 1]
        /\ UNCHANGED <<now, hits, failures, flying, guesses, checking>>
    BY <1>2 DEF EndUnchecked
  <2>2. /\ passed' \in [Keyholders -> Nat] /\ checking' \in [Keyholders -> Nat]
        /\ \A e \in Keyholders : Unanswered(e)' <= Unanswered(e)
    BY <1>0, <2>1 DEF Unanswered
  <2>. QED BY <2>1, <2>2, QuietStep
<1>3. CASE CallerLeaves(d)
  <2>1. /\ checking[d] > 0 /\ checking' = [checking EXCEPT ![d] = @ - 1]
        /\ UNCHANGED <<now, hits, failures, flying, guesses, passed>>
    BY <1>3 DEF CallerLeaves
  <2>2. /\ passed' \in [Keyholders -> Nat] /\ checking' \in [Keyholders -> Nat]
        /\ \A e \in Keyholders : Unanswered(e)' <= Unanswered(e)
    BY <1>0, <2>1 DEF Unanswered
  <2>. QED BY <2>1, <2>2, QuietStep
<1>. QED BY <1>1, <1>2, <1>3

\* However logins and password checks overlap, and whoever else fills the bounded tables:
\* refused logins of a lock window stay within the limit and those in flight, wrong
\* passwords within the free ones and, per tick, the requests of the device past the
\* back-off, and the tables within their size (rate_limit_mw, count, password_backoff, note_password_failure).
THEOREM GuessingIsLimitedAlways == LimitSpec => []GuessingIsLimited
<1>1. LimitInit => LimitInv
  <2>. SUFFICES ASSUME LimitInit PROVE LimitInv OBVIOUS
  <2>1. DOMAIN hits = {} /\ DOMAIN failures = {} /\ DOMAIN guesses = {} BY DEF LimitInit
  <2>2. TableOK(hits) /\ TableOK(failures) BY <2>1, FS_EmptySet, LimitConstants DEF TableOK
  <2>3. \A d \in Keyholders : Unanswered(d) = 0 BY DEF LimitInit, Unanswered
  <2>. QED BY <2>1, <2>2, <2>3, LimitConstants DEF LimitInit, LimitInv
<1>2. LimitInv /\ [LimitNext]_limitVars => LimitInv'
  <2>. SUFFICES ASSUME LimitInv, [LimitNext]_limitVars PROVE LimitInv' OBVIOUS
  <2>1. CASE UNCHANGED limitVars BY <2>1 DEF LimitInv, TableOK, FailureOK, GuessOK, Unanswered, limitVars, checkVars
  <2>2. CASE LimiterRestarts
    <3>1. DOMAIN hits' = {} /\ DOMAIN failures' = {} /\ DOMAIN guesses' = {} BY <2>2 DEF LimiterRestarts
    <3>2. TableOK(hits)' /\ TableOK(failures)' BY <3>1, FS_EmptySet, LimitConstants DEF TableOK
    <3>3. \A d \in Keyholders : Unanswered(d)' = 0 BY <2>2 DEF LimiterRestarts, Unanswered
    <3>. QED BY <2>2, <3>1, <3>2, <3>3, LimitConstants DEF LimiterRestarts, LimitInv
  <2>3. CASE Tick
    <3>0. now \in Nat /\ now' = now + 1 /\ UNCHANGED <<hits, failures, flying, guesses, passed, checking>>
      BY <2>3 DEF Tick, LimitInv, checkVars
    <3>1. ASSUME NEW s \in DOMAIN failures PROVE FailureOK(failures[s], s)'
      <4>1. FailureOK(failures[s], s) BY DEF LimitInv
      <4>. QED BY <3>0, <4>1, LimitConstants DEF FailureOK
    <3>2. ASSUME NEW d \in DOMAIN guesses PROVE GuessOK(guesses[d], d)'
      <4>1. GuessOK(guesses[d], d) BY DEF LimitInv
      <4>2. guesses[d].last <= now' /\ guesses[d].last # now' BY <3>0, <4>1 DEF GuessOK
      <4>. QED BY <3>0, <4>1, <4>2 DEF GuessOK
    <3>. QED BY <3>0, <3>1, <3>2 DEF LimitInv, TableOK, Unanswered
  <2>4. CASE HashStarts \/ HashEnds
    <3>1. UNCHANGED <<now, hits, failures, flying, guesses, passed, checking>> BY <2>4 DEF HashStarts, HashEnds
    <3>2. /\ passed' \in [Keyholders -> Nat] /\ checking' \in [Keyholders -> Nat]
          /\ \A d \in Keyholders : Unanswered(d)' <= Unanswered(d)
      BY <3>1 DEF LimitInv, Unanswered
    <3>. QED BY <3>1, <3>2, QuietStep
  <2>. QED BY <2>1, <2>2, <2>3, <2>4, LoginArrivesStep, LoginAnsweredStep, PassBackoffStep, PermitStep,
              CheckAnsweredStep DEF LimitNext
<1>3. LimitInv => GuessingIsLimited
  <2>. SUFFICES ASSUME LimitInv PROVE GuessingIsLimited OBVIOUS
  <2>1. LockoutHolds BY DEF LimitInv, FailureOK, LockoutHolds
  <2>2. GuessesAreBounded BY GuessBound DEF GuessesAreBounded
  <2>. QED BY <2>1, <2>2 DEF LimitInv, TableOK, GuessingIsLimited
<1>. QED BY <1>1, <1>2, <1>3, PTL DEF LimitSpec

-----------------------------------------------------------------------------
(* The release mirror: the retention rule.                                  *)

MajorSet(vs, m) == {v \in vs : Major(v) = m}
MinorSet(vs, n, m) == {v \in MajorSet(vs, Major(n)) : Minor(v) = m}
NewerIn(v, ws) == Cardinality({w \in ws : w > v})
MajorsOf(vs) == {Major(v) : v \in vs}
MinorsOf(vs, n) == {Minor(v) : v \in MajorSet(vs, Major(n))}

\* The rule for one version v of vs, whose newest is n.
Keeps(vs, n, v) ==
    IF Major(v) # Major(n)
    THEN /\ NewerIn(v, MajorSet(vs, Major(v))) = 0
         /\ Cardinality({m \in MajorsOf(vs) : m > Major(v)}) < RecentMajors
    ELSE IF Minor(v) # Minor(n)
    THEN /\ NewerIn(v, MinorSet(vs, n, Minor(v))) = 0
         /\ Cardinality({m \in MinorsOf(vs, n) : m > Minor(v)}) < RecentMinors
    ELSE NewerIn(v, MinorSet(vs, n, Minor(v))) < RecentPatches

IsNewest(n, vs) == n \in vs /\ \A w \in vs : w <= n

LEMMA VersionFacts ==
  /\ IsFiniteSet(Versions) /\ Versions \subseteq Nat /\ 0 \notin Versions
  /\ \A d \in Docs : VersionOf(d) \in Versions
<1>1. PICK f : f = [d \in Docs |-> VersionOf(d)] OBVIOUS
<1>2. f \in Surjection(Docs, Versions) BY <1>1 DEF Surjection, Versions
<1>3. IsFiniteSet(Versions) BY <1>2, MirrorAssumption, FS_Surjection
<1>. QED BY <1>3, MirrorAssumption DEF Versions

LEMMA NumbersAreFinite ==
  ASSUME NEW vs \in SUBSET Versions, NEW n
  PROVE  /\ IsFiniteSet(vs) /\ IsFiniteSet(MajorsOf(vs)) /\ IsFiniteSet(MinorsOf(vs, n))
<1>1. IsFiniteSet(vs) BY VersionFacts, FS_Subset
<1>2. IsFiniteSet(MajorsOf(vs))
  <2>1. PICK f : f = [v \in vs |-> Major(v)] OBVIOUS
  <2>2. f \in Surjection(vs, MajorsOf(vs)) BY <2>1 DEF Surjection, MajorsOf
  <2>. QED BY <1>1, <2>2, FS_Surjection
<1>3. IsFiniteSet(MinorsOf(vs, n))
  <2>1. PICK S : S = MajorSet(vs, Major(n)) OBVIOUS
  <2>2. IsFiniteSet(S) BY <1>1, <2>1, FS_Subset DEF MajorSet
  <2>3. PICK f : f = [v \in S |-> Minor(v)] OBVIOUS
  <2>4. f \in Surjection(S, MinorsOf(vs, n)) BY <2>1, <2>3 DEF Surjection, MinorsOf
  <2>. QED BY <2>2, <2>4, FS_Surjection
<1>. QED BY <1>1, <1>2, <1>3

LEMMA RetainedIs ==
  ASSUME NEW vs \in SUBSET Versions, NEW n, IsNewest(n, vs)
  PROVE  Retained(vs) = {v \in vs : Keeps(vs, n, v)}
<1>1. vs # {} /\ n = CHOOSE v \in vs : \A w \in vs : w <= v
  <2>1. \A v \in vs : (\A w \in vs : w <= v) => v = n
    <3>1. \A v \in vs : v \in Nat BY VersionFacts
    <3>. QED BY <3>1 DEF IsNewest
  <2>. QED BY <2>1 DEF IsNewest
<1>. QED BY <1>1 DEF Retained, Keeps, NewerIn, MajorSet, MinorSet, MajorsOf, MinorsOf

\* What is kept of more is kept of less.
LEMMA KeepsOfLess ==
  ASSUME NEW vs \in SUBSET Versions, NEW ws \in SUBSET vs, NEW n, NEW v, Keeps(vs, n, v)
  PROVE  Keeps(ws, n, v)
<1>0. ASSUME NEW A, NEW B, IsFiniteSet(B), A \subseteq B
      PROVE  Cardinality(A) \in Nat /\ Cardinality(B) \in Nat /\ Cardinality(A) <= Cardinality(B)
  BY <1>0, FS_Subset, FS_CardinalityType
<1>1. IsFiniteSet(vs) /\ IsFiniteSet(MajorsOf(vs)) /\ IsFiniteSet(MinorsOf(vs, n)) BY NumbersAreFinite
<1>2. ASSUME NEW A, NEW B \in SUBSET vs, A \subseteq B
      PROVE  NewerIn(v, A) \in Nat /\ NewerIn(v, B) \in Nat /\ NewerIn(v, A) <= NewerIn(v, B)
  <2>1. IsFiniteSet({w \in B : w > v}) BY <1>1, FS_Subset
  <2>2. {w \in A : w > v} \subseteq {w \in B : w > v} BY <1>2
  <2>. QED BY <1>0, <2>1, <2>2 DEF NewerIn
<1>3. /\ MajorSet(ws, Major(v)) \subseteq MajorSet(vs, Major(v)) /\ MajorSet(vs, Major(v)) \subseteq vs
      /\ MinorSet(ws, n, Minor(v)) \subseteq MinorSet(vs, n, Minor(v))
      /\ MinorSet(vs, n, Minor(v)) \subseteq vs
  BY DEF MajorSet, MinorSet
<1>4. PICK a, b : a = NewerIn(v, MajorSet(ws, Major(v))) /\ b = NewerIn(v, MajorSet(vs, Major(v))) OBVIOUS
<1>5. PICK c, d : c = NewerIn(v, MinorSet(ws, n, Minor(v))) /\ d = NewerIn(v, MinorSet(vs, n, Minor(v)))
  OBVIOUS
<1>6. a \in Nat /\ b \in Nat /\ a <= b BY <1>2, <1>3, <1>4
<1>7. c \in Nat /\ d \in Nat /\ c <= d BY <1>2, <1>3, <1>5
<1>8. PICK p, q : /\ p = Cardinality({m \in MajorsOf(ws) : m > Major(v)})
                  /\ q = Cardinality({m \in MajorsOf(vs) : m > Major(v)})
  OBVIOUS
<1>9. p \in Nat /\ q \in Nat /\ p <= q
  <2>1. IsFiniteSet({m \in MajorsOf(vs) : m > Major(v)}) BY <1>1, FS_Subset
  <2>2. {m \in MajorsOf(ws) : m > Major(v)} \subseteq {m \in MajorsOf(vs) : m > Major(v)}
    BY DEF MajorsOf
  <2>. QED BY <1>0, <1>8, <2>1, <2>2
<1>10. PICK s, t : /\ s = Cardinality({m \in MinorsOf(ws, n) : m > Minor(v)})
                   /\ t = Cardinality({m \in MinorsOf(vs, n) : m > Minor(v)})
  OBVIOUS
<1>11. s \in Nat /\ t \in Nat /\ s <= t
  <2>1. IsFiniteSet({m \in MinorsOf(vs, n) : m > Minor(v)}) BY <1>1, FS_Subset
  <2>2. {m \in MinorsOf(ws, n) : m > Minor(v)} \subseteq {m \in MinorsOf(vs, n) : m > Minor(v)}
    BY DEF MinorsOf, MajorSet
  <2>. QED BY <1>0, <1>10, <2>1, <2>2
<1>12. RecentPatches \in Nat /\ RecentMinors \in Nat /\ RecentMajors \in Nat BY MirrorAssumption
<1>13. CASE Major(v) # Major(n)
  <2>1. b = 0 /\ q < RecentMajors BY <1>4, <1>8, <1>13 DEF Keeps
  <2>2. a = 0 /\ p < RecentMajors BY <1>6, <1>9, <1>12, <2>1
  <2>. QED BY <1>4, <1>8, <1>13, <2>2 DEF Keeps
<1>14. CASE Major(v) = Major(n) /\ Minor(v) # Minor(n)
  <2>1. d = 0 /\ t < RecentMinors BY <1>5, <1>10, <1>14 DEF Keeps
  <2>2. c = 0 /\ s < RecentMinors BY <1>7, <1>11, <1>12, <2>1
  <2>. QED BY <1>5, <1>10, <1>14, <2>2 DEF Keeps
<1>15. CASE Major(v) = Major(n) /\ Minor(v) = Minor(n)
  <2>1. d < RecentPatches BY <1>5, <1>15 DEF Keeps
  <2>2. c < RecentPatches BY <1>7, <1>12, <2>1
  <2>. QED BY <1>5, <1>15, <2>2 DEF Keeps
<1>. QED BY <1>13, <1>14, <1>15

\* retain (mirror/store.rs): what was retained is retained again.
LEMMA RetainedStays ==
  ASSUME NEW vs \in SUBSET Versions
  PROVE  Retained(vs) \subseteq vs /\ Retained(Retained(vs)) = Retained(vs)
<1>1. CASE vs = {}
  <2>1. Retained({}) = {} BY DEF Retained
  <2>. QED BY <1>1, <2>1
<1>2. CASE vs # {}
  <2>1. PICK n \in vs : \A w \in vs : w <= n
    BY <1>2, VersionFacts, NumbersAreFinite, LargestOf
  <2>2. IsNewest(n, vs) BY <2>1 DEF IsNewest
  <2>3. PICK R : R = Retained(vs) OBVIOUS
  <2>4. R = {v \in vs : Keeps(vs, n, v)} BY <2>2, <2>3, RetainedIs
  <2>5. Keeps(vs, n, n)
    <3>1. n \in Nat /\ \A w \in vs : w \in Nat BY VersionFacts
    <3>2. {w \in MinorSet(vs, n, Minor(n)) : w > n} = {}
      <4>1. \A w \in vs : ~(w > n) BY <2>1, <3>1
      <4>. QED BY <4>1 DEF MinorSet, MajorSet
    <3>3. NewerIn(n, MinorSet(vs, n, Minor(n))) = 0 BY <3>2, FS_EmptySet DEF NewerIn
    <3>4. NewerIn(n, MinorSet(vs, n, Minor(n))) < RecentPatches BY <3>3, MirrorAssumption
    <3>. QED BY <3>4 DEF Keeps
  <2>6. R \in SUBSET vs /\ R \in SUBSET Versions /\ IsNewest(n, R) BY <2>1, <2>4, <2>5 DEF IsNewest
  <2>7. Retained(R) = {v \in R : Keeps(R, n, v)} BY <2>6, RetainedIs
  <2>8. \A v \in R : Keeps(R, n, v)
    <3>1. \A v \in R : Keeps(vs, n, v) BY <2>4
    <3>. QED BY <2>6, <3>1, KeepsOfLess
  <2>. QED BY <2>3, <2>6, <2>7, <2>8
<1>. QED BY <1>1, <1>2

-----------------------------------------------------------------------------
(* The release mirror: imports and a device.                                *)

ImportSteps == {"idle", "prepared", "published", "indexed", "activated", "retiring", "reindexed",
                "retired", "sourced", "unsourced"}
ImportType == [at : ImportSteps, doc : Docs \cup {NoDoc}, moved : SUBSET Versions]
Trimmed == {"reindexed", "retired", "sourced", "unsourced"}

MirrorTypes ==
  /\ mirror \in [Versions -> Docs \cup {NoDoc}] /\ public \in [Versions -> Docs \cup {NoDoc}]
  /\ active \in Versions \cup {0} /\ source \subseteq Nat
  /\ sync \in ImportType
  /\ client \in [installed : Nat, offer : Docs \cup {NoDoc}, got : Docs \cup {NoDoc}]

\* What is public or active is mirrored, under its own version.
CopiesOK ==
  /\ \A v \in Versions : mirror[v] # NoDoc => VersionOf(mirror[v]) = v
  /\ \A v \in Versions : public[v] # NoDoc => mirror[v] # NoDoc
  /\ active # 0 => mirror[active] # NoDoc

\* An offer is of a mirrored document, which stays; what was got is the offer.
OfferOK ==
  /\ client.offer # NoDoc =>
       /\ mirror[VersionOf(client.offer)] = client.offer
       /\ ProtocolOf(client.offer) <= ClientProtocol
  /\ client.got \in {NoDoc, client.offer}

\* The import's document is mirrored and goes on from the active one, which it is
\* once activated.
ImportOK ==
  sync.at # "idle" =>
    /\ sync.doc \in Docs /\ mirror[VersionOf(sync.doc)] = sync.doc /\ Progresses(sync.doc)
    /\ sync.at \notin {"prepared", "published", "indexed"} => active = VersionOf(sync.doc)

\* The page at each step: it links what is public, and while releases are retired
\* also those moved away, which are mirrored; after that the public tree is trimmed.
PageOK ==
  /\ sync.at \in {"prepared", "published", "indexed", "activated"} => sync.moved = {}
  /\ sync.at \in {"indexed", "activated"} \cup Trimmed => page.links = PublicVersions
  /\ sync.at = "retiring" =>
       /\ page.links = PublicVersions \cup sync.moved /\ sync.moved \cap PublicVersions = {}
       /\ \A v \in sync.moved : mirror[v] # NoDoc
       /\ sync.moved \subseteq Retiring
  /\ sync.at \in Trimmed => Retained(PublicVersions) = PublicVersions

MirrorInv ==
  MirrorTypes /\ CopiesOK /\ OfferOK /\ ImportOK /\ PageOK /\ SourceIsNotAhead /\ PageIsTrue

MirrorSteps == MirrorInv' /\ GoesOn

LEMMA MirrorStarts == MirrorInit => MirrorInv
<1>. SUFFICES ASSUME MirrorInit PROVE MirrorInv OBVIOUS
<1>1. MirrorTypes
  <2>1. sync \in ImportType BY DEF MirrorInit, NoSync, ImportType, ImportSteps
  <2>. QED BY <2>1 DEF MirrorInit, MirrorTypes, Absent
<1>2. CopiesOK BY DEF MirrorInit, CopiesOK
<1>3. OfferOK BY DEF MirrorInit, OfferOK
<1>4. sync.at = "idle" BY DEF MirrorInit, NoSync
<1>5. ImportOK /\ PageOK BY <1>4 DEF ImportOK, PageOK, Trimmed
<1>6. SourceIsNotAhead /\ PageIsTrue BY DEF MirrorInit, SourceIsNotAhead, PageIsTrue
<1>. QED BY <1>1, <1>2, <1>3, <1>5, <1>6 DEF MirrorInv

LEMMA SyncGoes ==
  ASSUME MirrorTypes, NEW step \in ImportSteps, Goes(step)
  PROVE  /\ sync' \in ImportType /\ sync'.at = step /\ sync'.doc = sync.doc
         /\ sync'.moved = sync.moved
BY DEF MirrorTypes, Goes, ImportType

LEMMA SyncEnds ==
  ASSUME NEW how, Ends(how)
  PROVE  sync' \in ImportType /\ sync'.at = "idle" /\ outcome' = how
BY DEF Ends, NoSync, ImportType, ImportSteps

\* A step of the import's own: the copies, the updater and the device stay.
LEMMA ImportStays ==
  ASSUME MirrorInv, sync' \in ImportType, UNCHANGED <<mirror, public, active, client>>,
         source' \subseteq Nat
  PROVE  /\ MirrorTypes' /\ CopiesOK' /\ OfferOK' /\ PublicVersions' = PublicVersions
         /\ (sync'.at = "idle" \/ (sync.at # "idle" /\ sync'.doc = sync.doc
               /\ (sync'.at \notin {"prepared", "published", "indexed"} => active = VersionOf(sync.doc)))
             => ImportOK')
<1>1. MirrorTypes' BY DEF MirrorInv, MirrorTypes
<1>2. CopiesOK' BY DEF MirrorInv, CopiesOK
<1>3. OfferOK' BY DEF MirrorInv, OfferOK
<1>4. PublicVersions' = PublicVersions BY DEF PublicVersions
<1>5. ASSUME sync.at # "idle", sync'.doc = sync.doc,
             sync'.at \notin {"prepared", "published", "indexed"} => active = VersionOf(sync.doc)
      PROVE  ImportOK'
  <2>1. /\ sync.doc \in Docs /\ mirror[VersionOf(sync.doc)] = sync.doc /\ Progresses(sync.doc)
    BY <1>5 DEF MirrorInv, ImportOK
  <2>2. Progresses(sync.doc)' BY <1>5, <2>1 DEF Progresses
  <2>. QED BY <1>5, <2>1, <2>2 DEF ImportOK
<1>6. ASSUME sync'.at = "idle" PROVE ImportOK' BY <1>6 DEF ImportOK
<1>. QED BY <1>1, <1>2, <1>3, <1>4, <1>5, <1>6

LEMMA NothingGoes ==
  ASSUME active' = active, trash \subseteq trash'
  PROVE  GoesOn
BY DEF GoesOn

LEMMA PrepareStep ==
  ASSUME MirrorInv, NEW d \in Docs, Prepare(d)
  PROVE  MirrorSteps
<1>0. MirrorTypes /\ CopiesOK /\ OfferOK /\ SourceIsNotAhead BY DEF MirrorInv
<1>1. PICK v \in Versions : v = VersionOf(d) BY VersionFacts
<1>2. /\ mirror[v] \in {NoDoc, d} /\ mirror' = [mirror EXCEPT ![v] = d] /\ Progresses(d)
      /\ UNCHANGED <<active, public, trash, page, source, outcome, client>>
      /\ sync' = [NoSync EXCEPT !.at = "prepared", !.doc = d]
  BY <1>1 DEF Prepare
<1>3. sync' \in ImportType /\ sync'.at = "prepared" /\ sync'.doc = d /\ sync'.moved = {}
  BY <1>2 DEF NoSync, ImportType, ImportSteps
<1>4. /\ mirror' \in [Versions -> Docs \cup {NoDoc}] /\ mirror'[v] = d
      /\ \A u \in Versions : u # v => mirror'[u] = mirror[u]
  BY <1>0, <1>2 DEF MirrorTypes
<1>5. \A u \in Versions : mirror[u] # NoDoc => mirror'[u] = mirror[u] BY <1>2, <1>4
<1>6. MirrorTypes' BY <1>0, <1>2, <1>3, <1>4 DEF MirrorTypes
<1>7. CopiesOK'
  <2>1. \A u \in Versions : mirror'[u] # NoDoc => VersionOf(mirror'[u]) = u
    BY <1>0, <1>1, <1>4 DEF CopiesOK
  <2>2. \A u \in Versions : public[u] # NoDoc => mirror'[u] # NoDoc BY <1>0, <1>5 DEF CopiesOK
  <2>3. active # 0 => mirror'[active] # NoDoc BY <1>0, <1>5 DEF CopiesOK, MirrorTypes
  <2>. QED BY <1>2, <2>1, <2>2, <2>3 DEF CopiesOK
<1>8. OfferOK'
  <2>1. client.offer # NoDoc => mirror'[VersionOf(client.offer)] = client.offer
    BY <1>0, <1>5, VersionFacts DEF OfferOK, MirrorTypes
  <2>. QED BY <1>0, <1>2, <2>1 DEF OfferOK
<1>9. ImportOK'
  <2>1. active # 0 => mirror'[active] = mirror[active] BY <1>0, <1>5 DEF CopiesOK, MirrorTypes
  <2>2. Progresses(d)' BY <1>2, <2>1 DEF Progresses
  <2>. QED BY <1>1, <1>3, <1>4, <2>2 DEF ImportOK
<1>10. PageOK' BY <1>3 DEF PageOK, Trimmed
<1>11. SourceIsNotAhead' BY <1>0, <1>2 DEF SourceIsNotAhead
<1>12. PageIsTrue' BY <1>3 DEF PageIsTrue, At
<1>13. GoesOn BY <1>2, NothingGoes
<1>. QED BY <1>6, <1>7, <1>8, <1>9, <1>10, <1>11, <1>12, <1>13 DEF MirrorSteps, MirrorInv

LEMMA PublishStep ==
  ASSUME MirrorInv, PublishPublic
  PROVE  MirrorSteps
<1>0. MirrorTypes /\ CopiesOK /\ OfferOK /\ SourceIsNotAhead /\ ImportOK /\ PageOK BY DEF MirrorInv
<1>1. /\ sync.at = "prepared" /\ Goes("published")
      /\ public' = [public EXCEPT ![VersionOf(sync.doc)] = sync.doc]
      /\ UNCHANGED <<mirror, active, trash, page, source, outcome, client>>
  BY DEF PublishPublic, At
<1>2. sync' \in ImportType /\ sync'.at = "published" /\ sync'.doc = sync.doc /\ sync'.moved = sync.moved
  BY <1>0, <1>1, SyncGoes DEF ImportSteps
<1>3. /\ sync.doc \in Docs /\ mirror[VersionOf(sync.doc)] = sync.doc /\ Progresses(sync.doc)
      /\ sync.moved = {}
  BY <1>0, <1>1 DEF ImportOK, PageOK
<1>4. MirrorTypes' BY <1>0, <1>1, <1>2, <1>3, VersionFacts DEF MirrorTypes
<1>5. CopiesOK'
  <2>1. \A u \in Versions : public'[u] # NoDoc => mirror[u] # NoDoc
    BY <1>0, <1>1, <1>3, MirrorAssumption DEF CopiesOK, MirrorTypes
  <2>. QED BY <1>0, <1>1, <2>1 DEF CopiesOK
<1>6. OfferOK' BY <1>0, <1>1 DEF OfferOK
<1>7. ImportOK'
  <2>1. Progresses(sync.doc)' BY <1>1, <1>2, <1>3 DEF Progresses
  <2>. QED BY <1>1, <1>2, <1>3, <2>1 DEF ImportOK
<1>8. PageOK' BY <1>2, <1>3 DEF PageOK, Trimmed
<1>9. SourceIsNotAhead' BY <1>0, <1>1 DEF SourceIsNotAhead
<1>10. PageIsTrue' BY <1>2 DEF PageIsTrue, At
<1>11. GoesOn BY <1>1, NothingGoes
<1>. QED BY <1>4, <1>5, <1>6, <1>7, <1>8, <1>9, <1>10, <1>11 DEF MirrorSteps, MirrorInv

LEMMA IndexReleaseStep ==
  ASSUME MirrorInv, IndexRelease
  PROVE  MirrorSteps
<1>0. MirrorTypes /\ SourceIsNotAhead /\ PageOK BY DEF MirrorInv
<1>1. /\ sync.at = "published" /\ Goes("indexed") /\ page' = Rendered
      /\ UNCHANGED <<mirror, active, public, trash, source, outcome, client>>
  BY DEF IndexRelease, At
<1>2. sync' \in ImportType /\ sync'.at = "indexed" /\ sync'.doc = sync.doc /\ sync'.moved = sync.moved
  BY <1>0, <1>1, SyncGoes DEF ImportSteps
<1>3. MirrorTypes' /\ CopiesOK' /\ OfferOK' /\ ImportOK' /\ PublicVersions' = PublicVersions
  BY <1>0, <1>1, <1>2, ImportStays DEF MirrorTypes
<1>4. PageOK'
  <2>1. page'.links = PublicVersions' BY <1>1, <1>3 DEF Rendered
  <2>. QED BY <1>0, <1>1, <1>2, <2>1 DEF PageOK, Trimmed
<1>5. SourceIsNotAhead' BY <1>0, <1>1 DEF SourceIsNotAhead
<1>6. PageIsTrue' BY <1>2 DEF PageIsTrue, At
<1>7. GoesOn BY <1>1, NothingGoes
<1>. QED BY <1>3, <1>4, <1>5, <1>6, <1>7 DEF MirrorSteps, MirrorInv

LEMMA ActivateStep ==
  ASSUME MirrorInv, Activate
  PROVE  MirrorSteps
<1>0. MirrorTypes /\ CopiesOK /\ OfferOK /\ SourceIsNotAhead /\ ImportOK /\ PageOK BY DEF MirrorInv
<1>1. /\ sync.at = "indexed" /\ Goes("activated") /\ active' = VersionOf(sync.doc)
      /\ UNCHANGED <<mirror, public, trash, page, source, outcome, client>>
  BY DEF Activate, At
<1>2. sync' \in ImportType /\ sync'.at = "activated" /\ sync'.doc = sync.doc /\ sync'.moved = sync.moved
  BY <1>0, <1>1, SyncGoes DEF ImportSteps
<1>3. /\ sync.doc \in Docs /\ mirror[VersionOf(sync.doc)] = sync.doc /\ Progresses(sync.doc)
      /\ sync.moved = {} /\ page.links = PublicVersions
  BY <1>0, <1>1 DEF ImportOK, PageOK
<1>4. PICK v \in Versions : v = VersionOf(sync.doc) /\ mirror[v] = sync.doc BY <1>3, VersionFacts
<1>5. v \in Nat /\ v # 0 /\ active \in Nat BY <1>0, VersionFacts DEF MirrorTypes
<1>6. active # 0 => active <= v /\ (active < v => CodeOf(sync.doc) > CodeOf(mirror[active]))
  BY <1>3, <1>4, <1>5 DEF Progresses
<1>7. MirrorTypes' BY <1>0, <1>1, <1>2, <1>4 DEF MirrorTypes
<1>8. CopiesOK' BY <1>0, <1>1, <1>3, <1>4, MirrorAssumption DEF CopiesOK
<1>9. OfferOK' BY <1>0, <1>1 DEF OfferOK
<1>10. ImportOK'
  <2>1. Progresses(sync.doc)' BY <1>1, <1>2, <1>4, <1>5 DEF Progresses
  <2>. QED BY <1>1, <1>2, <1>3, <2>1 DEF ImportOK
<1>11. PageOK' BY <1>1, <1>2, <1>3 DEF PageOK, Trimmed, PublicVersions
<1>12. SourceIsNotAhead'
  <2>1. ASSUME source # Absent, NEW u \in source PROVE u <= v
    <3>1. u \in Nat /\ u <= active BY <1>0, <2>1 DEF SourceIsNotAhead, MirrorTypes
    <3>2. CASE active = 0 BY <1>5, <3>1, <3>2
    <3>3. CASE active # 0 BY <1>5, <1>6, <3>1, <3>3
    <3>. QED BY <3>2, <3>3
  <2>. QED BY <1>1, <1>4, <2>1 DEF SourceIsNotAhead
<1>13. PageIsTrue' BY <1>2 DEF PageIsTrue, At
<1>14. GoesOn
  <2>1. ASSUME active' # active, active # 0
        PROVE  active' > active /\ CodeOf(mirror'[active']) > CodeOf(mirror[active])
    <3>1. active < v BY <1>1, <1>4, <1>5, <1>6, <2>1
    <3>2. mirror'[active'] = sync.doc BY <1>1, <1>4
    <3>. QED BY <1>1, <1>4, <1>5, <1>6, <2>1, <3>1, <3>2
  <2>. QED BY <1>1, <2>1 DEF GoesOn
<1>. QED BY <1>7, <1>8, <1>9, <1>10, <1>11, <1>12, <1>13, <1>14 DEF MirrorSteps, MirrorInv

LEMMA SweepStep ==
  ASSUME MirrorInv, SweepRetired \/ DeleteRetired
  PROVE  MirrorSteps
<1>0. MirrorTypes /\ SourceIsNotAhead /\ PageOK /\ ImportOK BY DEF MirrorInv
<1>1. /\ \/ sync.at = "activated" /\ Goes("retiring")
         \/ sync.at = "reindexed" /\ Goes("retired")
      /\ UNCHANGED <<mirror, active, public, page, source, outcome, client>>
  BY DEF SweepRetired, DeleteRetired, At
<1>2. /\ sync' \in ImportType /\ sync'.doc = sync.doc /\ sync'.moved = sync.moved
      /\ \/ sync.at = "activated" /\ sync'.at = "retiring"
         \/ sync.at = "reindexed" /\ sync'.at = "retired"
  BY <1>0, <1>1, SyncGoes DEF ImportSteps
<1>3. active = VersionOf(sync.doc) BY <1>0, <1>2 DEF ImportOK
<1>4. MirrorTypes' /\ CopiesOK' /\ OfferOK' /\ ImportOK' /\ PublicVersions' = PublicVersions
  <2>1. source' \subseteq Nat BY <1>0, <1>1 DEF MirrorTypes
  <2>2. sync.at # "idle" BY <1>2
  <2>. QED BY <1>1, <1>2, <1>3, <2>1, <2>2, ImportStays
<1>5. page.links = PublicVersions BY <1>0, <1>2 DEF PageOK, Trimmed
<1>6. PageOK'
  <2>1. CASE sync.at = "activated" /\ sync'.at = "retiring"
    <3>1. sync'.moved = {} BY <1>0, <1>2, <2>1 DEF PageOK
    <3>2. page'.links = PublicVersions' \cup sync'.moved BY <1>1, <1>4, <1>5, <3>1
    <3>3. (sync.moved \subseteq Retiring)' BY <3>1
    <3>. QED BY <2>1, <3>1, <3>2, <3>3 DEF PageOK, Trimmed
  <2>2. CASE sync.at = "reindexed" /\ sync'.at = "retired"
    <3>1. Retained(PublicVersions) = PublicVersions BY <1>0, <2>2 DEF PageOK, Trimmed
    <3>2. Retained(PublicVersions') = PublicVersions' BY <1>4, <3>1
    <3>. QED BY <1>1, <1>4, <1>5, <2>2, <3>2 DEF PageOK, Trimmed
  <2>. QED BY <1>2, <2>1, <2>2
<1>7. SourceIsNotAhead' BY <1>0, <1>1 DEF SourceIsNotAhead
<1>8. PageIsTrue' BY <1>2 DEF PageIsTrue, At
<1>9. GoesOn
  <2>1. ASSUME NEW u, public'[u] = NoDoc PROVE u \notin page.links
    BY <1>1, <1>5, <2>1 DEF PublicVersions
  <2>. QED BY <1>1, <2>1 DEF GoesOn
<1>. QED BY <1>4, <1>6, <1>7, <1>8, <1>9 DEF MirrorSteps, MirrorInv

LEMMA MoveStep ==
  ASSUME MirrorInv, NEW v \in Versions, MoveRetired(v)
  PROVE  MirrorSteps
<1>0. MirrorTypes /\ CopiesOK /\ OfferOK /\ SourceIsNotAhead /\ ImportOK /\ PageOK BY DEF MirrorInv
<1>1. /\ sync.at = "retiring" /\ v \in PublicVersions /\ v \in Retiring
      /\ public' = [public EXCEPT ![v] = NoDoc] /\ trash' = trash \cup {v}
      /\ sync' = [sync EXCEPT !.moved = @ \cup {v}]
      /\ UNCHANGED <<mirror, active, page, source, outcome, client>>
  BY DEF MoveRetired, At, Retiring
<1>2. /\ sync' \in ImportType /\ sync'.at = "retiring" /\ sync'.doc = sync.doc
      /\ sync'.moved = sync.moved \cup {v}
  BY <1>0, <1>1 DEF MirrorTypes, ImportType
<1>3. /\ sync.doc \in Docs /\ mirror[VersionOf(sync.doc)] = sync.doc /\ Progresses(sync.doc)
      /\ active = VersionOf(sync.doc)
  BY <1>0, <1>1 DEF ImportOK
<1>4. public' \in [Versions -> Docs \cup {NoDoc}] /\ PublicVersions' = PublicVersions \ {v}
  BY <1>0, <1>1 DEF MirrorTypes, PublicVersions
<1>5. mirror[v] # NoDoc BY <1>0, <1>1 DEF CopiesOK, PublicVersions
<1>6. MirrorTypes' BY <1>0, <1>1, <1>2, <1>4 DEF MirrorTypes
<1>7. CopiesOK'
  <2>1. \A u \in Versions : public'[u] # NoDoc => mirror[u] # NoDoc
    BY <1>0, <1>1, <1>4 DEF CopiesOK, MirrorTypes
  <2>. QED BY <1>0, <1>1, <2>1 DEF CopiesOK
<1>8. OfferOK' BY <1>0, <1>1 DEF OfferOK
<1>9. ImportOK'
  <2>1. Progresses(sync.doc)' BY <1>1, <1>2, <1>3 DEF Progresses
  <2>. QED BY <1>1, <1>2, <1>3, <2>1 DEF ImportOK
<1>10. PageOK'
  <2>1. /\ page.links = PublicVersions \cup sync.moved /\ sync.moved \cap PublicVersions = {}
        /\ \A u \in sync.moved : mirror[u] # NoDoc
        /\ sync.moved \subseteq Retiring
    BY <1>0, <1>1 DEF PageOK
  <2>4. Retiring' = Retiring
    <3>1. PICK vs : vs = PublicVersions \cup sync.moved OBVIOUS
    <3>2. PublicVersions' \cup sync'.moved = vs BY <1>1, <1>2, <1>4, <3>1
    <3>. QED BY <3>1, <3>2 DEF Retiring
  <2>5. (sync.moved \subseteq Retiring)' BY <1>1, <1>2, <2>1, <2>4
  <2>2. /\ page'.links = PublicVersions' \cup sync'.moved /\ sync'.moved \cap PublicVersions' = {}
        /\ \A u \in sync'.moved : mirror'[u] # NoDoc
    BY <1>1, <1>2, <1>4, <1>5, <2>1
  <2>. QED BY <1>2, <2>2, <2>5 DEF PageOK, Trimmed
<1>11. SourceIsNotAhead' BY <1>0, <1>1 DEF SourceIsNotAhead
<1>12. PageIsTrue' BY <1>2 DEF PageIsTrue, At
<1>13. GoesOn BY <1>1, NothingGoes
<1>. QED BY <1>6, <1>7, <1>8, <1>9, <1>10, <1>11, <1>12, <1>13 DEF MirrorSteps, MirrorInv

LEMMA RestoreStep ==
  ASSUME MirrorInv, NEW back \in SUBSET sync.moved, RestoreRetired(back)
  PROVE  MirrorSteps
<1>0. MirrorTypes /\ CopiesOK /\ OfferOK /\ SourceIsNotAhead /\ PageOK BY DEF MirrorInv
<1>1. /\ sync.at = "retiring" /\ trash' = trash \ sync.moved /\ Ends("failed")
      /\ public' = [u \in Versions |-> IF u \in back THEN mirror[u] ELSE public[u]]
      /\ page' \in {page, Rendered} /\ sync.moved # {}
      /\ UNCHANGED <<mirror, active, source, client>>
  BY DEF RestoreRetired, At
<1>2. sync' \in ImportType /\ sync'.at = "idle" /\ outcome' = "failed" BY <1>1, SyncEnds
<1>3. /\ sync.moved \in SUBSET Versions /\ \A u \in sync.moved : mirror[u] # NoDoc
      /\ sync.moved \subseteq Retiring
  BY <1>0, <1>1 DEF PageOK, MirrorTypes, ImportType
<1>4. public' \in [Versions -> Docs \cup {NoDoc}] BY <1>0, <1>1 DEF MirrorTypes
<1>5. MirrorTypes' BY <1>0, <1>1, <1>2, <1>4 DEF MirrorTypes
<1>6. CopiesOK'
  <2>1. \A u \in Versions : public'[u] # NoDoc => mirror[u] # NoDoc BY <1>0, <1>1 DEF CopiesOK
  <2>. QED BY <1>0, <1>1, <2>1 DEF CopiesOK
<1>7. OfferOK' BY <1>0, <1>1 DEF OfferOK
<1>8. ImportOK' /\ PageOK' BY <1>2 DEF ImportOK, PageOK, Trimmed
<1>9. SourceIsNotAhead' BY <1>0, <1>1 DEF SourceIsNotAhead
<1>10. PageIsTrue' BY <1>2 DEF PageIsTrue
<1>11. GoesOn
  <2>1. \A u \in trash : u \notin trash' => u \in Retiring BY <1>1, <1>3
  <2>. QED BY <1>1, <1>2, <2>1 DEF GoesOn
<1>. QED BY <1>5, <1>6, <1>7, <1>8, <1>9, <1>10, <1>11 DEF MirrorSteps, MirrorInv

LEMMA IndexRetiredStep ==
  ASSUME MirrorInv, IndexRetired
  PROVE  MirrorSteps
<1>0. MirrorTypes /\ SourceIsNotAhead /\ PageOK /\ ImportOK BY DEF MirrorInv
<1>1. /\ sync.at = "retiring" /\ Goes("reindexed") /\ sync.moved = Retiring
      /\ page' = IF sync.moved = {} THEN page ELSE Rendered
      /\ UNCHANGED <<mirror, active, public, trash, source, outcome, client>>
  BY DEF IndexRetired, At
<1>2. sync' \in ImportType /\ sync'.at = "reindexed" /\ sync'.doc = sync.doc
  BY <1>0, <1>1, SyncGoes DEF ImportSteps
<1>3. MirrorTypes' /\ CopiesOK' /\ OfferOK' /\ ImportOK' /\ PublicVersions' = PublicVersions
  <2>1. source' \subseteq Nat /\ active = VersionOf(sync.doc) BY <1>0, <1>1 DEF MirrorTypes, ImportOK
  <2>. QED BY <1>1, <1>2, <2>1, ImportStays
<1>4. page.links = PublicVersions \cup sync.moved /\ sync.moved \cap PublicVersions = {}
  BY <1>0, <1>1 DEF PageOK
<1>5. page'.links = PublicVersions
  <2>1. CASE sync.moved = {} BY <1>1, <1>4, <2>1
  <2>2. CASE sync.moved # {} BY <1>1, <2>2 DEF Rendered
  <2>. QED BY <2>1, <2>2
<1>6. Retained(PublicVersions) = PublicVersions
  <2>1. PICK vs : vs = PublicVersions \cup sync.moved OBVIOUS
  <2>2. vs \in SUBSET Versions BY <1>0, <2>1 DEF MirrorTypes, ImportType, PublicVersions
  <2>3. sync.moved = vs \ Retained(vs) BY <1>1, <2>1 DEF Retiring
  <2>4. Retained(vs) \subseteq vs /\ Retained(Retained(vs)) = Retained(vs) BY <2>2, RetainedStays
  <2>5. PublicVersions = Retained(vs) BY <1>4, <2>1, <2>3, <2>4
  <2>. QED BY <2>4, <2>5
<1>7. PageOK'
  <2>1. page'.links = PublicVersions' /\ Retained(PublicVersions') = PublicVersions'
    BY <1>3, <1>5, <1>6
  <2>. QED BY <1>2, <2>1 DEF PageOK, Trimmed
<1>8. SourceIsNotAhead' BY <1>0, <1>1 DEF SourceIsNotAhead
<1>9. PageIsTrue' BY <1>2 DEF PageIsTrue, At
<1>10. GoesOn BY <1>1, NothingGoes
<1>. QED BY <1>3, <1>7, <1>8, <1>9, <1>10 DEF MirrorSteps, MirrorInv

LEMMA SourceStep ==
  ASSUME MirrorInv, NEW written \in BOOLEAN, PublishSource(written)
  PROVE  MirrorSteps
<1>0. MirrorTypes /\ SourceIsNotAhead /\ PageOK /\ ImportOK BY DEF MirrorInv
<1>1. /\ sync.at = "retired" /\ source' \in {Listed, Absent}
      /\ Goes("sourced") \/ Goes("unsourced")
      /\ UNCHANGED <<mirror, active, public, trash, page, outcome, client>>
  BY DEF PublishSource, At
<1>2. sync' \in ImportType /\ sync'.at \in {"sourced", "unsourced"} /\ sync'.doc = sync.doc
  BY <1>0, <1>1, SyncGoes DEF ImportSteps
<1>3. active = VersionOf(sync.doc) BY <1>0, <1>1 DEF ImportOK
<1>4. source' \subseteq Nat /\ (source' # Absent => \A u \in source' : u <= active)
  BY <1>1, <1>3, VersionFacts DEF Listed, Absent, PublicVersions
<1>5. MirrorTypes' /\ CopiesOK' /\ OfferOK' /\ ImportOK' /\ PublicVersions' = PublicVersions
  <2>1. sync.at # "idle" BY <1>1
  <2>. QED BY <1>1, <1>2, <1>3, <1>4, <2>1, ImportStays
<1>6. PageOK'
  <2>1. page.links = PublicVersions /\ Retained(PublicVersions) = PublicVersions
    BY <1>0, <1>1 DEF PageOK, Trimmed
  <2>2. page'.links = PublicVersions' /\ Retained(PublicVersions') = PublicVersions'
    BY <1>1, <1>5, <2>1
  <2>. QED BY <1>2, <2>2 DEF PageOK, Trimmed
<1>7. SourceIsNotAhead' BY <1>1, <1>4 DEF SourceIsNotAhead, Absent
<1>8. PageIsTrue' BY <1>2 DEF PageIsTrue, At
<1>9. GoesOn BY <1>1, NothingGoes
<1>. QED BY <1>5, <1>6, <1>7, <1>8, <1>9 DEF MirrorSteps, MirrorInv

LEMMA EndStep ==
  ASSUME MirrorInv, IndexSource \/ SyncStops
  PROVE  MirrorSteps
<1>0. MirrorTypes /\ SourceIsNotAhead /\ PageOK /\ ImportOK BY DEF MirrorInv
<1>1. /\ \/ Ends("failed")
         \/ Ends("done") /\ sync.at \in {"sourced", "unsourced"} /\ page' = Rendered
      /\ UNCHANGED <<mirror, active, public, trash, source, client>>
  BY DEF IndexSource, SyncStops, At
<1>2. sync' \in ImportType /\ sync'.at = "idle" BY <1>1, SyncEnds
<1>3. MirrorTypes' /\ CopiesOK' /\ OfferOK' /\ ImportOK' /\ PublicVersions' = PublicVersions
  <2>1. source' \subseteq Nat BY <1>0, <1>1 DEF MirrorTypes
  <2>. QED BY <1>1, <1>2, <2>1, ImportStays
<1>4. PageOK' BY <1>2 DEF PageOK, Trimmed
<1>5. SourceIsNotAhead' BY <1>0, <1>1 DEF SourceIsNotAhead
<1>6. PageIsTrue'
  <2>1. CASE Ends("failed")
    <3>1. outcome' = "failed" BY <2>1, SyncEnds
    <3>. QED BY <3>1 DEF PageIsTrue
  <2>2. CASE sync.at \in {"sourced", "unsourced"} /\ page' = Rendered
    <3>1. Retained(PublicVersions) = PublicVersions BY <1>0, <2>2 DEF PageOK, Trimmed
    <3>2. page'.links = PublicVersions /\ (page'.source => source # Absent) BY <2>2 DEF Rendered
    <3>3. page'.links = PublicVersions' /\ PublicVersions' = Retained(PublicVersions')
      BY <1>3, <3>1, <3>2
    <3>. QED BY <1>1, <3>2, <3>3 DEF PageIsTrue, Absent
  <2>. QED BY <1>1, <2>1, <2>2
<1>7. GoesOn BY <1>1, NothingGoes
<1>. QED BY <1>3, <1>4, <1>5, <1>6, <1>7 DEF MirrorSteps, MirrorInv

LEMMA DeviceStep ==
  ASSUME MirrorInv, CheckUpdate \/ FetchArtifact
  PROVE  MirrorSteps
<1>0. /\ MirrorTypes /\ CopiesOK /\ OfferOK /\ ImportOK /\ PageOK /\ SourceIsNotAhead /\ PageIsTrue
  BY DEF MirrorInv
<1>1. UNCHANGED <<mirror, active, public, trash, page, source, sync, outcome>>
  BY DEF CheckUpdate, FetchArtifact
<1>2. OfferOK' /\ client' \in [installed : Nat, offer : Docs \cup {NoDoc}, got : Docs \cup {NoDoc}]
  <2>1. CASE CheckUpdate
    <3>1. PICK d : d = mirror[active] OBVIOUS
    <3>2. /\ active # 0 /\ ProtocolOf(d) <= ClientProtocol
          /\ client' = [client EXCEPT !.offer = d, !.got = NoDoc]
      BY <2>1, <3>1 DEF CheckUpdate
    <3>3. d \in Docs /\ mirror[VersionOf(d)] = d
      BY <1>0, <3>1, <3>2 DEF CopiesOK, MirrorTypes
    <3>4. /\ client' \in [installed : Nat, offer : Docs \cup {NoDoc}, got : Docs \cup {NoDoc}]
          /\ client'.offer = d /\ client'.got = NoDoc
      BY <1>0, <3>2, <3>3 DEF MirrorTypes
    <3>. QED BY <1>1, <3>2, <3>3, <3>4 DEF OfferOK
  <2>2. CASE FetchArtifact
    <3>1. /\ client.offer # NoDoc /\ active = VersionOf(client.offer)
          /\ client' = [client EXCEPT !.got = mirror[active], !.installed = active]
      BY <2>2 DEF FetchArtifact
    <3>2. mirror[active] = client.offer /\ ProtocolOf(client.offer) <= ClientProtocol
      BY <1>0, <3>1 DEF OfferOK
    <3>3. active \in Nat /\ client.offer \in Docs \cup {NoDoc} BY <1>0, VersionFacts DEF MirrorTypes
    <3>4. /\ client' \in [installed : Nat, offer : Docs \cup {NoDoc}, got : Docs \cup {NoDoc}]
          /\ client'.offer = client.offer /\ client'.got = client.offer
      BY <1>0, <3>1, <3>2, <3>3 DEF MirrorTypes
    <3>. QED BY <1>1, <3>1, <3>2, <3>4 DEF OfferOK
  <2>. QED BY <2>1, <2>2
<1>3. MirrorTypes' BY <1>0, <1>1, <1>2 DEF MirrorTypes
<1>4. CopiesOK' /\ SourceIsNotAhead' BY <1>0, <1>1 DEF CopiesOK, SourceIsNotAhead
<1>5. ImportOK' BY <1>0, <1>1 DEF ImportOK, Progresses
<1>6. PublicVersions' = PublicVersions BY <1>1 DEF PublicVersions
<1>7. PageOK'
  <2>1. Retiring' = Retiring BY <1>1, <1>6 DEF Retiring
  <2>. QED BY <1>0, <1>1, <1>6, <2>1 DEF PageOK
<1>8. PageIsTrue' BY <1>0, <1>1, <1>6 DEF PageIsTrue, At
<1>9. GoesOn BY <1>1, NothingGoes
<1>. QED BY <1>2, <1>3, <1>4, <1>5, <1>7, <1>8, <1>9 DEF MirrorSteps, MirrorInv

\* For any documents the stable tag may name, and imports that finish, fail or are
\* killed anywhere: a device gets what it was offered, page and source tell the truth,
\* the public tree is what the retention rule keeps, the updater never goes back, and an
\* installer the page links is deleted only when its retirement and its put-back both fail.
THEOREM MirrorIsTrueAlways == MirrorSpec => MirrorIsTrue
<1>1. ASSUME MirrorInv, [MirrorNext]_mirrorVars PROVE MirrorInv' /\ [GoesOn]_mirrorVars
  <2>1. CASE UNCHANGED mirrorVars
    <3>1. UNCHANGED <<mirror, active, public, trash, page, source, sync, outcome, client>>
      BY <2>1 DEF mirrorVars
    <3>2. PublicVersions' = PublicVersions BY <3>1 DEF PublicVersions
    <3>3. MirrorTypes' /\ CopiesOK' /\ OfferOK' /\ SourceIsNotAhead'
      BY <1>1, <3>1 DEF MirrorInv, MirrorTypes, CopiesOK, OfferOK, SourceIsNotAhead
    <3>4. ImportOK' BY <1>1, <3>1 DEF MirrorInv, ImportOK, Progresses
    <3>7. Retiring' = Retiring BY <3>1, <3>2 DEF Retiring
    <3>5. PageOK' BY <1>1, <3>1, <3>2, <3>7 DEF MirrorInv, PageOK
    <3>6. PageIsTrue' BY <1>1, <3>1, <3>2 DEF MirrorInv, PageIsTrue, At
    <3>. QED BY <2>1, <3>3, <3>4, <3>5, <3>6 DEF MirrorInv
  <2>2. CASE MirrorNext
    <3>. SUFFICES MirrorSteps BY DEF MirrorSteps
    <3>1. CASE \E d \in Docs : Prepare(d) BY <1>1, <3>1, PrepareStep
    <3>2. CASE PublishPublic BY <1>1, <3>2, PublishStep
    <3>3. CASE IndexRelease BY <1>1, <3>3, IndexReleaseStep
    <3>4. CASE Activate BY <1>1, <3>4, ActivateStep
    <3>5. CASE SweepRetired \/ DeleteRetired BY <1>1, <3>5, SweepStep
    <3>6. CASE \E back \in SUBSET sync.moved : RestoreRetired(back) BY <1>1, <3>6, RestoreStep
    <3>7. CASE IndexRetired BY <1>1, <3>7, IndexRetiredStep
    <3>8. CASE \E v \in Versions : MoveRetired(v) BY <1>1, <3>8, MoveStep
    <3>9. CASE \E written \in BOOLEAN : PublishSource(written) BY <1>1, <3>9, SourceStep
    <3>10. CASE IndexSource \/ SyncStops BY <1>1, <3>10, EndStep
    <3>11. CASE CheckUpdate \/ FetchArtifact BY <1>1, <3>11, DeviceStep
    <3>. QED
      BY <2>2, <3>1, <3>2, <3>3, <3>4, <3>5, <3>6, <3>7, <3>8, <3>9, <3>10, <3>11 DEF MirrorNext
  <2>. QED BY <1>1, <2>1, <2>2
<1>2. MirrorInv => OfferIsHonoured /\ SourceIsNotAhead /\ PageIsTrue
  BY DEF MirrorInv, OfferOK, OfferIsHonoured
<1>. QED BY MirrorStarts, <1>1, <1>2, PTL DEF MirrorSpec, MirrorIsTrue

-----------------------------------------------------------------------------
(* Totals of integers over a finite set.                                    *)

Weighs(S, w) == IsFiniteSet(S) /\ \A x \in S : w[x] \in Int

LEMMA TotalIsSum ==
  ASSUME NEW S, NEW w, Weighs(S, w)
  PROVE  \E f \in [SUBSET S -> Int] : IsSum(f, w, S) /\ Total(S, w) = f[S]
<1>0. IsFiniteSet(S) /\ \A x \in S : w[x] \in Int BY DEF Weighs
<1>1. \E f \in [SUBSET S -> Int] : IsSum(f, w, S)
  <2>1. PICK F : F = [x \in S \X Int |-> w[x[1]] + x[2]] OBVIOUS
  <2>6. ASSUME NEW x \in S, NEW h \in Int PROVE F[x, h] = w[x] + h /\ F[x, h] \in Int
    <3>1. F[x, h] = w[x] + h BY <2>1
    <3>2. w[x] + h \in Int BY <1>0
    <3>. QED BY <3>1, <3>2, Zenon
  <2>2. StaysIn(F, S, Int) BY <2>6 DEF StaysIn
  <2>3. PICK f \in [SUBSET S -> Int] : IsFold(f, F, 0, S) BY <1>0, <2>2, FoldExists, 0 \in Int
  <2>4. ASSUME NEW s \in SUBSET S PROVE f[s] = PartSum(f, w, s)
    <3>1. f[s] = PartFold(f, F, 0, s) BY <2>3 DEF IsFold
    <3>2. CASE s = {} BY <3>1, <3>2 DEF PartFold, PartSum
    <3>3. CASE s # {}
      <4>1. PICK x : x = Any(s) OBVIOUS
      <4>2. x \in S /\ s \ {x} \in SUBSET S BY <3>3, <4>1, AnyIsOne
      <4>3. f[s] = F[x, f[s \ {x}]] BY <3>1, <3>3, <4>1 DEF PartFold
      <4>4. f[s \ {x}] \in Int BY <4>2
      <4>5. f[s] = w[x] + f[s \ {x}] BY <2>6, <4>2, <4>3, <4>4
      <4>. QED BY <3>3, <4>1, <4>5 DEF PartSum
    <3>. QED BY <3>2, <3>3
  <2>5. f = [s \in SUBSET S |-> PartSum(f, w, s)] BY <2>4
  <2>. QED BY <2>5 DEF IsSum
<1>2. PICK f : f = CHOOSE g : IsSum(g, w, S) OBVIOUS
<1>3. IsSum(f, w, S) BY <1>1, <1>2, Zenon
<1>4. Total(S, w) = f[S] BY <1>2, Zenon DEF Total, MapThenSumSet, MapThenFoldSet, IsSum, PartSum, Any
<1>5. f = [s \in SUBSET S |-> f[s]] BY <1>3, Zenon DEF IsSum
<1>6. \A s \in SUBSET S : f[s] \in Int
  <2>. DEFINE G == {s \in SUBSET S : f[s] \in Int}
  <2>0. \A s \in SUBSET S : f[s] = PartSum(f, w, s) BY <1>3, SumUnfolds
  <2>1. {} \in G
    <3>1. f[{}] = 0 BY <2>0 DEF PartSum
    <3>. QED BY <3>1
  <2>2. ASSUME NEW s \in SUBSET S, s # {}, \A x \in s : s \ {x} \in G PROVE s \in G
    <3>1. PICK x : x = Any(s) OBVIOUS
    <3>2. x \in s BY <2>2, <3>1, AnyIsOne
    <3>3. f[s] = w[x] + f[s \ {x}] BY <2>0, <2>2, <3>1 DEF PartSum
    <3>4. f[s \ {x}] \in Int /\ w[x] \in Int BY <1>0, <2>2, <3>2
    <3>. QED BY <3>3, <3>4
  <2>3. \A s \in SUBSET S : s \in G
    <3>. HIDE DEF G
    <3>. QED BY <1>0, <2>1, <2>2, SubsetInduces
  <2>. QED BY <2>3
<1>. QED BY <1>3, <1>4, <1>5, <1>6

\* Sums agree where the weights do.
LEMMA SumsAgree ==
  ASSUME NEW S, NEW T \in SUBSET S, IsFiniteSet(T), NEW w, NEW v, \A x \in T : v[x] = w[x],
         NEW f, IsSum(f, w, S), NEW g, IsSum(g, v, T)
  PROVE  \A s \in SUBSET T : g[s] = f[s]
<1>. DEFINE G == {s \in SUBSET T : g[s] = f[s]}
<1>0. /\ \A s \in SUBSET S : f[s] = PartSum(f, w, s)
      /\ \A s \in SUBSET T : g[s] = PartSum(g, v, s)
  BY SumUnfolds
<1>1. {} \in G
  <2>1. f[{}] = 0 /\ g[{}] = 0 BY <1>0 DEF PartSum
  <2>. QED BY <2>1
<1>2. ASSUME NEW s \in SUBSET T, s # {}, \A x \in s : s \ {x} \in G PROVE s \in G
  <2>1. PICK x : x = Any(s) OBVIOUS
  <2>2. x \in s BY <1>2, <2>1, AnyIsOne
  <2>3. s \in SUBSET S OBVIOUS
  <2>4. f[s] = w[x] + f[s \ {x}] /\ g[s] = v[x] + g[s \ {x}] BY <1>0, <1>2, <2>1, <2>3 DEF PartSum
  <2>5. g[s \ {x}] = f[s \ {x}] /\ v[x] = w[x] BY <1>2, <2>2
  <2>. QED BY <2>4, <2>5
<1>3. \A s \in SUBSET T : s \in G
  <2>. HIDE DEF G
  <2>. QED BY <1>1, <1>2, SubsetInduces
<1>. QED BY <1>3

TotalSplits(S, w) ==
    /\ Total(S, w) \in Int
    /\ \A c \in S : Total(S, w) = w[c] + Total(S \ {c}, w) /\ Total(S \ {c}, w) \in Int

\* A total may be taken apart at any element.
LEMMA TotalTakes ==
  ASSUME NEW S, NEW w, Weighs(S, w)
  PROVE  TotalSplits(S, w)
<1>0. IsFiniteSet(S) /\ \A x \in S : w[x] \in Int BY DEF Weighs
<1>1. PICK f \in [SUBSET S -> Int] : IsSum(f, w, S) /\ Total(S, w) = f[S] BY TotalIsSum
<1>2. \A s \in SUBSET S : f[s] = PartSum(f, w, s) /\ f[s] \in Int BY <1>1, SumUnfolds
<1>3. \A s \in SUBSET S : \A c \in s : f[s] = w[c] + f[s \ {c}]
  <2>. DEFINE G == {s \in SUBSET S : \A c \in s : f[s] = w[c] + f[s \ {c}]}
  <2>1. {} \in G OBVIOUS
  <2>2. ASSUME NEW s \in SUBSET S, s # {}, \A x \in s : s \ {x} \in G PROVE s \in G
    <3>1. PICK x \in s : x = Any(s) BY <2>2, AnyIsOne
    <3>2. f[s] = w[x] + f[s \ {x}] BY <1>2, <2>2, <3>1 DEF PartSum
    <3>3. ASSUME NEW c \in s PROVE f[s] = w[c] + f[s \ {c}]
      <4>1. CASE c = x BY <3>2, <4>1
      <4>2. CASE c # x
        <5>1. (s \ {x}) \ {c} = (s \ {c}) \ {x} OBVIOUS
        <5>2. f[s \ {x}] = w[c] + f[(s \ {x}) \ {c}] BY <2>2, <4>2
        <5>3. f[s \ {c}] = w[x] + f[(s \ {c}) \ {x}] BY <2>2, <4>2
        <5>4. w[c] \in Int /\ w[x] \in Int /\ f[(s \ {x}) \ {c}] \in Int BY <1>0, <1>2
        <5>5. PICK k : k = f[(s \ {x}) \ {c}] OBVIOUS
        <5>6. f[s] = w[x] + (w[c] + k) /\ f[s \ {c}] = w[x] + k BY <3>2, <5>1, <5>2, <5>3, <5>5
        <5>. QED BY <5>4, <5>5, <5>6
      <4>. QED BY <4>1, <4>2
    <3>. QED BY <3>3
  <2>3. \A s \in SUBSET S : s \in G
    <3>. HIDE DEF G
    <3>. QED BY <1>0, <2>1, <2>2, SubsetInduces
  <2>. QED BY <2>3
<1>4. ASSUME NEW c \in S PROVE Total(S \ {c}, w) = f[S \ {c}]
  <2>1. PICK T : T = S \ {c} OBVIOUS
  <2>2. T \in SUBSET S /\ IsFiniteSet(T) BY <1>0, <2>1, FS_Subset
  <2>3. Weighs(T, w) BY <1>0, <2>2 DEF Weighs
  <2>4. PICK g \in [SUBSET T -> Int] : IsSum(g, w, T) /\ Total(T, w) = g[T] BY <2>3, TotalIsSum
  <2>5. \A s \in SUBSET T : g[s] = f[s] BY <1>1, <2>2, <2>4, SumsAgree
  <2>. QED BY <2>1, <2>4, <2>5
<1>. QED BY <1>1, <1>2, <1>3, <1>4 DEF TotalSplits

LEMMA TotalEmpty == \A w : Total({}, w) = 0
<1>. SUFFICES ASSUME NEW w PROVE Total({}, w) = 0 OBVIOUS
<1>1. Weighs({}, w) BY FS_EmptySet DEF Weighs
<1>2. PICK f \in [SUBSET {} -> Int] : IsSum(f, w, {}) /\ Total({}, w) = f[{}] BY <1>1, TotalIsSum
<1>3. f[{}] = PartSum(f, w, {}) BY <1>2, SumUnfolds
<1>. QED BY <1>2, <1>3 DEF PartSum

\* Totals of weights that agree are the same.
LEMMA TotalsAgree ==
  ASSUME NEW S, NEW w, NEW v, Weighs(S, w), \A x \in S : v[x] = w[x]
  PROVE  Total(S, v) = Total(S, w)
<1>1. PICK f \in [SUBSET S -> Int] : IsSum(f, w, S) /\ Total(S, w) = f[S] BY TotalIsSum
<1>2. Weighs(S, v) BY DEF Weighs
<1>3. PICK g \in [SUBSET S -> Int] : IsSum(g, v, S) /\ Total(S, v) = g[S] BY <1>2, TotalIsSum
<1>4. IsFiniteSet(S) /\ S \in SUBSET S BY DEF Weighs
<1>5. \A s \in SUBSET S : g[s] = f[s] BY <1>1, <1>3, <1>4, SumsAgree
<1>. QED BY <1>1, <1>3, <1>5

\* A smaller weight everywhere is a smaller total.
LEMMA TotalIsMonotone ==
  ASSUME NEW S, NEW v, NEW w, Weighs(S, v), Weighs(S, w), \A x \in S : v[x] <= w[x]
  PROVE  Total(S, v) <= Total(S, w)
<1>. DEFINE G == {s \in SUBSET S : Total(s, v) <= Total(s, w)}
<1>0. \A s \in SUBSET S : Weighs(s, v) /\ Weighs(s, w) BY FS_Subset DEF Weighs
<1>1. {} \in G BY TotalEmpty
<1>2. ASSUME NEW s \in SUBSET S, s # {}, \A x \in s : s \ {x} \in G PROVE s \in G
  <2>1. PICK x \in s : TRUE BY <1>2
  <2>2. TotalSplits(s, v) /\ TotalSplits(s, w) BY <1>0, TotalTakes
  <2>3. PICK a, b : a = Total(s \ {x}, v) /\ b = Total(s \ {x}, w) OBVIOUS
  <2>4. a \in Int /\ b \in Int /\ Total(s, v) = v[x] + a /\ Total(s, w) = w[x] + b BY <2>2, <2>3 DEF TotalSplits
  <2>5. a <= b /\ v[x] <= w[x] /\ v[x] \in Int /\ w[x] \in Int BY <1>0, <1>2, <2>3 DEF Weighs
  <2>6. Total(s, v) <= Total(s, w) BY <2>4, <2>5
  <2>. QED BY <2>6
<1>3. IsFiniteSet(S) BY DEF Weighs
<1>4. \A s \in SUBSET S : s \in G
  <2>. HIDE DEF G
  <2>. QED BY <1>1, <1>2, <1>3, SubsetInduces
<1>. QED BY <1>4

\* Totals add up weight by weight.
LEMMA TotalsAdd ==
  ASSUME NEW S, NEW u, NEW v, NEW w, Weighs(S, v), Weighs(S, w), \A x \in S : u[x] = v[x] + w[x]
  PROVE  Total(S, u) = Total(S, v) + Total(S, w)
<1>. DEFINE G == {s \in SUBSET S : Total(s, u) = Total(s, v) + Total(s, w)}
<1>0. \A s \in SUBSET S : Weighs(s, u) /\ Weighs(s, v) /\ Weighs(s, w) BY FS_Subset DEF Weighs
<1>1. {} \in G BY TotalEmpty
<1>2. ASSUME NEW s \in SUBSET S, s # {}, \A x \in s : s \ {x} \in G PROVE s \in G
  <2>1. PICK x \in s : TRUE BY <1>2
  <2>2. TotalSplits(s, u) /\ TotalSplits(s, v) /\ TotalSplits(s, w) BY <1>0, TotalTakes
  <2>3. PICK a, b, c : a = Total(s \ {x}, u) /\ b = Total(s \ {x}, v) /\ c = Total(s \ {x}, w) OBVIOUS
  <2>4. /\ a \in Int /\ b \in Int /\ c \in Int
        /\ Total(s, u) = u[x] + a /\ Total(s, v) = v[x] + b /\ Total(s, w) = w[x] + c
    BY <2>2, <2>3 DEF TotalSplits
  <2>5. a = b + c /\ u[x] = v[x] + w[x] /\ v[x] \in Int /\ w[x] \in Int BY <1>0, <1>2, <2>3 DEF Weighs
  <2>6. Total(s, u) = Total(s, v) + Total(s, w) BY <2>4, <2>5
  <2>. QED BY <2>6
<1>3. IsFiniteSet(S) BY DEF Weighs
<1>4. \A s \in SUBSET S : s \in G
  <2>. HIDE DEF G
  <2>. QED BY <1>1, <1>2, <1>3, SubsetInduces
<1>. QED BY <1>4

\* What weighs nothing may be left out.
LEMMA TotalDropsZeros ==
  ASSUME NEW S, NEW T \in SUBSET S, NEW w, Weighs(S, w), \A x \in S \ T : w[x] = 0
  PROVE  Total(S, w) = Total(T, w)
<1>. DEFINE G == {s \in SUBSET S : Total(s, w) = Total(s \cap T, w)}
<1>0. \A s \in SUBSET S : Weighs(s, w) /\ Weighs(s \cap T, w) BY FS_Subset DEF Weighs
<1>1. {} \in G
  <2>1. {} \cap T = {} OBVIOUS
  <2>. QED BY <2>1
<1>2. ASSUME NEW s \in SUBSET S, s # {}, \A x \in s : s \ {x} \in G PROVE s \in G
  <2>1. PICK x \in s : TRUE BY <1>2
  <2>2. TotalSplits(s, w) /\ TotalSplits(s \cap T, w) BY <1>0, TotalTakes
  <2>3. Total(s \ {x}, w) = Total((s \ {x}) \cap T, w) BY <1>2
  <2>4. Total(s, w) = w[x] + Total(s \ {x}, w) /\ Total(s \ {x}, w) \in Int BY <2>2 DEF TotalSplits
  <2>5. CASE x \in T
    <3>1. (s \ {x}) \cap T = (s \cap T) \ {x} /\ x \in s \cap T BY <2>5
    <3>2. Total(s \cap T, w) = w[x] + Total((s \cap T) \ {x}, w) BY <2>2, <3>1 DEF TotalSplits
    <3>3. Total(s, w) = Total(s \cap T, w) BY <2>3, <2>4, <3>1, <3>2
    <3>. QED BY <3>3
  <2>6. CASE x \notin T
    <3>1. (s \ {x}) \cap T = s \cap T /\ w[x] = 0 BY <2>6
    <3>3. PICK a : a = Total(s \ {x}, w) OBVIOUS
    <3>4. a \in Int /\ Total(s, w) = 0 + a /\ a = Total(s \cap T, w) BY <2>3, <2>4, <3>1, <3>3
    <3>2. Total(s, w) = Total(s \cap T, w) BY <3>4
    <3>. QED BY <3>2
  <2>. QED BY <2>5, <2>6
<1>3. IsFiniteSet(S) BY DEF Weighs
<1>4. \A s \in SUBSET S : s \in G
  <2>. HIDE DEF G
  <2>. QED BY <1>1, <1>2, <1>3, SubsetInduces
<1>5. S \cap T = T OBVIOUS
<1>. QED BY <1>4, <1>5

-----------------------------------------------------------------------------
(* The lot ledger.                                                          *)

Lot == [mint : Coins, tokens : Nat \ {0}, cost : Int, at : Nat]
Trade == [mint : Coins, opened : Nat, at : Nat, net : Int]

IsLots(lots) ==
    IsFiniteSet(DOMAIN lots) /\ DOMAIN lots \subseteq Nat /\ lots \in [DOMAIN lots -> Lot]

IsLedger(l) ==
    /\ l = [lots |-> l.lots, closed |-> l.closed, partial |-> l.partial, since |-> l.since,
            costs |-> l.costs, last |-> l.last]
    /\ IsLots(l.lots)
    /\ l.closed \in Seq(Trade)
    /\ l.partial \in [Coins -> Int] /\ l.since \in [Coins -> Int] /\ l.costs \in Int /\ l.last \in Nat

\* Nothing is dated after the last event, and the trades of a mint, its trip under way and its
\* lots follow one another.
InTime(l) ==
    /\ \A i \in DOMAIN l.lots : l.lots[i].at <= l.last
    /\ \A c \in Coins : l.since[c] <= l.last
    /\ \A k \in DOMAIN l.closed :
          /\ l.closed[k].opened <= l.closed[k].at /\ l.closed[k].at <= l.last
          /\ l.since[l.closed[k].mint] >= 0 => l.closed[k].at <= l.since[l.closed[k].mint]
          /\ \A i \in DOMAIN l.lots :
                l.lots[i].mint = l.closed[k].mint => l.closed[k].at <= l.lots[i].at
    /\ \A j, k \in DOMAIN l.closed :
          j < k /\ l.closed[j].mint = l.closed[k].mint => l.closed[j].at <= l.closed[k].opened

Invested(l) == Total(DOMAIN l.lots, LotCosts(l.lots))

LedgerInv ==
    /\ IsLedger(ledger) /\ InTime(ledger)
    /\ paid \in Int /\ earned \in Int
    /\ Realised(ledger) + SumCoins(ledger.partial) = earned - (paid - Invested(ledger))

LEMMA LargerOf ==
  ASSUME NEW x \in Int
  PROVE  Max({0, x}) \in Nat /\ Max({0, x}) >= x /\ (x >= 0 => Max({0, x}) = x)
<1>1. \E m \in {0, x} : \A z \in {0, x} : m >= z OBVIOUS
<1>2. Max({0, x}) \in {0, x} /\ \A z \in {0, x} : Max({0, x}) >= z BY <1>1 DEF Max
<1>. QED BY <1>2

\* Totals of a ledger are whole numbers.
LEMMA LotsWeigh ==
  ASSUME NEW lots, IsLots(lots)
  PROVE  \A S \in SUBSET (DOMAIN lots) :
            /\ Weighs(S, LotTokens(lots)) /\ Weighs(S, LotCosts(lots))
            /\ Total(S, LotTokens(lots)) \in Int /\ Total(S, LotCosts(lots)) \in Int
<1>. SUFFICES ASSUME NEW S \in SUBSET (DOMAIN lots)
              PROVE  /\ Weighs(S, LotTokens(lots)) /\ Weighs(S, LotCosts(lots))
                     /\ Total(S, LotTokens(lots)) \in Int /\ Total(S, LotCosts(lots)) \in Int
  OBVIOUS
<1>0. IsFiniteSet(S) BY FS_Subset DEF IsLots
<1>1. \A i \in S : lots[i] \in Lot BY DEF IsLots
<1>2. \A i \in S : LotTokens(lots)[i] \in Int /\ LotCosts(lots)[i] \in Int
  BY <1>1 DEF LotTokens, LotCosts, Lot
<1>3. Weighs(S, LotTokens(lots)) /\ Weighs(S, LotCosts(lots)) BY <1>0, <1>2 DEF Weighs
<1>4. TotalSplits(S, LotTokens(lots)) /\ TotalSplits(S, LotCosts(lots)) BY <1>3, TotalTakes
<1>. QED BY <1>3, <1>4 DEF TotalSplits

\* What a sell takes of a lot.
LEMMA TakenIs ==
  ASSUME NEW lots, IsLots(lots), NEW c, NEW tokens \in Nat, NEW i \in DOMAIN lots, NEW t,
         t = TakenAt(lots, c, tokens, i)
  PROVE  /\ t.take \in 0 .. lots[i].tokens /\ t.cost \in Int
         /\ t.take = lots[i].tokens => t.cost = lots[i].cost
<1>1. PICK lot \in Lot : lot = lots[i] BY DEF IsLots
<1>2. lot.tokens \in Nat \ {0} /\ lot.cost \in Int BY DEF Lot
<1>3. CASE lot.mint # c BY <1>1, <1>2, <1>3 DEF TakenAt
<1>4. CASE lot.mint = c
  <2>1. PICK left : left = LeftAt(lots, c, tokens, i) OBVIOUS
  <2>2. left \in Nat
    <3>1. PICK older : older = {j \in DOMAIN lots : j < i /\ lots[j].mint = c} OBVIOUS
    <3>2. older \in SUBSET (DOMAIN lots) BY <3>1
    <3>3. Total(older, LotTokens(lots)) \in Int BY <3>2, LotsWeigh
    <3>4. PICK x \in Int : x = tokens - Total(older, LotTokens(lots)) BY <3>3
    <3>5. left = Max({0, x}) BY <2>1, <3>1, <3>4 DEF LeftAt
    <3>. QED BY <3>5, LargerOf
  <2>3. t = ShareOf(lot, left) BY <1>1, <1>4, <2>1 DEF TakenAt
  <2>4. PICK n : n = Lesser(left, lot.tokens) OBVIOUS
  <2>5. n \in 0 .. lot.tokens BY <1>2, <2>2, <2>4 DEF Lesser
  <2>6. t.take = n /\ t.cost = IF n = lot.tokens THEN lot.cost
                                ELSE Lesser((lot.cost * n) \div lot.tokens, lot.cost)
    BY <2>3, <2>4 DEF ShareOf
  <2>7. (lot.cost * n) \div lot.tokens \in Int
    <3>1. PICK p \in Int : p = lot.cost * n BY <1>2, <2>5
    <3>. QED BY <1>2, <3>1
  <2>. QED BY <1>1, <1>2, <2>5, <2>6, <2>7 DEF Lesser
<1>. QED BY <1>1, <1>3, <1>4

\* A lot after a sell.
LEMMA ReducedIs ==
  ASSUME NEW lots, IsLots(lots), NEW c, NEW tokens \in Nat, NEW i \in DOMAIN lots, NEW r,
         r = Reduced(lots, c, tokens, i), NEW t, t = TakenAt(lots, c, tokens, i)
  PROVE  /\ r.mint = lots[i].mint /\ r.at = lots[i].at /\ r.tokens = lots[i].tokens - t.take
         /\ r.tokens \in Nat
         /\ r.cost = lots[i].cost - t.cost /\ r.cost \in Int /\ t.cost \in Int
         /\ r.tokens # 0 => r \in Lot
         /\ r.tokens = 0 => r.cost = 0
<1>1. PICK lot \in Lot : lot = lots[i] BY DEF IsLots
<1>2. lot.tokens \in Nat \ {0} /\ lot.cost \in Int /\ lot.mint \in Coins /\ lot.at \in Nat BY DEF Lot
<1>3. /\ t.take \in 0 .. lots[i].tokens /\ t.cost \in Int
      /\ t.take = lots[i].tokens => t.cost = lots[i].cost
  BY TakenIs
<1>4. r = [lot EXCEPT !.tokens = @ - t.take, !.cost = @ - t.cost] BY <1>1 DEF Reduced
<1>5. /\ r = [mint |-> lot.mint, tokens |-> lot.tokens - t.take, cost |-> lot.cost - t.cost, at |-> lot.at]
  BY <1>4 DEF Lot
<1>6. /\ r.mint = lot.mint /\ r.at = lot.at /\ r.tokens = lot.tokens - t.take /\ r.cost = lot.cost - t.cost
      /\ r.tokens \in Nat /\ r.cost \in Int
  BY <1>1, <1>2, <1>3, <1>5
<1>7. r.tokens # 0 => r \in Lot BY <1>2, <1>5, <1>6 DEF Lot
<1>. QED BY <1>1, <1>2, <1>3, <1>6, <1>7

LEMMA ConsumeIs ==
  ASSUME NEW lots, IsLots(lots), NEW c, NEW tokens \in Nat, NEW rest, rest = Consume(lots, c, tokens)
  PROVE  /\ IsLots(rest) /\ DOMAIN rest \in SUBSET (DOMAIN lots)
         /\ \A i \in DOMAIN rest : rest[i].mint = lots[i].mint /\ rest[i].at = lots[i].at
         /\ CostTaken(lots, c, tokens) \in Int
         /\ Total(DOMAIN lots, LotCosts(lots)) = Total(DOMAIN rest, LotCosts(rest)) + CostTaken(lots, c, tokens)
<1>1. PICK D : D = DOMAIN lots OBVIOUS
<1>2. PICK red : red = [i \in D |-> Reduced(lots, c, tokens, i)] OBVIOUS
<1>3. PICK tak : tak = [i \in D |-> TakenAt(lots, c, tokens, i)] OBVIOUS
<1>4. ASSUME NEW i \in D
      PROVE  /\ red[i].mint = lots[i].mint /\ red[i].at = lots[i].at /\ red[i].tokens = lots[i].tokens - tak[i].take
             /\ red[i].tokens \in Nat
             /\ red[i].cost = lots[i].cost - tak[i].cost /\ red[i].cost \in Int /\ tak[i].cost \in Int
             /\ red[i].tokens # 0 => red[i] \in Lot
             /\ red[i].tokens = 0 => red[i].cost = 0
  <2>1. red[i] = Reduced(lots, c, tokens, i) /\ tak[i] = TakenAt(lots, c, tokens, i) BY <1>2, <1>3
  <2>2. i \in DOMAIN lots BY <1>1
  <2>. QED BY <2>1, <2>2, ReducedIs
<1>5. PICK E : E = {j \in D : red[j].tokens # 0} OBVIOUS
<1>6. E = {j \in DOMAIN lots : Reduced(lots, c, tokens, j).tokens # 0} BY <1>1, <1>2, <1>5
<1>7. rest = [i \in E |-> Reduced(lots, c, tokens, i)] BY <1>6 DEF Consume
<1>8. DOMAIN rest = E /\ \A i \in E : rest[i] = red[i] BY <1>1, <1>2, <1>5, <1>7
<1>9. IsFiniteSet(D) /\ D \in SUBSET Nat BY <1>1 DEF IsLots
<1>10. E \in SUBSET D BY <1>5
<1>11. IsFiniteSet(E) BY <1>9, <1>10, FS_Subset
<1>12. \A i \in E : rest[i] \in Lot BY <1>4, <1>5, <1>8
<1>13. IsLots(rest)
  <2>1. rest \in [E -> Lot] BY <1>7, <1>8, <1>12
  <2>. QED BY <1>8, <1>9, <1>10, <1>11, <2>1 DEF IsLots
<1>14. PICK a, b : a = [i \in D |-> red[i].cost] /\ b = [i \in D |-> tak[i].cost] OBVIOUS
<1>15. Weighs(D, a) /\ Weighs(D, b) BY <1>4, <1>9, <1>14 DEF Weighs
<1>16. Total(D, b) = CostTaken(lots, c, tokens)
  <2>1. b = [i \in DOMAIN lots |-> TakenAt(lots, c, tokens, i).cost] BY <1>1, <1>3, <1>14
  <2>. QED BY <1>1, <2>1 DEF CostTaken
<1>17. Total(D, LotCosts(lots)) = Total(D, a) + Total(D, b)
  <2>1. \A i \in D : lots[i].cost \in Int BY <1>1 DEF IsLots, Lot
  <2>2. \A i \in D : LotCosts(lots)[i] = a[i] + b[i]
    <3>. SUFFICES ASSUME NEW i \in D PROVE LotCosts(lots)[i] = a[i] + b[i] OBVIOUS
    <3>1. LotCosts(lots)[i] = lots[i].cost BY <1>1 DEF LotCosts
    <3>2. a[i] = lots[i].cost - tak[i].cost /\ b[i] = tak[i].cost /\ tak[i].cost \in Int BY <1>4, <1>14
    <3>. QED BY <2>1, <3>1, <3>2
  <2>. QED BY <1>15, <2>2, TotalsAdd
<1>18. Total(D, a) = Total(E, a)
  <2>1. \A i \in D \ E : a[i] = 0 BY <1>4, <1>5, <1>14
  <2>. QED BY <1>10, <1>15, <2>1, TotalDropsZeros
<1>19. Total(E, LotCosts(rest)) = Total(E, a)
  <2>1. \A i \in E : LotCosts(rest)[i] = a[i] BY <1>8, <1>10, <1>14 DEF LotCosts
  <2>2. Weighs(E, a) BY <1>10, <1>11, <1>15 DEF Weighs
  <2>. QED BY <2>1, <2>2, TotalsAgree
<1>20. TotalSplits(D, b) BY <1>15, TotalTakes
<1>21. CostTaken(lots, c, tokens) \in Int BY <1>16, <1>20 DEF TotalSplits
<1>. QED BY <1>1, <1>4, <1>8, <1>10, <1>13, <1>16, <1>17, <1>18, <1>19, <1>21

\* A lot bought goes to a new place, after all others.
LEMMA NextIsNew ==
  ASSUME NEW lots, IsLots(lots)
  PROVE  NextPlace(lots) \in Nat /\ \A i \in DOMAIN lots : i < NextPlace(lots)
<1>1. PICK S : S = DOMAIN lots \cup {0} OBVIOUS
<1>2. IsFiniteSet(S) /\ S \in SUBSET Nat /\ S # {} BY <1>1, FS_AddElement DEF IsLots
<1>3. PICK x \in S : \A y \in S : y <= x BY <1>2, LargestOf
<1>4. \E m \in S : \A y \in S : m >= y BY <1>2, <1>3
<1>5. PICK m : m = Max(S) OBVIOUS
<1>6. m \in S /\ \A y \in S : m >= y BY <1>4, <1>5 DEF Max
<1>7. m \in Nat /\ NextPlace(lots) = m + 1 BY <1>1, <1>2, <1>5, <1>6 DEF NextPlace
<1>8. \A i \in DOMAIN lots : i \in Nat /\ m >= i BY <1>1, <1>2, <1>6
<1>. QED BY <1>7, <1>8

AddedTo(l, lot, n) ==
    /\ n.last = lot.at
    /\ \E p : /\ p \notin DOMAIN l.lots /\ DOMAIN n.lots = DOMAIN l.lots \cup {p}
              /\ n.lots[p] = lot /\ \A i \in DOMAIN l.lots : n.lots[i] = l.lots[i]

LEMMA OpenIs ==
  ASSUME NEW l, IsLedger(l), InTime(l), NEW lot \in Lot, CanOpenLot(l, lot), NEW n, n = OpenLot(l, lot)
  PROVE  /\ IsLedger(n) /\ InTime(n)
         /\ n.closed = l.closed /\ n.partial = l.partial /\ n.costs = l.costs
         /\ Invested(n) = Invested(l) + lot.cost /\ Invested(l) \in Int
         /\ AddedTo(l, lot, n)
<1>1. PICK lots : lots = l.lots OBVIOUS
<1>2. IsLots(lots) BY <1>1 DEF IsLedger
<1>3. PICK p \in Nat : p = NextPlace(lots) /\ \A i \in DOMAIN lots : i < p BY <1>2, NextIsNew
<1>4. PICK D : D = DOMAIN lots OBVIOUS
<1>5. IsFiniteSet(D) /\ D \in SUBSET Nat BY <1>2, <1>4 DEF IsLots
<1>6. p \notin D
  <2>. SUFFICES ASSUME p \in D PROVE FALSE OBVIOUS
  <2>1. p < p BY <1>3, <1>4
  <2>. QED BY <2>1
<1>7. PICK after : after = [i \in D \cup {p} |-> IF i \in D THEN lots[i] ELSE lot] OBVIOUS
<1>8. n = [l EXCEPT !.lots = after, !.last = lot.at] BY <1>1, <1>3, <1>4, <1>7 DEF OpenLot
<1>9. /\ n.lots = after /\ n.closed = l.closed /\ n.partial = l.partial /\ n.since = l.since
      /\ n.costs = l.costs /\ n.last = lot.at
      /\ n = [lots |-> n.lots, closed |-> n.closed, partial |-> n.partial, since |-> n.since,
              costs |-> n.costs, last |-> n.last]
  BY <1>8 DEF IsLedger
<1>10. DOMAIN after = D \cup {p} /\ after[p] = lot /\ \A i \in D : after[i] = lots[i] BY <1>6, <1>7
<1>11. \A i \in D : lots[i] \in Lot BY <1>2, <1>4 DEF IsLots
<1>12. IsLots(after)
  <2>1. IsFiniteSet(D \cup {p}) BY <1>5, FS_AddElement
  <2>2. after \in [D \cup {p} -> Lot] BY <1>7, <1>11
  <2>. QED BY <1>5, <1>10, <2>1, <2>2 DEF IsLots
<1>13. lot.at \in Nat /\ lot.cost \in Int /\ l.last <= lot.at BY DEF Lot, CanOpenLot, InOrder
<1>14. IsLedger(n) BY <1>9, <1>12, <1>13 DEF IsLedger
<1>15. InTime(n)
  <2>1. \A i \in D : lots[i].at \in Nat BY <1>11 DEF Lot
  <2>2. \A k \in DOMAIN l.closed : l.closed[k].at \in Nat /\ l.closed[k].mint \in Coins
    <3>. SUFFICES ASSUME NEW k \in DOMAIN l.closed PROVE l.closed[k].at \in Nat /\ l.closed[k].mint \in Coins OBVIOUS
    <3>1. PICK q : q = l.closed /\ q \in Seq(Trade) BY DEF IsLedger
    <3>2. q[k] \in Trade BY <3>1
    <3>. QED BY <3>1, <3>2 DEF Trade
  <2>3. l.last \in Nat /\ \A c \in Coins : l.since[c] \in Int BY DEF IsLedger
  <2>4. \A i \in DOMAIN n.lots : n.lots[i].at <= n.last
    BY <1>1, <1>4, <1>9, <1>10, <1>13, <2>1, <2>3 DEF InTime
  <2>5. \A c \in Coins : n.since[c] <= n.last BY <1>9, <1>13, <2>3 DEF InTime
  <2>6. ASSUME NEW k \in DOMAIN n.closed
        PROVE  /\ n.closed[k].opened <= n.closed[k].at /\ n.closed[k].at <= n.last
               /\ n.since[n.closed[k].mint] >= 0 => n.closed[k].at <= n.since[n.closed[k].mint]
               /\ \A i \in DOMAIN n.lots :
                     n.lots[i].mint = n.closed[k].mint => n.closed[k].at <= n.lots[i].at
    <3>1. k \in DOMAIN l.closed BY <1>9
    <3>2. n.closed[k].at <= n.last BY <1>9, <1>13, <2>2, <2>3, <3>1 DEF InTime
    <3>3. \A i \in DOMAIN n.lots : n.lots[i].mint = n.closed[k].mint => n.closed[k].at <= n.lots[i].at
      BY <1>1, <1>4, <1>9, <1>10, <3>1, <3>2 DEF InTime
    <3>. QED BY <1>9, <3>1, <3>2, <3>3 DEF InTime
  <2>7. \A j, k \in DOMAIN n.closed :
          j < k /\ n.closed[j].mint = n.closed[k].mint => n.closed[j].at <= n.closed[k].opened
    BY <1>9 DEF InTime
  <2>. QED BY <2>4, <2>5, <2>6, <2>7 DEF InTime
<1>16. Invested(n) = Invested(l) + lot.cost /\ Invested(l) \in Int
  <2>1. PICK w : w = LotCosts(after) OBVIOUS
  <2>2. PICK T : T = D \cup {p} OBVIOUS
  <2>3. Weighs(T, w) BY <1>10, <1>12, <2>1, <2>2, LotsWeigh
  <2>4. TotalSplits(T, w) BY <2>3, TotalTakes
  <2>5. T \ {p} = D /\ p \in T BY <1>6, <2>2
  <2>6. w[p] = lot.cost /\ \A i \in D : w[i] = LotCosts(lots)[i] BY <1>4, <1>10, <2>1 DEF LotCosts
  <2>7. Weighs(D, LotCosts(lots)) /\ Total(D, LotCosts(lots)) \in Int BY <1>2, <1>4, LotsWeigh
  <2>8. Total(D, w) = Total(D, LotCosts(lots)) BY <2>6, <2>7, TotalsAgree
  <2>9. Total(T, w) = w[p] + Total(T \ {p}, w) BY <2>4, <2>5 DEF TotalSplits
  <2>10. Invested(n) = Total(T, w) /\ Invested(l) = Total(D, LotCosts(lots))
    BY <1>1, <1>4, <1>9, <1>10, <2>1, <2>2 DEF Invested
  <2>11. PICK a \in Int : a = Total(D, LotCosts(lots)) BY <2>7
  <2>12. Total(T, w) = lot.cost + a BY <2>5, <2>6, <2>8, <2>9, <2>11
  <2>. QED BY <1>13, <2>10, <2>11, <2>12
<1>17. AddedTo(l, lot, n) BY <1>1, <1>4, <1>6, <1>9, <1>10 DEF AddedTo
<1>. QED BY <1>9, <1>14, <1>15, <1>16, <1>17

\* The total of a function that changed at one place.
LEMMA TotalMoves ==
  ASSUME NEW f \in [Coins -> Int], NEW c \in Coins, NEW x \in Int, NEW g, g = [f EXCEPT ![c] = x]
  PROVE  SumCoins(g) = SumCoins(f) + x - f[c] /\ SumCoins(f) \in Int
<1>1. Weighs(Coins, f) /\ Weighs(Coins, g) BY CoinsAssumption DEF Weighs
<1>2. TotalSplits(Coins, f) /\ TotalSplits(Coins, g) BY <1>1, TotalTakes
<1>3. PICK R : R = Coins \ {c} OBVIOUS
<1>4. Weighs(R, f) BY <1>1, <1>3, FS_Subset DEF Weighs
<1>5. \A d \in R : g[d] = f[d] BY <1>3
<1>6. Total(R, g) = Total(R, f) BY <1>4, <1>5, TotalsAgree
<1>7. PICK a \in Int : a = Total(R, f) BY <1>2, <1>3 DEF TotalSplits
<1>8. Total(Coins, f) = f[c] + a /\ Total(Coins, g) = g[c] + a BY <1>2, <1>3, <1>6, <1>7 DEF TotalSplits
<1>9. g[c] = x /\ f[c] \in Int OBVIOUS
<1>. QED BY <1>7, <1>8, <1>9 DEF SumCoins

\* A trade that is closed adds its result.
LEMMA RealisedGrows ==
  ASSUME NEW l, NEW n, NEW q \in Seq(Trade), l.closed = q, NEW t \in Trade, n.closed = Append(q, t)
  PROVE  Realised(n) = Realised(l) + t.net /\ Realised(l) \in Int
<1>1. PICK k \in Nat : k = Len(q) /\ DOMAIN q = 1 .. k OBVIOUS
<1>2. PICK r : r = Append(q, t) OBVIOUS
<1>3. DOMAIN r = 1 .. k + 1 /\ r[k + 1] = t /\ \A i \in 1 .. k : r[i] = q[i] BY <1>1, <1>2
<1>4. PICK v, w : v = [i \in DOMAIN q |-> q[i].net] /\ w = [i \in DOMAIN r |-> r[i].net] OBVIOUS
<1>5. PICK S, T : S = 1 .. k /\ T = 1 .. k + 1 OBVIOUS
<1>6. Realised(l) = Total(S, v) /\ Realised(n) = Total(T, w) BY <1>1, <1>2, <1>3, <1>4, <1>5 DEF Realised
<1>7. IsFiniteSet(S) /\ IsFiniteSet(T) BY <1>5, FS_Interval, 1 \in Int, k \in Int, k + 1 \in Int
<1>8. \A i \in S : q[i] \in Trade BY <1>1, <1>5
<1>9. ASSUME NEW i \in S PROVE v[i] \in Int /\ w[i] = v[i]
  <2>1. i \in DOMAIN q /\ i \in DOMAIN r /\ r[i] = q[i] BY <1>1, <1>3, <1>5
  <2>2. v[i] = q[i].net /\ w[i] = r[i].net BY <1>4, <2>1
  <2>3. q[i].net \in Int BY <1>8 DEF Trade
  <2>. QED BY <2>1, <2>2, <2>3
<1>10. w[k + 1] = t.net /\ t.net \in Int BY <1>3, <1>4 DEF Trade
<1>11. \A i \in T : i = k + 1 \/ i \in S BY <1>5
<1>12. Weighs(S, v) /\ Weighs(T, w) BY <1>7, <1>9, <1>10, <1>11 DEF Weighs
<1>13. T \ {k + 1} = S /\ k + 1 \in T BY <1>5
<1>14. TotalSplits(S, v) /\ TotalSplits(T, w) BY <1>12, TotalTakes
<1>15. PICK a \in Int : a = Total(S, v) BY <1>14 DEF TotalSplits
<1>16. Total(S, w) = a BY <1>9, <1>12, <1>15, TotalsAgree
<1>17. Total(T, w) = w[k + 1] + Total(T \ {k + 1}, w) BY <1>13, <1>14 DEF TotalSplits
<1>18. Total(T, w) = t.net + a BY <1>10, <1>13, <1>16, <1>17
<1>. QED BY <1>6, <1>10, <1>15, <1>18

\* A sell: what is left of the position, and what the trip made so far.
CloseFacts(l, c, tokens, out, at, rest, begun, pnl, n) ==
    /\ rest = Consume(l.lots, c, tokens)
    /\ begun \in Nat /\ begun <= l.last
    /\ \A k \in DOMAIN l.closed : l.closed[k].mint = c => l.closed[k].at <= begun
    /\ pnl = l.partial[c] + (out - CostTaken(l.lots, c, tokens))
    /\ n.lots = rest /\ n.last = at /\ n.costs = l.costs
    /\ \/ /\ n.partial = [l.partial EXCEPT ![c] = pnl] /\ n.since = [l.since EXCEPT ![c] = begun]
          /\ n.closed = l.closed
       \/ /\ n.partial = [l.partial EXCEPT ![c] = 0] /\ n.since = [l.since EXCEPT ![c] = -1]
          /\ n.closed = Append(l.closed, [mint |-> c, opened |-> begun, at |-> at, net |-> pnl])
          /\ \A i \in DOMAIN rest : rest[i].mint # c
    /\ n = [lots |-> n.lots, closed |-> n.closed, partial |-> n.partial, since |-> n.since,
            costs |-> n.costs, last |-> n.last]

LEMMA CloseDoes ==
  ASSUME NEW l, IsLedger(l), InTime(l), NEW c \in Coins, NEW tokens \in Nat, NEW out \in Int, NEW at \in Nat,
         CanClose(l, c, tokens, at), NEW n, n = CloseLots(l, c, tokens, out, at)
  PROVE  \E rest, begun, pnl : CloseFacts(l, c, tokens, out, at, rest, begun, pnl, n)
<1>1. PICK S : S = LotsOf(l, c) OBVIOUS
<1>2. S \in SUBSET Nat /\ S # {} /\ \A i \in S : i \in DOMAIN l.lots /\ l.lots[i].mint = c
  <2>1. S \in SUBSET (DOMAIN l.lots) /\ \A i \in S : l.lots[i].mint = c BY <1>1 DEF LotsOf
  <2>2. S # {}
    <3>. SUFFICES ASSUME S = {} PROVE FALSE OBVIOUS
    <3>1. TokensOf(l, c) = 0 BY <1>1, TotalEmpty DEF TokensOf
    <3>. QED BY <3>1 DEF CanClose
  <2>. QED BY <2>1, <2>2 DEF IsLedger, IsLots
<1>3. PICK m : m = Min(S) OBVIOUS
<1>4. m \in S
  <2>1. \E x \in S : \A y \in S : x <= y BY <1>2, LeastNatural
  <2>. QED BY <1>3, <2>1 DEF Min
<1>5. PICK begun : begun = IF l.since[c] >= 0 THEN l.since[c] ELSE l.lots[m].at OBVIOUS
<1>6. l.lots[m].at \in Nat /\ l.lots[m].mint = c BY <1>2, <1>4 DEF IsLedger, IsLots, Lot
<1>7. l.since[c] \in Int BY DEF IsLedger
<1>8. begun \in Nat /\ begun <= l.last BY <1>2, <1>4, <1>5, <1>6, <1>7 DEF InTime
<1>9. \A k \in DOMAIN l.closed : l.closed[k].mint = c => l.closed[k].at <= begun
  BY <1>2, <1>4, <1>5, <1>6, <1>7 DEF InTime
<1>10. PICK rest : rest = Consume(l.lots, c, tokens) OBVIOUS
<1>11. PICK pnl : pnl = l.partial[c] + (out - CostTaken(l.lots, c, tokens)) OBVIOUS
<1>12. n = [l EXCEPT
           !.lots = rest,
           !.last = at,
           !.partial[c] = IF \E i \in DOMAIN rest : rest[i].mint = c THEN pnl ELSE 0,
           !.since[c] = IF \E i \in DOMAIN rest : rest[i].mint = c THEN begun ELSE -1,
           !.closed = IF \E i \in DOMAIN rest : rest[i].mint = c THEN @
                      ELSE Append(@, [mint |-> c, opened |-> begun,
                                      at |-> at, net |-> pnl])]
  BY <1>1, <1>3, <1>5, <1>10, <1>11, Zenon DEF CloseLots, NetOf
<1>13. n.lots = rest /\ n.last = at /\ n.costs = l.costs
  BY <1>12 DEF IsLedger
<1>14. CASE \E i \in DOMAIN rest : rest[i].mint = c
  <2>1. /\ n.partial = [l.partial EXCEPT ![c] = pnl] /\ n.since = [l.since EXCEPT ![c] = begun]
        /\ n.closed = l.closed
        /\ n = [lots |-> n.lots, closed |-> n.closed, partial |-> n.partial, since |-> n.since,
                costs |-> n.costs, last |-> n.last]
    BY <1>12, <1>14 DEF IsLedger
  <2>2. CloseFacts(l, c, tokens, out, at, rest, begun, pnl, n) BY <1>8, <1>9, <1>10, <1>11, <1>13, <2>1 DEF CloseFacts
  <2>. QED BY <2>2
<1>15. CASE ~ \E i \in DOMAIN rest : rest[i].mint = c
  <2>1. /\ n.partial = [l.partial EXCEPT ![c] = 0] /\ n.since = [l.since EXCEPT ![c] = -1]
        /\ n.closed = Append(l.closed, [mint |-> c, opened |-> begun, at |-> at, net |-> pnl])
        /\ n = [lots |-> n.lots, closed |-> n.closed, partial |-> n.partial, since |-> n.since,
                costs |-> n.costs, last |-> n.last]
    BY <1>12, <1>15 DEF IsLedger
  <2>2. CloseFacts(l, c, tokens, out, at, rest, begun, pnl, n) BY <1>8, <1>9, <1>10, <1>11, <1>13, <1>15, <2>1 DEF CloseFacts
  <2>. QED BY <2>2
<1>. QED BY <1>14, <1>15

LEMMA RealisedIsInt ==
  ASSUME NEW l, IsLedger(l)
  PROVE  Realised(l) \in Int /\ SumCoins(l.partial) \in Int /\ Invested(l) \in Int
<1>1. PICK q, t : q = l.closed /\ q \in Seq(Trade) /\ t = [i \in DOMAIN q |-> q[i].net] BY DEF IsLedger
<1>2. PICK k \in Nat : DOMAIN q = 1 .. k BY <1>1
<1>3. IsFiniteSet(DOMAIN q) BY <1>2, FS_Interval, 1 \in Int, k \in Int
<1>4. \A i \in DOMAIN q : q[i] \in Trade BY <1>1
<1>5. \A i \in DOMAIN q : t[i] \in Int BY <1>1, <1>4 DEF Trade
<1>6. Weighs(DOMAIN q, t) BY <1>3, <1>5 DEF Weighs
<1>7. TotalSplits(DOMAIN q, t) BY <1>6, TotalTakes
<1>8. Realised(l) \in Int BY <1>1, <1>7 DEF TotalSplits, Realised
<1>9. Weighs(Coins, l.partial) BY CoinsAssumption DEF Weighs, IsLedger
<1>10. TotalSplits(Coins, l.partial) BY <1>9, TotalTakes
<1>11. SumCoins(l.partial) \in Int BY <1>10 DEF TotalSplits, SumCoins
<1>12. Invested(l) \in Int
  <2>1. PICK lots : lots = l.lots /\ IsLots(lots) BY DEF IsLedger
  <2>2. Total(DOMAIN lots, LotCosts(lots)) \in Int BY <2>1, LotsWeigh
  <2>. QED BY <2>1, <2>2 DEF Invested
<1>. QED BY <1>8, <1>11, <1>12

LEMMA CloseIs ==
  ASSUME NEW l, IsLedger(l), InTime(l), NEW c \in Coins, NEW tokens \in Nat, NEW out \in Int, NEW at \in Nat,
         CanClose(l, c, tokens, at), NEW n, n = CloseLots(l, c, tokens, out, at)
  PROVE  /\ IsLedger(n) /\ InTime(n)
         /\ Realised(n) + SumCoins(n.partial) - Invested(n)
              = Realised(l) + SumCoins(l.partial) - Invested(l) + out
<1>1. PICK rest, begun, pnl : CloseFacts(l, c, tokens, out, at, rest, begun, pnl, n) BY CloseDoes
<1>2. PICK lots : lots = l.lots /\ IsLots(lots) BY DEF IsLedger
<1>3. rest = Consume(lots, c, tokens) BY <1>1, <1>2 DEF CloseFacts
<1>4. /\ IsLots(rest) /\ DOMAIN rest \in SUBSET (DOMAIN lots)
      /\ \A i \in DOMAIN rest : rest[i].mint = lots[i].mint /\ rest[i].at = lots[i].at
      /\ CostTaken(lots, c, tokens) \in Int
      /\ Total(DOMAIN lots, LotCosts(lots)) = Total(DOMAIN rest, LotCosts(rest)) + CostTaken(lots, c, tokens)
  BY <1>2, <1>3, ConsumeIs
<1>5. PICK cost \in Int : cost = CostTaken(lots, c, tokens) BY <1>4
<1>6. PICK p : p = l.partial /\ p \in [Coins -> Int] BY DEF IsLedger
<1>7. pnl \in Int /\ pnl = p[c] + (out - cost) /\ p[c] \in Int BY <1>1, <1>2, <1>5, <1>6 DEF CloseFacts
<1>8. PICK q : q = l.closed /\ q \in Seq(Trade) BY DEF IsLedger
<1>9. PICK t : t = [mint |-> c, opened |-> begun, at |-> at, net |-> pnl] OBVIOUS
<1>10. begun \in Nat /\ begun <= l.last BY <1>1 DEF CloseFacts
<1>11. t \in Trade /\ t.net = pnl /\ t.mint = c /\ t.opened = begun /\ t.at = at BY <1>7, <1>9, <1>10 DEF Trade
<1>12. l.last \in Nat /\ l.last <= at /\ l.since \in [Coins -> Int] /\ l.costs \in Int
  BY DEF CanClose, InOrder, IsLedger
<1>13. /\ n.lots = rest /\ n.last = at /\ n.costs = l.costs
       /\ n = [lots |-> n.lots, closed |-> n.closed, partial |-> n.partial, since |-> n.since,
               costs |-> n.costs, last |-> n.last]
  BY <1>1 DEF CloseFacts
<1>14. Invested(l) = Invested(n) + cost /\ Invested(n) \in Int
  <2>1. Total(DOMAIN rest, LotCosts(rest)) \in Int BY <1>4, LotsWeigh
  <2>. QED BY <1>2, <1>4, <1>5, <1>13, <2>1 DEF Invested
<1>15. Realised(l) \in Int /\ SumCoins(p) \in Int BY <1>6, RealisedIsInt
<1>16. \A i \in DOMAIN rest : rest[i].at \in Nat /\ rest[i].at <= l.last
  <2>1. \A i \in DOMAIN rest : rest[i] \in Lot BY <1>4 DEF IsLots
  <2>. QED BY <1>2, <1>4, <2>1 DEF Lot, InTime
<1>17. \A i \in DOMAIN rest : rest[i].at <= at BY <1>12, <1>16
<1>18. \A k \in DOMAIN q : q[k] \in Trade /\ k \in Nat BY <1>8
<1>19. \A k \in DOMAIN q : q[k].at \in Nat /\ q[k].opened \in Nat /\ q[k].mint \in Coins /\ q[k].at <= at
  <2>1. \A k \in DOMAIN q : q[k].at \in Nat /\ q[k].opened \in Nat /\ q[k].mint \in Coins BY <1>18 DEF Trade
  <2>2. \A k \in DOMAIN q : q[k].at <= l.last BY <1>8 DEF InTime
  <2>. QED BY <1>12, <2>1, <2>2
<1>20. \A k \in DOMAIN q : \A i \in DOMAIN rest : rest[i].mint = q[k].mint => q[k].at <= rest[i].at
  BY <1>2, <1>4, <1>8 DEF InTime
<1>21. \A k \in DOMAIN q : q[k].mint = c => q[k].at <= begun BY <1>1, <1>8 DEF CloseFacts
<1>22. CASE /\ n.partial = [l.partial EXCEPT ![c] = pnl] /\ n.since = [l.since EXCEPT ![c] = begun]
            /\ n.closed = l.closed
  <2>1. IsLedger(n) BY <1>4, <1>6, <1>7, <1>8, <1>10, <1>12, <1>13, <1>22 DEF IsLedger
  <2>2. \A d \in Coins : n.since[d] = IF d = c THEN begun ELSE l.since[d] BY <1>12, <1>22
  <2>3. \A d \in Coins : n.since[d] <= n.last
    <3>. SUFFICES ASSUME NEW d \in Coins PROVE n.since[d] <= n.last OBVIOUS
    <3>1. l.since[d] \in Int /\ l.since[d] <= l.last BY <1>12 DEF InTime
    <3>. QED BY <1>10, <1>12, <1>13, <2>2, <3>1
  <2>4. ASSUME NEW k \in DOMAIN n.closed
        PROVE  /\ n.closed[k].opened <= n.closed[k].at /\ n.closed[k].at <= n.last
               /\ n.since[n.closed[k].mint] >= 0 => n.closed[k].at <= n.since[n.closed[k].mint]
               /\ \A i \in DOMAIN n.lots :
                     n.lots[i].mint = n.closed[k].mint => n.closed[k].at <= n.lots[i].at
    <3>1. k \in DOMAIN q /\ n.closed[k] = q[k] BY <1>8, <1>22
    <3>2. q[k].opened <= q[k].at /\ q[k].at <= n.last BY <1>8, <1>13, <1>19, <3>1 DEF InTime
    <3>3. n.since[q[k].mint] >= 0 => q[k].at <= n.since[q[k].mint]
      <4>1. CASE q[k].mint = c BY <1>21, <2>2, <3>1, <4>1
      <4>2. CASE q[k].mint # c BY <1>8, <1>19, <2>2, <3>1, <4>2 DEF InTime
      <4>. QED BY <4>1, <4>2
    <3>. QED BY <1>13, <1>20, <3>1, <3>2, <3>3
  <2>5. \A j, k \in DOMAIN n.closed :
          j < k /\ n.closed[j].mint = n.closed[k].mint => n.closed[j].at <= n.closed[k].opened
    BY <1>22 DEF InTime
  <2>6. InTime(n) BY <1>13, <1>17, <2>3, <2>4, <2>5 DEF InTime
  <2>7. SumCoins(n.partial) = SumCoins(p) + pnl - p[c] BY <1>6, <1>7, <1>22, TotalMoves
  <2>8. Realised(n) = Realised(l) BY <1>22 DEF Realised
  <2>9. PICK a, b, d \in Int : a = Realised(l) /\ b = SumCoins(p) /\ d = Invested(n) BY <1>14, <1>15
  <2>10. Realised(n) + SumCoins(n.partial) - Invested(n) = a + (b + pnl - p[c]) - d BY <2>7, <2>8, <2>9
  <2>11. Realised(l) + SumCoins(l.partial) - Invested(l) + out = a + b - (d + cost) + out
    BY <1>6, <1>14, <2>9
  <2>12. a + (b + pnl - p[c]) - d = a + b - (d + cost) + out BY <1>5, <1>7, <2>9
  <2>. QED BY <2>1, <2>6, <2>10, <2>11, <2>12
<1>23. CASE /\ n.partial = [l.partial EXCEPT ![c] = 0] /\ n.since = [l.since EXCEPT ![c] = -1]
            /\ n.closed = Append(l.closed, t)
            /\ \A i \in DOMAIN rest : rest[i].mint # c
  <2>0. PICK m \in Nat : m = Len(q) /\ DOMAIN q = 1 .. m BY <1>8
  <2>1. n.closed \in Seq(Trade) /\ DOMAIN n.closed = 1 .. m + 1 /\ n.closed[m + 1] = t
        /\ \A k \in 1 .. m : n.closed[k] = q[k]
    BY <1>8, <1>11, <1>23, <2>0
  <2>2. IsLedger(n)
    <3>1. n.partial \in [Coins -> Int] BY <1>6, <1>23
    <3>2. n.since \in [Coins -> Int] BY <1>12, <1>23
    <3>3. IsLots(n.lots) /\ n.costs \in Int /\ n.last \in Nat BY <1>4, <1>12, <1>13
    <3>. QED BY <1>13, <2>1, <3>1, <3>2, <3>3 DEF IsLedger
  <2>3. \A d \in Coins : n.since[d] = IF d = c THEN -1 ELSE l.since[d] BY <1>12, <1>23
  <2>4. \A d \in Coins : n.since[d] <= n.last
    <3>. SUFFICES ASSUME NEW d \in Coins PROVE n.since[d] <= n.last OBVIOUS
    <3>1. l.since[d] \in Int /\ l.since[d] <= l.last BY <1>12 DEF InTime
    <3>. QED BY <1>12, <1>13, <2>3, <3>1
  <2>5. ASSUME NEW k \in DOMAIN n.closed
        PROVE  /\ n.closed[k].opened <= n.closed[k].at /\ n.closed[k].at <= n.last
               /\ n.since[n.closed[k].mint] >= 0 => n.closed[k].at <= n.since[n.closed[k].mint]
               /\ \A i \in DOMAIN n.lots :
                     n.lots[i].mint = n.closed[k].mint => n.closed[k].at <= n.lots[i].at
    <3>1. CASE k \in 1 .. m
      <4>1. k \in DOMAIN q /\ n.closed[k] = q[k] BY <2>0, <2>1, <3>1
      <4>2. q[k].opened <= q[k].at /\ q[k].at <= n.last BY <1>8, <1>13, <1>19, <4>1 DEF InTime
      <4>3. n.since[q[k].mint] >= 0 => q[k].at <= n.since[q[k].mint]
        <5>1. CASE q[k].mint = c BY <2>3, <5>1
        <5>2. CASE q[k].mint # c BY <1>8, <1>19, <2>3, <4>1, <5>2 DEF InTime
        <5>. QED BY <5>1, <5>2
      <4>. QED BY <1>13, <1>20, <4>1, <4>2, <4>3
    <3>2. CASE k = m + 1
      <4>1. n.closed[k] = t BY <2>1, <3>2
      <4>2. begun <= at BY <1>10, <1>12
      <4>3. n.since[c] = -1 BY <2>3
      <4>. QED BY <1>11, <1>13, <1>23, <4>1, <4>2, <4>3
    <3>. QED BY <2>1, <3>1, <3>2
  <2>6. ASSUME NEW j \in DOMAIN n.closed, NEW k \in DOMAIN n.closed, j < k, n.closed[j].mint = n.closed[k].mint
        PROVE  n.closed[j].at <= n.closed[k].opened
    <3>1. j \in 1 .. m /\ j \in DOMAIN q /\ n.closed[j] = q[j] BY <2>0, <2>1, <2>6
    <3>2. CASE k \in 1 .. m BY <1>8, <2>0, <2>1, <2>6, <3>1, <3>2 DEF InTime
    <3>3. CASE k = m + 1 BY <1>11, <1>21, <2>1, <2>6, <3>1, <3>3
    <3>. QED BY <2>1, <3>2, <3>3
  <2>7. InTime(n) BY <1>13, <1>17, <2>4, <2>5, <2>6 DEF InTime
  <2>8. SumCoins(n.partial) = SumCoins(p) + 0 - p[c]
    <3>1. PICK z \in Int : z = 0 OBVIOUS
    <3>2. PICK g : g = n.partial /\ g = [p EXCEPT ![c] = z] BY <1>6, <1>23, <3>1
    <3>3. SumCoins(g) = SumCoins(p) + z - p[c] /\ SumCoins(p) \in Int BY <1>6, <3>2, TotalMoves
    <3>. QED BY <3>1, <3>2, <3>3
  <2>9. Realised(n) = Realised(l) + t.net
    <3>1. l.closed = q /\ n.closed = Append(q, t) /\ t \in Trade BY <1>8, <1>11, <1>23
    <3>2. Realised(n) = Realised(l) + t.net /\ Realised(l) \in Int BY <1>8, <3>1, RealisedGrows
    <3>. QED BY <3>2
  <2>10. PICK a, b, d \in Int : a = Realised(l) /\ b = SumCoins(p) /\ d = Invested(n) BY <1>14, <1>15
  <2>11. Realised(n) + SumCoins(n.partial) - Invested(n) = (a + pnl) + (b + 0 - p[c]) - d
    BY <1>11, <2>8, <2>9, <2>10
  <2>12. Realised(l) + SumCoins(l.partial) - Invested(l) + out = a + b - (d + cost) + out
    BY <1>6, <1>14, <2>10
  <2>13. (a + pnl) + (b + 0 - p[c]) - d = a + b - (d + cost) + out BY <1>5, <1>7, <2>10
  <2>. QED BY <2>2, <2>7, <2>11, <2>12, <2>13
<1>. QED BY <1>1, <1>9, <1>22, <1>23 DEF CloseFacts

-----------------------------------------------------------------------------
(* Every step of the ledger.                                                *)

LEMMA EmptyIs == IsLedger(EmptyLedger) /\ InTime(EmptyLedger) /\ Realised(EmptyLedger) = 0
                 /\ SumCoins(EmptyLedger.partial) = 0 /\ Invested(EmptyLedger) = 0
<1>1. PICK l : l = EmptyLedger OBVIOUS
<1>2. /\ l.lots = <<>> /\ l.closed = <<>> /\ l.partial = [c \in Coins |-> 0] /\ l.since = [c \in Coins |-> -1]
      /\ l.costs = 0 /\ l.last = 0
      /\ l = [lots |-> l.lots, closed |-> l.closed, partial |-> l.partial, since |-> l.since,
              costs |-> l.costs, last |-> l.last]
  BY <1>1 DEF EmptyLedger
<1>3. DOMAIN l.lots = {} /\ DOMAIN l.closed = {} /\ l.closed \in Seq(Trade) BY <1>2
<1>4. IsLots(l.lots)
  <2>1. l.lots \in [{} -> Lot] BY <1>2
  <2>. QED BY <1>3, <2>1, FS_EmptySet DEF IsLots
<1>5. IsLedger(l) BY <1>2, <1>3, <1>4 DEF IsLedger
<1>6. InTime(l) BY <1>2, <1>3 DEF InTime
<1>7. Realised(l) = 0 /\ Invested(l) = 0 BY <1>3, TotalEmpty DEF Realised, Invested
<1>8. SumCoins(l.partial) = 0
  <2>1. PICK f : f = l.partial OBVIOUS
  <2>2. Weighs(Coins, f) /\ {} \in SUBSET Coins /\ \A x \in Coins \ {} : f[x] = 0
    BY <1>2, <2>1, CoinsAssumption DEF Weighs
  <2>3. Total(Coins, f) = Total({}, f) BY <2>2, TotalDropsZeros
  <2>. QED BY <2>1, <2>3, TotalEmpty DEF SumCoins
<1>. QED BY <1>1, <1>5, <1>6, <1>7, <1>8

LEMMA LedgerInitial == LedgerInit => LedgerInv
<1>. SUFFICES ASSUME LedgerInit PROVE LedgerInv OBVIOUS
<1>1. ledger = EmptyLedger /\ paid = 0 /\ earned = 0 BY DEF LedgerInit
<1>. QED BY <1>1, EmptyIs DEF LedgerInv

LEMMA BuyStep ==
  ASSUME LedgerInv, NEW c \in Coins, NEW tokens \in Nat \ {0}, NEW cost \in Int, NEW at \in Nat,
         Buy(c, tokens, cost, at)
  PROVE  LedgerInv'
<1>1. PICK lot : lot = [mint |-> c, tokens |-> tokens, cost |-> cost, at |-> at] OBVIOUS
<1>2. lot \in Lot /\ lot.cost = cost BY <1>1 DEF Lot
<1>3. CanOpenLot(ledger, lot) /\ ledger' = OpenLot(ledger, lot) /\ paid' = paid + cost /\ earned' = earned
  BY <1>1 DEF Buy
<1>4. PICK l, n : l = ledger /\ n = ledger' OBVIOUS
<1>5. IsLedger(l) /\ InTime(l) /\ CanOpenLot(l, lot) /\ n = OpenLot(l, lot) BY <1>3, <1>4 DEF LedgerInv
<1>6. /\ IsLedger(n) /\ InTime(n)
      /\ n.closed = l.closed /\ n.partial = l.partial /\ n.costs = l.costs
      /\ Invested(n) = Invested(l) + lot.cost /\ Invested(l) \in Int
      /\ AddedTo(l, lot, n)
  BY <1>2, <1>5, OpenIs
<1>7. Realised(n) = Realised(l) /\ SumCoins(n.partial) = SumCoins(l.partial) BY <1>6 DEF Realised
<1>8. PICK a, b, d \in Int : a = Realised(l) /\ b = SumCoins(l.partial) /\ d = Invested(l) BY <1>5, RealisedIsInt
<1>9. paid \in Int /\ earned \in Int /\ a + b = earned - (paid - d) BY <1>4, <1>8 DEF LedgerInv
<1>10. a + b = earned - ((paid + cost) - (d + cost)) BY <1>8, <1>9
<1>11. Realised(n) + SumCoins(n.partial) = earned' - (paid' - Invested(n))
  BY <1>2, <1>3, <1>6, <1>7, <1>8, <1>10
<1>12. IsLedger(ledger') /\ InTime(ledger') BY <1>4, <1>6
<1>13. Realised(ledger') + SumCoins(ledger'.partial) = earned' - (paid' - Invested(ledger')) BY <1>4, <1>11
<1>14. paid' \in Int /\ earned' \in Int BY <1>3, <1>9
<1>. QED BY <1>12, <1>13, <1>14 DEF LedgerInv

LEMMA SellStep ==
  ASSUME LedgerInv, NEW c \in Coins, NEW tokens \in Nat, NEW out \in Int, NEW at \in Nat,
         Sell(c, tokens, out, at)
  PROVE  LedgerInv'
<1>1. /\ CanClose(ledger, c, tokens, at) /\ ledger' = CloseLots(ledger, c, tokens, out, at)
      /\ earned' = earned + out /\ paid' = paid
  BY DEF Sell
<1>2. PICK l, n : l = ledger /\ n = ledger' OBVIOUS
<1>3. IsLedger(l) /\ InTime(l) /\ CanClose(l, c, tokens, at) /\ n = CloseLots(l, c, tokens, out, at)
  BY <1>1, <1>2 DEF LedgerInv
<1>4. /\ IsLedger(n) /\ InTime(n)
      /\ Realised(n) + SumCoins(n.partial) - Invested(n)
           = Realised(l) + SumCoins(l.partial) - Invested(l) + out
  BY <1>3, CloseIs
<1>5. PICK a, b, d \in Int : a = Realised(l) /\ b = SumCoins(l.partial) /\ d = Invested(l) BY <1>3, RealisedIsInt
<1>6. PICK a1, b1, d1 \in Int : a1 = Realised(n) /\ b1 = SumCoins(n.partial) /\ d1 = Invested(n)
  BY <1>4, RealisedIsInt
<1>7. paid \in Int /\ earned \in Int /\ a + b = earned - (paid - d) BY <1>2, <1>5 DEF LedgerInv
<1>8. a1 + b1 - d1 = a + b - d + out BY <1>4, <1>5, <1>6
<1>9. a1 + b1 = (earned + out) - (paid - d1)
  <2>1. PICK e, q \in Int : e = earned /\ q = paid BY <1>7
  <2>2. a + b = e - (q - d) BY <1>7, <2>1
  <2>3. a1 + b1 = (e + out) - (q - d1) BY <1>8, <2>2
  <2>. QED BY <2>1, <2>3
<1>10. IsLedger(ledger') /\ InTime(ledger') BY <1>2, <1>4
<1>11. Realised(ledger') + SumCoins(ledger'.partial) = earned' - (paid' - Invested(ledger'))
  BY <1>1, <1>2, <1>6, <1>9
<1>12. paid' \in Int /\ earned' \in Int BY <1>1, <1>7
<1>. QED BY <1>10, <1>11, <1>12 DEF LedgerInv

LEMMA FailureStep ==
  ASSUME LedgerInv, NEW usd \in Int, Fail(usd)
  PROVE  LedgerInv'
<1>1. ledger' = RecordCost(ledger, usd) /\ paid' = paid /\ earned' = earned BY DEF Fail
<1>2. PICK l, n : l = ledger /\ n = ledger' OBVIOUS
<1>3. IsLedger(l) /\ InTime(l) /\ n = [l EXCEPT !.costs = @ + usd] BY <1>1, <1>2 DEF LedgerInv, RecordCost
<1>4. /\ n.lots = l.lots /\ n.closed = l.closed /\ n.partial = l.partial /\ n.since = l.since
      /\ n.costs = l.costs + usd /\ n.last = l.last
      /\ n = [lots |-> n.lots, closed |-> n.closed, partial |-> n.partial, since |-> n.since,
              costs |-> n.costs, last |-> n.last]
  BY <1>3 DEF IsLedger
<1>5. IsLedger(n) BY <1>3, <1>4 DEF IsLedger
<1>6. InTime(n) BY <1>3, <1>4 DEF InTime
<1>7. Realised(n) = Realised(l) /\ Invested(n) = Invested(l) BY <1>4 DEF Realised, Invested
<1>8. Realised(n) + SumCoins(n.partial) = earned' - (paid' - Invested(n))
  BY <1>1, <1>2, <1>4, <1>7 DEF LedgerInv
<1>9. IsLedger(ledger') /\ InTime(ledger') BY <1>2, <1>5, <1>6
<1>10. Realised(ledger') + SumCoins(ledger'.partial) = earned' - (paid' - Invested(ledger')) BY <1>2, <1>8
<1>11. paid' \in Int /\ earned' \in Int BY <1>1 DEF LedgerInv
<1>. QED BY <1>9, <1>10, <1>11 DEF LedgerInv

LEMMA LedgerInductive == LedgerInv /\ [LedgerNext]_ledgerVars => LedgerInv'
<1>. SUFFICES ASSUME LedgerInv, [LedgerNext]_ledgerVars PROVE LedgerInv' OBVIOUS
<1>1. ASSUME NEW c \in Coins, NEW n \in 1 .. MaxTokens, NEW u \in 0 .. MaxAmount, NEW at \in 0 .. MaxStamp, Buy(c, n, u, at)
      PROVE  LedgerInv'
  <2>1. n \in Nat \ {0} /\ u \in Int /\ at \in Nat BY LedgerAssumption
  <2>. QED BY <1>1, <2>1, BuyStep
<1>2. ASSUME NEW c \in Coins, NEW n \in 1 .. MaxTokens + 1, NEW u \in 0 .. MaxAmount, NEW at \in 0 .. MaxStamp, Sell(c, n, u, at)
      PROVE  LedgerInv'
  <2>1. n \in Nat /\ u \in Int /\ at \in Nat BY LedgerAssumption
  <2>. QED BY <1>2, <2>1, SellStep
<1>3. CASE Fail(1)
  <2>1. PICK u \in Int : u = 1 OBVIOUS
  <2>. QED BY <1>3, <2>1, FailureStep
<1>4. CASE UNCHANGED ledgerVars BY <1>4 DEF LedgerInv, ledgerVars
<1>. QED BY <1>1, <1>2, <1>3, <1>4 DEF LedgerNext

LEMMA LedgerSafe == LedgerInv => LedgerConserves
<1>. SUFFICES ASSUME LedgerInv PROVE LedgerConserves OBVIOUS
<1>0. PICK l : l = ledger /\ IsLedger(l) /\ InTime(l) BY DEF LedgerInv
<1>1. MoneyIsConserved BY DEF LedgerInv, MoneyIsConserved, Invested
<1>2. GateIsNoKinder
  <2>. SUFFICES ASSUME NEW value \in 0 .. MaxAmount PROVE GateResult(l, value) <= Pnl(l, value)
    BY <1>0 DEF GateIsNoKinder
  <2>0. value \in Int BY LedgerAssumption
  <2>1. ASSUME NEW c \in Coins PROVE l.partial[c] + Unrealised(l, c, value) \in Int
    <3>1. PICK lots : lots = l.lots /\ IsLots(lots) BY <1>0 DEF IsLedger
    <3>2. PICK S \in SUBSET (DOMAIN lots) : S = LotsOf(l, c) BY <3>1 DEF LotsOf
    <3>3. Total(S, LotCosts(lots)) \in Int BY <3>1, LotsWeigh
    <3>4. CostOf(l, c) \in Int BY <3>1, <3>2, <3>3 DEF CostOf
    <3>5. l.partial[c] \in Int BY <1>0 DEF IsLedger
    <3>6. Unrealised(l, c, value) \in Int BY <2>0, <3>4 DEF Unrealised
    <3>. QED BY <3>5, <3>6
  <2>2. PICK f, g : /\ f = [c \in Coins |-> Lesser(0, l.partial[c] + Unrealised(l, c, value))]
                    /\ g = [c \in Coins |-> l.partial[c] + Unrealised(l, c, value)]
    OBVIOUS
  <2>3. \A c \in Coins : g[c] \in Int /\ f[c] \in Int /\ f[c] <= g[c] BY <2>1, <2>2 DEF Lesser
  <2>4. Weighs(Coins, f) /\ Weighs(Coins, g) BY <2>3, CoinsAssumption DEF Weighs
  <2>5. Total(Coins, f) <= Total(Coins, g) BY <2>3, <2>4, TotalIsMonotone
  <2>6. TotalSplits(Coins, f) /\ TotalSplits(Coins, g) BY <2>4, TotalTakes
  <2>7. PICK a, b \in Int : a = Total(Coins, f) /\ b = Total(Coins, g) BY <2>6 DEF TotalSplits
  <2>8. PICK r, k \in Int : r = Realised(l) /\ k = l.costs BY <1>0, RealisedIsInt DEF IsLedger
  <2>9. GateResult(l, value) = r + a - k BY <2>2, <2>7, <2>8 DEF GateResult, OpenLosses, SumCoins
  <2>10. Pnl(l, value) = r + b - k BY <2>2, <2>7, <2>8 DEF Pnl, SumCoins
  <2>11. a <= b BY <2>5, <2>7
  <2>. QED BY <2>7, <2>8, <2>9, <2>10, <2>11
<1>3. TradesAreWhole BY <1>0 DEF InTime, TradesAreWhole
<1>. QED BY <1>1, <1>2, <1>3 DEF LedgerConserves

\* Whatever way lots are split by partial sells and rounded, no cost is left behind or taken twice,
\* the gate is never kinder than the profit and loss beside it, and trades are whole (paper.rs,
\* Ledger::close; gate.rs, evaluate): for any mints, amounts, dates and number of lots.
THEOREM LedgerConservesAlways == LedgerSpec => []LedgerConserves
<1>1. LedgerInit => LedgerInv BY LedgerInitial
<1>2. LedgerInv /\ [LedgerNext]_ledgerVars => LedgerInv' BY LedgerInductive
<1>3. LedgerInv => LedgerConserves BY LedgerSafe
<1>. QED BY <1>1, <1>2, <1>3, PTL DEF LedgerSpec

-----------------------------------------------------------------------------
(* The stored trips replay.                                                 *)

Trip == [mint : Coins, status : {"open", "stuck", "closed"}, failures : Nat, opened : Nat,
         closed : Nat, with : Profiles \cup {Unset}, fees : Nat, unpriced : Nat]

\* Trips are closed after they are opened, and of two of one mint one is closed before the other
\* is opened.
Apart(i, j) == ~Held(i) /\ trips[i].closed < trips[j].opened
ClosedAfter == \A i \in DOMAIN trips : ~Held(i) => trips[i].opened < trips[i].closed
TripsApart ==
    \A i, j \in DOMAIN trips : i # j /\ trips[i].mint = trips[j].mint => Apart(i, j) \/ Apart(j, i)
BookTimes == ClosedAfter /\ TripsApart

OpenEvent(i) == <<trips[i].opened, 1, i>>
CloseEvent(i) == <<trips[i].closed, 0, i>>
TripEvent == Nat \X {0, 1} \X Nat

LEMMA TripsAre ==
  ASSUME trips \in Seq(Trip)
  PROVE  /\ IsFiniteSet(DOMAIN trips) /\ DOMAIN trips \in SUBSET Nat
         /\ \A i \in DOMAIN trips : /\ trips[i] \in Trip /\ i \in Nat
                                    /\ trips[i].opened \in Nat /\ trips[i].closed \in Nat /\ trips[i].mint \in Coins
<1>1. PICK k \in Nat : DOMAIN trips = 1 .. k OBVIOUS
<1>2. IsFiniteSet(DOMAIN trips) BY <1>1, FS_Interval, 1 \in Int, k \in Int
<1>3. \A i \in DOMAIN trips : trips[i] \in Trip /\ i \in Nat OBVIOUS
<1>4. \A i \in DOMAIN trips : trips[i].opened \in Nat /\ trips[i].closed \in Nat /\ trips[i].mint \in Coins
  BY <1>3 DEF Trip
<1>. QED BY <1>1, <1>2, <1>3, <1>4

LEMMA EventsAre ==
  ASSUME trips \in Seq(Trip)
  PROVE  /\ IsFiniteSet(TripEvents) /\ TripEvents \in SUBSET TripEvent
         /\ \A e : e \in TripEvents <=> \E i \in DOMAIN trips : e = OpenEvent(i) \/ (~Held(i) /\ e = CloseEvent(i))
<1>1. PICK A, B : /\ A = {<<trips[i].opened, 1, i>> : i \in DOMAIN trips}
                  /\ B = {<<trips[i].closed, 0, i>> : i \in {j \in DOMAIN trips : ~Held(j)}}
  OBVIOUS
<1>2. TripEvents = A \cup B BY <1>1 DEF TripEvents
<1>3. IsFiniteSet(A)
  <2>1. PICK f : f = [i \in DOMAIN trips |-> <<trips[i].opened, 1, i>>] OBVIOUS
  <2>2. f \in Surjection(DOMAIN trips, A) BY <1>1, <2>1 DEF Surjection
  <2>. QED BY <2>2, TripsAre, FS_Surjection
<1>4. IsFiniteSet(B)
  <2>1. PICK J : J = {j \in DOMAIN trips : ~Held(j)} OBVIOUS
  <2>2. IsFiniteSet(J) BY <2>1, TripsAre, FS_Subset
  <2>3. PICK f : f = [i \in J |-> <<trips[i].closed, 0, i>>] OBVIOUS
  <2>4. f \in Surjection(J, B) BY <1>1, <2>1, <2>3 DEF Surjection
  <2>. QED BY <2>2, <2>4, FS_Surjection
<1>5. \A e : e \in TripEvents <=> \E i \in DOMAIN trips : e = OpenEvent(i) \/ (~Held(i) /\ e = CloseEvent(i))
  BY <1>1, <1>2 DEF OpenEvent, CloseEvent
<1>6. ASSUME NEW e \in TripEvents PROVE e \in TripEvent
  <2>1. PICK i \in DOMAIN trips : e = OpenEvent(i) \/ e = CloseEvent(i) BY <1>5
  <2>2. i \in Nat /\ trips[i].opened \in Nat /\ trips[i].closed \in Nat BY TripsAre
  <2>. QED BY <2>1, <2>2 DEF OpenEvent, CloseEvent, TripEvent
<1>. QED BY <1>2, <1>3, <1>4, <1>5, <1>6, FS_Union

\* Events are totally ordered.
LEMMA EventOrder ==
  /\ \A d, e \in TripEvent : (d = e \/ Precedes(d, e) \/ Precedes(e, d)) /\ ~(Precedes(d, e) /\ Precedes(e, d))
                             /\ ~Precedes(d, d)
  /\ \A d, e, g \in TripEvent : Precedes(d, e) /\ Precedes(e, g) => Precedes(d, g)
<1>1. ASSUME NEW d \in TripEvent, NEW e \in TripEvent
      PROVE  (d = e \/ Precedes(d, e) \/ Precedes(e, d)) /\ ~(Precedes(d, e) /\ Precedes(e, d)) /\ ~Precedes(d, d)
  BY DEF TripEvent, Precedes
<1>2. ASSUME NEW d \in TripEvent, NEW e \in TripEvent, NEW g \in TripEvent, Precedes(d, e), Precedes(e, g)
      PROVE  Precedes(d, g)
  BY <1>2 DEF TripEvent, Precedes
<1>. QED BY <1>1, <1>2

ComesLast(s, e) == e \in s /\ \A d \in s \ {e} : Precedes(d, e)

LEMMA NewestIs ==
  ASSUME trips \in Seq(Trip)
  PROVE  \A s \in SUBSET TripEvents : s # {} => ComesLast(s, NewestEvent(s))
<1>0. IsFiniteSet(TripEvents) /\ TripEvents \in SUBSET TripEvent BY EventsAre
<1>. DEFINE G == {s \in SUBSET TripEvents : s # {} => \E e : ComesLast(s, e)}
<1>1. {} \in G OBVIOUS
<1>2. ASSUME NEW s \in SUBSET TripEvents, s # {}, \A x \in s : s \ {x} \in G PROVE s \in G
  <2>1. PICK x \in s : TRUE BY <1>2
  <2>2. CASE s \ {x} = {}
    <3>1. ComesLast(s, x) BY <2>1, <2>2 DEF ComesLast
    <3>. QED BY <3>1
  <2>3. CASE s \ {x} # {}
    <3>1. PICK e : ComesLast(s \ {x}, e) BY <1>2, <2>3
    <3>2. e \in s /\ e # x /\ e \in TripEvent /\ x \in TripEvent BY <1>0, <3>1 DEF ComesLast
    <3>3. CASE Precedes(x, e)
      <4>1. ComesLast(s, e) BY <3>1, <3>2, <3>3 DEF ComesLast
      <4>. QED BY <4>1
    <3>4. CASE Precedes(e, x)
      <4>1. ASSUME NEW d \in s \ {x} PROVE Precedes(d, x)
        <5>1. d \in TripEvent BY <1>0
        <5>2. d = e \/ Precedes(d, e) BY <3>1 DEF ComesLast
        <5>. QED BY <3>2, <3>4, <5>1, <5>2, EventOrder
      <4>2. ComesLast(s, x) BY <4>1 DEF ComesLast
      <4>. QED BY <4>2
    <3>. QED BY <3>2, <3>3, <3>4, EventOrder
  <2>. QED BY <2>2, <2>3
<1>3. \A s \in SUBSET TripEvents : s \in G
  <2>. HIDE DEF G
  <2>. QED BY <1>0, <1>1, <1>2, SubsetInduces
<1>4. ASSUME NEW s \in SUBSET TripEvents, s # {} PROVE ComesLast(s, NewestEvent(s))
  <2>1. \E e \in s : \A d \in s \ {e} : Precedes(d, e) BY <1>3, <1>4 DEF ComesLast
  <2>. QED BY <2>1, Zenon DEF ComesLast, NewestEvent
<1>. QED BY <1>4

StartReplay == [ok |-> TRUE, ledger |-> EmptyLedger]
PartReplay(f, s) ==
    IF s = {} THEN StartReplay ELSE ReplayEvent(f[s \ {NewestEvent(s)}], NewestEvent(s))
IsReplay(f, S) == f = [s \in SUBSET S |-> PartReplay(f, s)]

\* The recursion of replay defines a function.
LEMMA ReplayExists ==
  ASSUME trips \in Seq(Trip)
  PROVE  \E f : IsReplay(f, TripEvents)
<1>. DEFINE S == TripEvents
            upto(n) == {s \in SUBSET S : Cardinality(s) <= n}
            has(n) == \E f : f = [s \in upto(n) |-> PartReplay(f, s)]
            N == {n \in Nat : has(n)}
<1>0. IsFiniteSet(S) /\ \A s \in SUBSET S : IsFiniteSet(s) /\ Cardinality(s) \in Nat
  BY EventsAre, FS_Subset, FS_CardinalityType
<1>1. 0 \in N
  <2>1. \A s \in upto(0) : s = {} BY <1>0, FS_EmptySet
  <2>2. PICK f : f = [s \in upto(0) |-> StartReplay] OBVIOUS
  <2>3. \A s \in upto(0) : PartReplay(f, s) = StartReplay BY <2>1 DEF PartReplay
  <2>4. f = [s \in upto(0) |-> PartReplay(f, s)] BY <2>2, <2>3
  <2>. QED BY <2>4
<1>2. ASSUME NEW n \in Nat, n \in N PROVE n + 1 \in N
  <2>1. PICK f : f = [s \in upto(n) |-> PartReplay(f, s)] BY <1>2
  <2>2. PICK g : g = [s \in upto(n + 1) |-> PartReplay(f, s)] OBVIOUS
  <2>3. ASSUME NEW s \in upto(n + 1), s # {}
        PROVE  s \ {NewestEvent(s)} \in upto(n)
    <3>1. NewestEvent(s) \in s BY <2>3, NewestIs DEF ComesLast
    <3>2. Cardinality(s \ {NewestEvent(s)}) = Cardinality(s) - 1 BY <1>0, <3>1, FS_RemoveElement
    <3>. QED BY <1>0, <3>1, <3>2
  <2>4. \A s \in upto(n) : s \in upto(n + 1) BY <1>0
  <2>5. \A s \in upto(n) : g[s] = f[s]
    <3>. HIDE DEF upto
    <3>1. \A s \in upto(n) : f[s] = PartReplay(f, s) BY <2>1, Zenon
    <3>. QED BY <2>2, <2>4, <3>1
  <2>6. ASSUME NEW s \in upto(n + 1) PROVE PartReplay(f, s) = PartReplay(g, s)
    <3>1. CASE s = {} BY <3>1 DEF PartReplay
    <3>2. CASE s # {}
      <4>1. g[s \ {NewestEvent(s)}] = f[s \ {NewestEvent(s)}] BY <2>3, <2>5, <3>2
      <4>. QED BY <3>2, <4>1 DEF PartReplay
    <3>. QED BY <3>1, <3>2
  <2>7. has(n + 1)
    <3>. HIDE DEF upto
    <3>1. g = [s \in upto(n + 1) |-> PartReplay(g, s)] BY <2>2, <2>6
    <3>. QED BY <3>1
  <2>8. n + 1 \in Nat OBVIOUS
  <2>. HIDE DEF has
  <2>. QED BY <2>7, <2>8
<1>3. \A n \in Nat : n \in N
  <2>. HIDE DEF N
  <2>. QED BY <1>1, <1>2, NatInduces
<1>4. upto(Cardinality(S)) = SUBSET S /\ Cardinality(S) \in Nat BY <1>0, FS_Subset
<1>5. PICK f : f = [s \in upto(Cardinality(S)) |-> PartReplay(f, s)] BY <1>3, <1>4
<1>6. f = [s \in SUBSET S |-> PartReplay(f, s)] BY <1>4, <1>5
<1>. QED BY <1>6 DEF IsReplay

LEMMA ReplaysUnfolds ==
  ASSUME trips \in Seq(Trip)
  PROVE  \E f : IsReplay(f, TripEvents) /\ Replays = f[TripEvents].ok
<1>1. PICK f : f = CHOOSE g : IsReplay(g, TripEvents) OBVIOUS
<1>2. IsReplay(f, TripEvents) BY <1>1, ReplayExists, Zenon
<1>3. Replays = f[TripEvents].ok BY <1>1, Zenon DEF Replays, MapThenFoldSet, IsReplay, PartReplay, StartReplay
<1>. QED BY <1>2, <1>3

\* A sell of the only lot of its mint, which holds one token, takes the cost of that lot and drops it.
SoldOut(lots, c, p) ==
    /\ Total({q \in DOMAIN lots : lots[q].mint = c}, LotTokens(lots)) = 1
    /\ CostTaken(lots, c, 1) = lots[p].cost
    /\ DOMAIN Consume(lots, c, 1) = DOMAIN lots \ {p}
    /\ \A q \in DOMAIN lots \ {p} : Consume(lots, c, 1)[q] = lots[q]

LEMMA SellsOne ==
  ASSUME NEW lots, IsLots(lots), NEW c, NEW p \in DOMAIN lots, lots[p].mint = c, lots[p].tokens = 1,
         \A q \in DOMAIN lots : lots[q].mint = c => q = p
  PROVE  SoldOut(lots, c, p)
<1>1. PICK D : D = DOMAIN lots OBVIOUS
<1>2. IsFiniteSet(D) /\ D \in SUBSET Nat /\ \A q \in D : lots[q] \in Lot BY <1>1 DEF IsLots
<1>3. \A q \in D : lots[q].cost \in Int /\ lots[q].tokens \in Nat \ {0} BY <1>2 DEF Lot
<1>4. PICK one : one = {q \in DOMAIN lots : lots[q].mint = c} OBVIOUS
<1>5. one = {p} BY <1>4
<1>6. ASSUME NEW w, w[p] \in Int PROVE Total({p}, w) = w[p]
  <2>1. Weighs({p}, w) BY <1>6, FS_Singleton DEF Weighs
  <2>2. TotalSplits({p}, w) BY <2>1, TotalTakes
  <2>3. {p} \ {p} = {} /\ p \in {p} OBVIOUS
  <2>4. Total({p}, w) = w[p] + Total({p} \ {p}, w) BY <2>2, <2>3 DEF TotalSplits
  <2>5. Total({p} \ {p}, w) = 0 BY <2>3, TotalEmpty
  <2>. QED BY <1>6, <2>4, <2>5
<1>7. Total(one, LotTokens(lots)) = 1
  <2>1. LotTokens(lots)[p] = 1 BY DEF LotTokens
  <2>. QED BY <1>5, <1>6, <2>1
<1>8. TakenAt(lots, c, 1, p) = [take |-> 1, cost |-> lots[p].cost]
  <2>1. PICK older : older = {j \in DOMAIN lots : j < p /\ lots[j].mint = c} OBVIOUS
  <2>2. older = {}
    <3>. SUFFICES ASSUME NEW j \in older PROVE FALSE OBVIOUS
    <3>1. j = p /\ j < p /\ p \in Nat BY <1>1, <1>2, <2>1
    <3>. QED BY <3>1
  <2>3. Total(older, LotTokens(lots)) = 0 BY <2>2, TotalEmpty
  <2>4. PICK x \in Int : x = 1 - 0 OBVIOUS
  <2>5. LeftAt(lots, c, 1, p) = Max({0, x}) BY <2>1, <2>3, <2>4 DEF LeftAt
  <2>6. LeftAt(lots, c, 1, p) = 1 BY <2>4, <2>5, LargerOf
  <2>7. TakenAt(lots, c, 1, p) = ShareOf(lots[p], 1) BY <2>6 DEF TakenAt
  <2>8. Lesser(1, lots[p].tokens) = 1 BY DEF Lesser
  <2>. QED BY <2>7, <2>8 DEF ShareOf
<1>9. \A q \in D \ {p} : TakenAt(lots, c, 1, q) = [take |-> 0, cost |-> 0] BY <1>1 DEF TakenAt
<1>10. CostTaken(lots, c, 1) = lots[p].cost
  <2>1. PICK w : w = [i \in D |-> TakenAt(lots, c, 1, i).cost] OBVIOUS
  <2>2. w[p] = lots[p].cost /\ \A q \in D \ {p} : w[q] = 0 BY <1>1, <1>8, <1>9, <2>1
  <2>3. \A q \in D : w[q] \in Int BY <1>1, <1>3, <2>2
  <2>4. Weighs(D, w) BY <1>2, <2>3 DEF Weighs
  <2>5. {p} \in SUBSET D BY <1>1
  <2>6. Total(D, w) = Total({p}, w) BY <2>2, <2>4, <2>5, TotalDropsZeros
  <2>7. Total({p}, w) = w[p] BY <1>1, <1>6, <2>3
  <2>8. CostTaken(lots, c, 1) = Total(D, w) BY <1>1, <2>1 DEF CostTaken
  <2>. QED BY <2>2, <2>6, <2>7, <2>8
<1>11. Reduced(lots, c, 1, p).tokens = 0
  <2>1. PICK r, t : r = Reduced(lots, c, 1, p) /\ t = TakenAt(lots, c, 1, p) OBVIOUS
  <2>2. r.tokens = lots[p].tokens - t.take BY <2>1, ReducedIs, 1 \in Nat
  <2>3. t.take = 1 BY <1>8, <2>1
  <2>. QED BY <2>1, <2>2, <2>3
<1>12. ASSUME NEW q \in D \ {p} PROVE Reduced(lots, c, 1, q) = lots[q] /\ Reduced(lots, c, 1, q).tokens # 0
  <2>1. PICK r, t : r = Reduced(lots, c, 1, q) /\ t = TakenAt(lots, c, 1, q) OBVIOUS
  <2>2. q \in DOMAIN lots BY <1>1
  <2>3. /\ r.mint = lots[q].mint /\ r.at = lots[q].at /\ r.tokens = lots[q].tokens - t.take
        /\ r.cost = lots[q].cost - t.cost
        /\ r.tokens # 0 => r \in Lot
    BY <2>1, <2>2, ReducedIs, 1 \in Nat
  <2>4. t.take = 0 /\ t.cost = 0 BY <1>9, <2>1
  <2>5. r.tokens = lots[q].tokens /\ r.cost = lots[q].cost /\ r.tokens # 0 BY <1>3, <2>3, <2>4
  <2>6. PICK lot \in Lot : lot = lots[q] BY <1>2
  <2>7. r \in Lot /\ r.mint = lot.mint /\ r.at = lot.at /\ r.tokens = lot.tokens /\ r.cost = lot.cost
    BY <2>3, <2>5, <2>6
  <2>8. r = lot BY <2>6, <2>7 DEF Lot
  <2>. QED BY <2>1, <2>5, <2>6, <2>8
<1>13. PICK E : E = {j \in DOMAIN lots : Reduced(lots, c, 1, j).tokens # 0} OBVIOUS
<1>14. E = D \ {p} BY <1>1, <1>11, <1>12, <1>13
<1>15. Consume(lots, c, 1) = [i \in E |-> Reduced(lots, c, 1, i)] BY <1>13 DEF Consume
<1>. QED BY <1>1, <1>4, <1>7, <1>10, <1>12, <1>14, <1>15 DEF SoldOut

-----------------------------------------------------------------------------
(* Replaying the events of a prefix gives the lots of the trips open in it. *)

LotOf(i) == [mint |-> trips[i].mint, tokens |-> 1, cost |-> i, at |-> trips[i].opened]
OpenIn(s) == {i \in DOMAIN trips : OpenEvent(i) \in s /\ CloseEvent(i) \notin s}
IsEarlyPart(s) == \A e \in s : \A d \in TripEvents : Precedes(d, e) => d \in s

LotsAre(lots, open) ==
    /\ \A p \in DOMAIN lots : \E i \in open : lots[p] = LotOf(i)
    /\ \A i \in open : \E p \in DOMAIN lots : lots[p] = LotOf(i)
    /\ \A p, q \in DOMAIN lots : lots[p] = lots[q] => p = q

Rebuilt(s, acc) ==
    /\ acc.ok /\ IsLedger(acc.ledger) /\ InTime(acc.ledger)
    /\ acc.ledger.last = 0 \/ \E e \in s : acc.ledger.last = e[1]
    /\ LotsAre(acc.ledger.lots, OpenIn(s))

LEMMA LotOfIs ==
  ASSUME trips \in Seq(Trip)
  PROVE  /\ \A i \in DOMAIN trips : LotOf(i) \in Lot /\ LotOf(i).mint = trips[i].mint /\ LotOf(i).tokens = 1
                                    /\ LotOf(i).cost = i /\ LotOf(i).at = trips[i].opened
         /\ \A i, j \in DOMAIN trips : LotOf(i) = LotOf(j) => i = j
<1>1. ASSUME NEW i \in DOMAIN trips
      PROVE  LotOf(i) \in Lot /\ LotOf(i).mint = trips[i].mint /\ LotOf(i).tokens = 1
             /\ LotOf(i).cost = i /\ LotOf(i).at = trips[i].opened
  <2>1. i \in Nat /\ trips[i].opened \in Nat /\ trips[i].mint \in Coins BY TripsAre
  <2>. QED BY <2>1 DEF LotOf, Lot
<1>2. ASSUME NEW i \in DOMAIN trips, NEW j \in DOMAIN trips, LotOf(i) = LotOf(j) PROVE i = j
  BY <1>1, <1>2
<1>. QED BY <1>1, <1>2

\* Which events are which.
LEMMA EventsDiffer ==
  ASSUME trips \in Seq(Trip)
  PROVE  /\ \A i, j : OpenEvent(i) # CloseEvent(j)
         /\ \A i, j : (OpenEvent(i) = OpenEvent(j) \/ CloseEvent(i) = CloseEvent(j)) => i = j
         /\ \A i : CloseEvent(i) \in TripEvents => i \in DOMAIN trips /\ ~Held(i)
         /\ \A i \in DOMAIN trips : OpenEvent(i) \in TripEvents /\ (~Held(i) => CloseEvent(i) \in TripEvents)
<1>1. \A i, j : OpenEvent(i) # CloseEvent(j) BY DEF OpenEvent, CloseEvent
<1>2. \A i, j : (OpenEvent(i) = OpenEvent(j) \/ CloseEvent(i) = CloseEvent(j)) => i = j BY DEF OpenEvent, CloseEvent
<1>3. ASSUME NEW i, CloseEvent(i) \in TripEvents PROVE i \in DOMAIN trips /\ ~Held(i)
  <2>1. PICK j \in DOMAIN trips : CloseEvent(i) = OpenEvent(j) \/ (~Held(j) /\ CloseEvent(i) = CloseEvent(j))
    BY <1>3, EventsAre
  <2>. QED BY <1>1, <1>2, <2>1
<1>4. \A i \in DOMAIN trips : OpenEvent(i) \in TripEvents /\ (~Held(i) => CloseEvent(i) \in TripEvents) BY EventsAre
<1>. QED BY <1>1, <1>2, <1>3, <1>4

\* The events of a prefix are not later than the next one, and the ledger takes it in order.
LEMMA ReplayInOrder ==
  ASSUME trips \in Seq(Trip), NEW s \in SUBSET TripEvents, NEW e, ComesLast(s, e), NEW acc, Rebuilt(s \ {e}, acc)
  PROVE  acc.ledger.last <= e[1]
<1>1. s \in SUBSET TripEvent BY EventsAre
<1>2. e \in TripEvent /\ \A d \in s \ {e} : Precedes(d, e) /\ d \in TripEvent BY <1>1 DEF ComesLast
<1>3. \A d \in s \ {e} : d[1] <= e[1] BY <1>2 DEF Precedes, TripEvent
<1>4. 0 <= e[1] BY <1>2 DEF TripEvent
<1>. QED BY <1>3, <1>4 DEF Rebuilt

LEMMA ReplaysOpening ==
  ASSUME trips \in Seq(Trip), BookTimes, NEW s \in SUBSET TripEvents, NEW i \in DOMAIN trips,
         ComesLast(s, OpenEvent(i)), NEW acc, Rebuilt(s \ {OpenEvent(i)}, acc)
  PROVE  Rebuilt(s, ReplayEvent(acc, OpenEvent(i)))
<1>0. PICK e, t : e = OpenEvent(i) /\ t = s \ {e} OBVIOUS
<1>1. PICK l, lots : l = acc.ledger /\ lots = l.lots OBVIOUS
<1>2. /\ acc.ok /\ IsLedger(l) /\ InTime(l) /\ LotsAre(lots, OpenIn(t)) BY <1>0, <1>1 DEF Rebuilt
<1>3. PICK lot \in Lot : lot = LotOf(i) /\ lot.tokens = 1 /\ lot.cost = i /\ lot.at = trips[i].opened BY LotOfIs
<1>4. i \in Nat /\ trips[i].opened \in Nat BY TripsAre
<1>5. e[1] = trips[i].opened /\ e[2] = 1 /\ e[3] = i BY <1>0 DEF OpenEvent
<1>6. l.last <= e[1] BY <1>0, <1>1, ReplayInOrder
<1>7. CanOpenLot(l, lot) BY <1>3, <1>4, <1>5, <1>6 DEF CanOpenLot, InOrder
<1>8. PICK n : n = OpenLot(l, lot) OBVIOUS
<1>9. ReplayEvent(acc, e) = [ok |-> CanOpenLot(l, lot), ledger |-> n]
  <2>1. lot = [mint |-> trips[e[3]].mint, tokens |-> 1, cost |-> e[3], at |-> e[1]] BY <1>3, <1>5 DEF LotOf
  <2>. QED BY <1>1, <1>2, <1>5, <1>8, <2>1 DEF ReplayEvent
<1>10. IsLedger(n) /\ InTime(n) /\ AddedTo(l, lot, n) BY <1>2, <1>7, <1>8, OpenIs
<1>11. OpenIn(s) = OpenIn(t) \cup {i} /\ i \notin OpenIn(t)
  <2>1. CloseEvent(i) \notin s
    <3>. SUFFICES ASSUME CloseEvent(i) \in s PROVE FALSE OBVIOUS
    <3>1. ~Held(i) BY EventsDiffer
    <3>2. trips[i].opened < trips[i].closed /\ trips[i].closed \in Nat BY <3>1, TripsAre DEF BookTimes, ClosedAfter
    <3>3. CloseEvent(i) \in s \ {e} BY <1>0, EventsDiffer
    <3>4. Precedes(CloseEvent(i), e) BY <1>0, <3>3 DEF ComesLast
    <3>. QED BY <1>0, <1>4, <3>2, <3>4 DEF Precedes, OpenEvent, CloseEvent
  <2>2. e \in s /\ e \notin t BY <1>0 DEF ComesLast
  <2>3. \A j \in DOMAIN trips \ {i} : OpenEvent(j) # e /\ CloseEvent(j) # e BY <1>0, EventsDiffer
  <2>4. \A j \in DOMAIN trips \ {i} : j \in OpenIn(s) <=> j \in OpenIn(t) BY <1>0, <2>3 DEF OpenIn
  <2>5. i \in OpenIn(s) /\ i \notin OpenIn(t) BY <1>0, <2>1, <2>2 DEF OpenIn
  <2>6. OpenIn(s) \in SUBSET (DOMAIN trips) /\ OpenIn(t) \in SUBSET (DOMAIN trips) BY DEF OpenIn
  <2>. QED BY <2>4, <2>5, <2>6
<1>12. LotsAre(n.lots, OpenIn(s))
  <2>1. PICK p : /\ p \notin DOMAIN lots /\ DOMAIN n.lots = DOMAIN lots \cup {p}
                 /\ n.lots[p] = lot /\ \A q \in DOMAIN lots : n.lots[q] = lots[q]
    BY <1>1, <1>10 DEF AddedTo
  <2>2. \A q \in DOMAIN lots : lots[q] # lot
    <3>. SUFFICES ASSUME NEW q \in DOMAIN lots, lots[q] = lot PROVE FALSE OBVIOUS
    <3>1. PICK j \in OpenIn(t) : lots[q] = LotOf(j) BY <1>2 DEF LotsAre
    <3>2. j = i BY <1>3, <3>1, LotOfIs DEF OpenIn
    <3>. QED BY <1>11, <3>2
  <2>3. \A q \in DOMAIN n.lots : \E j \in OpenIn(s) : n.lots[q] = LotOf(j)
    BY <1>2, <1>3, <1>11, <2>1 DEF LotsAre
  <2>4. \A j \in OpenIn(s) : \E q \in DOMAIN n.lots : n.lots[q] = LotOf(j)
    BY <1>2, <1>3, <1>11, <2>1 DEF LotsAre
  <2>5. \A q, r \in DOMAIN n.lots : n.lots[q] = n.lots[r] => q = r BY <1>2, <2>1, <2>2 DEF LotsAre
  <2>. QED BY <2>3, <2>4, <2>5 DEF LotsAre
<1>13. n.last = e[1] BY <1>3, <1>5, <1>10 DEF AddedTo
<1>14. e \in s BY <1>0 DEF ComesLast
<1>15. PICK r : r = ReplayEvent(acc, e) OBVIOUS
<1>16. r.ok /\ r.ledger = n BY <1>7, <1>9, <1>15
<1>17. Rebuilt(s, r) BY <1>10, <1>12, <1>13, <1>14, <1>16 DEF Rebuilt
<1>. QED BY <1>0, <1>15, <1>17

LEMMA ReplaysClosing ==
  ASSUME trips \in Seq(Trip), BookTimes, NEW s \in SUBSET TripEvents, IsEarlyPart(s), NEW i \in DOMAIN trips, ~Held(i),
         ComesLast(s, CloseEvent(i)), NEW acc, Rebuilt(s \ {CloseEvent(i)}, acc)
  PROVE  Rebuilt(s, ReplayEvent(acc, CloseEvent(i)))
<1>0. PICK e, t : e = CloseEvent(i) /\ t = s \ {e} OBVIOUS
<1>1. PICK l, lots : l = acc.ledger /\ lots = l.lots OBVIOUS
<1>2. /\ acc.ok /\ IsLedger(l) /\ InTime(l) /\ LotsAre(lots, OpenIn(t)) BY <1>0, <1>1 DEF Rebuilt
<1>3. PICK c \in Coins : c = trips[i].mint BY TripsAre
<1>4. i \in Nat /\ trips[i].opened \in Nat /\ trips[i].closed \in Nat /\ trips[i].opened < trips[i].closed
  BY TripsAre DEF BookTimes, ClosedAfter
<1>5. e[1] = trips[i].closed /\ e[2] = 0 /\ e[3] = i BY <1>0 DEF CloseEvent
<1>6. l.last <= e[1] BY <1>0, <1>1, ReplayInOrder
<1>7. e \in s /\ e \notin t /\ \A d \in t : Precedes(d, e) BY <1>0 DEF ComesLast
<1>8. i \in OpenIn(t)
  <2>1. Precedes(OpenEvent(i), e) BY <1>0, <1>4 DEF Precedes, OpenEvent, CloseEvent
  <2>2. OpenEvent(i) \in s BY <1>7, <2>1, EventsDiffer DEF IsEarlyPart
  <2>3. OpenEvent(i) \in t BY <1>0, <2>2, EventsDiffer
  <2>. QED BY <1>0, <1>7, <2>3 DEF OpenIn
<1>9. ASSUME NEW j \in OpenIn(t), trips[j].mint = c PROVE j = i
  <2>. SUFFICES ASSUME j # i PROVE FALSE OBVIOUS
  <2>1. j \in DOMAIN trips /\ j \in Nat /\ trips[j].opened \in Nat /\ trips[j].closed \in Nat BY TripsAre DEF OpenIn
  <2>2. CASE Apart(j, i)
    <3>1. ~Held(j) /\ trips[j].closed < trips[i].opened BY <2>2 DEF Apart
    <3>2. Precedes(CloseEvent(j), e) BY <1>0, <1>4, <2>1, <3>1 DEF Precedes, CloseEvent
    <3>3. CloseEvent(j) \in s BY <1>7, <2>1, <3>1, <3>2, EventsDiffer DEF IsEarlyPart
    <3>4. CloseEvent(j) # e BY <1>0, EventsDiffer
    <3>. QED BY <1>0, <3>3, <3>4 DEF OpenIn
  <2>3. CASE Apart(i, j)
    <3>1. trips[i].closed < trips[j].opened BY <2>3 DEF Apart
    <3>2. OpenEvent(j) \in t BY DEF OpenIn
    <3>3. Precedes(OpenEvent(j), e) BY <1>7, <3>2
    <3>. QED BY <1>0, <1>4, <2>1, <3>1, <3>3 DEF Precedes, OpenEvent, CloseEvent
  <2>. QED BY <1>3, <1>9, <2>1, <2>2, <2>3 DEF BookTimes, TripsApart
<1>10. OpenIn(t) \in SUBSET (DOMAIN trips) BY DEF OpenIn
<1>11. PICK p \in DOMAIN lots : lots[p] = LotOf(i) BY <1>2, <1>8 DEF LotsAre
<1>12. lots[p].mint = c /\ lots[p].tokens = 1 /\ lots[p].cost = i BY <1>3, <1>11, LotOfIs
<1>13. ASSUME NEW q \in DOMAIN lots, lots[q].mint = c PROVE q = p
  <2>1. PICK j \in OpenIn(t) : lots[q] = LotOf(j) BY <1>2 DEF LotsAre
  <2>2. trips[j].mint = c BY <1>10, <1>13, <2>1, LotOfIs
  <2>3. j = i BY <1>9, <2>2
  <2>. QED BY <1>2, <1>11, <2>1, <2>3 DEF LotsAre
<1>14. IsLots(lots) BY <1>1, <1>2 DEF IsLedger
<1>15. /\ Total({q \in DOMAIN lots : lots[q].mint = c}, LotTokens(lots)) = 1
       /\ CostTaken(lots, c, 1) = lots[p].cost
       /\ DOMAIN Consume(lots, c, 1) = DOMAIN lots \ {p}
       /\ \A q \in DOMAIN lots \ {p} : Consume(lots, c, 1)[q] = lots[q]
  <2>1. SoldOut(lots, c, p) BY <1>12, <1>13, <1>14, SellsOne
  <2>. QED BY <2>1 DEF SoldOut
<1>16. CanClose(l, c, 1, e[1])
  <2>1. TokensOf(l, c) = 1 BY <1>1, <1>15 DEF TokensOf, LotsOf
  <2>. QED BY <1>6, <2>1 DEF CanClose, InOrder
<1>17. NetOf(l, c, 1, 0) = -i BY <1>1, <1>4, <1>12, <1>15 DEF NetOf
<1>18. PICK n : n = CloseLots(l, c, 1, 0, e[1]) OBVIOUS
<1>19. e[1] \in Nat BY <1>4, <1>5
<1>20. IsLedger(n) /\ InTime(n) BY <1>2, <1>16, <1>18, <1>19, CloseIs, 1 \in Nat, 0 \in Int
<1>21. n.lots = Consume(lots, c, 1) /\ n.last = e[1]
  <2>1. PICK rest, begun, pnl : CloseFacts(l, c, 1, 0, e[1], rest, begun, pnl, n)
    BY <1>2, <1>16, <1>18, <1>19, CloseDoes, 1 \in Nat, 0 \in Int
  <2>. QED BY <1>1, <2>1 DEF CloseFacts
<1>22. ReplayEvent(acc, e) = [ok |-> TRUE, ledger |-> n]
  <2>1. trips[e[3]].mint = c /\ e[2] # 1 BY <1>3, <1>5
  <2>. QED BY <1>1, <1>2, <1>5, <1>16, <1>17, <1>18, <2>1 DEF ReplayEvent
<1>23. OpenIn(s) = OpenIn(t) \ {i}
  <2>1. \A j \in DOMAIN trips \ {i} : OpenEvent(j) # e /\ CloseEvent(j) # e BY <1>0, EventsDiffer
  <2>2. \A j \in DOMAIN trips \ {i} : j \in OpenIn(s) <=> j \in OpenIn(t) BY <1>0, <2>1 DEF OpenIn
  <2>3. i \notin OpenIn(s) BY <1>0, <1>7 DEF OpenIn
  <2>4. OpenIn(s) \in SUBSET (DOMAIN trips) BY DEF OpenIn
  <2>. QED BY <1>10, <2>2, <2>3, <2>4
<1>24. LotsAre(n.lots, OpenIn(s))
  <2>1. DOMAIN n.lots = DOMAIN lots \ {p} /\ \A q \in DOMAIN lots \ {p} : n.lots[q] = lots[q] BY <1>15, <1>21
  <2>2. ASSUME NEW q \in DOMAIN n.lots PROVE \E j \in OpenIn(s) : n.lots[q] = LotOf(j)
    <3>1. PICK j \in OpenIn(t) : lots[q] = LotOf(j) BY <1>2, <2>1 DEF LotsAre
    <3>2. j # i BY <1>2, <1>11, <2>1, <3>1 DEF LotsAre
    <3>. QED BY <1>23, <2>1, <3>1, <3>2
  <2>3. ASSUME NEW j \in OpenIn(s) PROVE \E q \in DOMAIN n.lots : n.lots[q] = LotOf(j)
    <3>1. j \in OpenIn(t) /\ j # i BY <1>23
    <3>2. PICK q \in DOMAIN lots : lots[q] = LotOf(j) BY <1>2, <3>1 DEF LotsAre
    <3>3. q # p BY <1>10, <1>11, <3>1, <3>2, LotOfIs
    <3>. QED BY <2>1, <3>2, <3>3
  <2>4. \A q, r \in DOMAIN n.lots : n.lots[q] = n.lots[r] => q = r BY <1>2, <2>1 DEF LotsAre
  <2>. QED BY <2>2, <2>3, <2>4 DEF LotsAre
<1>25. PICK r : r = ReplayEvent(acc, e) OBVIOUS
<1>26. r.ok /\ r.ledger = n BY <1>22, <1>25
<1>27. Rebuilt(s, r) BY <1>7, <1>20, <1>21, <1>24, <1>26 DEF Rebuilt
<1>. QED BY <1>0, <1>25, <1>27

LEMMA BookReplays ==
  ASSUME trips \in Seq(Trip), BookTimes
  PROVE  Replays
<1>0. IsFiniteSet(TripEvents) /\ TripEvents \in SUBSET TripEvent BY EventsAre
<1>1. PICK f : IsReplay(f, TripEvents) /\ Replays = f[TripEvents].ok BY ReplaysUnfolds
<1>2. \A s \in SUBSET TripEvents : f[s] = PartReplay(f, s) BY <1>1, Zenon DEF IsReplay
<1>. DEFINE G == {s \in SUBSET TripEvents : IsEarlyPart(s) => Rebuilt(s, f[s])}
<1>3. {} \in G
  <2>1. f[{}] = StartReplay BY <1>2 DEF PartReplay
  <2>2. PICK acc : acc = f[{}] OBVIOUS
  <2>3. acc.ok /\ acc.ledger = EmptyLedger BY <2>1, <2>2 DEF StartReplay
  <2>4. IsLedger(EmptyLedger) /\ InTime(EmptyLedger) BY EmptyIs
  <2>5. EmptyLedger.last = 0 /\ DOMAIN EmptyLedger.lots = {} BY DEF EmptyLedger
  <2>6. OpenIn({}) = {} BY DEF OpenIn
  <2>7. LotsAre(EmptyLedger.lots, OpenIn({})) BY <2>5, <2>6 DEF LotsAre
  <2>8. Rebuilt({}, acc) BY <2>3, <2>4, <2>5, <2>7 DEF Rebuilt
  <2>. QED BY <2>2, <2>8
<1>4. ASSUME NEW s \in SUBSET TripEvents, s # {}, \A x \in s : s \ {x} \in G PROVE s \in G
  <2>. SUFFICES ASSUME IsEarlyPart(s) PROVE Rebuilt(s, f[s]) OBVIOUS
  <2>1. PICK e : e = NewestEvent(s) OBVIOUS
  <2>2. ComesLast(s, e) BY <1>4, <2>1, NewestIs
  <2>3. e \in s BY <2>2 DEF ComesLast
  <2>4. IsEarlyPart(s \ {e})
    <3>. SUFFICES ASSUME NEW d \in s \ {e}, NEW g \in TripEvents, Precedes(g, d) PROVE g \in s \ {e} BY DEF IsEarlyPart
    <3>1. g \in s BY DEF IsEarlyPart
    <3>2. Precedes(d, e) BY <2>2 DEF ComesLast
    <3>3. d \in TripEvent /\ e \in TripEvent BY <1>0, <2>3
    <3>. QED BY <3>1, <3>2, <3>3, EventOrder
  <2>5. PICK acc : acc = f[s \ {e}] OBVIOUS
  <2>6. Rebuilt(s \ {e}, acc) BY <1>4, <2>3, <2>4, <2>5
  <2>7. f[s] = ReplayEvent(acc, e) BY <1>2, <1>4, <2>1, <2>5 DEF PartReplay
  <2>8. PICK i \in DOMAIN trips : e = OpenEvent(i) \/ (~Held(i) /\ e = CloseEvent(i)) BY <2>3, EventsAre
  <2>9. CASE e = OpenEvent(i) BY <2>2, <2>6, <2>7, <2>9, ReplaysOpening
  <2>10. CASE ~Held(i) /\ e = CloseEvent(i) BY <2>2, <2>6, <2>7, <2>10, ReplaysClosing
  <2>. QED BY <2>8, <2>9, <2>10
<1>5. \A s \in SUBSET TripEvents : s \in G
  <2>. HIDE DEF G
  <2>. QED BY <1>0, <1>3, <1>4, SubsetInduces
<1>6. IsEarlyPart(TripEvents) BY DEF IsEarlyPart
<1>7. Rebuilt(TripEvents, f[TripEvents]) BY <1>5, <1>6
<1>. QED BY <1>1, <1>7 DEF Rebuilt

-----------------------------------------------------------------------------
(* The steps of the paper trader.                                           *)

TickPlaces == {"idle", "control", "exits", "count", "entries", "buy"}
WriteKinds == {"none", "open", "close", "count", "cost"}

IsTick(t) ==
    /\ t = [at |-> t.at, held |-> t.held, mints |-> t.mints, last |-> t.last, intact |-> t.intact,
            blind |-> t.blind, left |-> t.left, due |-> t.due, open |-> t.open,
            trip |-> t.trip, priced |-> t.priced, mint |-> t.mint]
    /\ t.at \in TickPlaces /\ t.last \in Nat

IsWrite(w) == w.kind \in WriteKinds /\ w.trip \in Nat /\ w.at \in Nat /\ w.base \in Nat

PaperShape ==
    /\ trips \in Seq(Trip) /\ costs \in [count : Nat, at : Nat]
    /\ version \in Profiles \cup {Unset} /\ profile \in Profiles \cup {Unset}
    /\ paused \in BOOLEAN /\ calling \in BOOLEAN /\ IsTick(tick) /\ IsWrite(late)
    /\ clock \in Nat /\ pauses \in Nat /\ control \in Nat /\ owner \in Nat /\ slipped \in Nat

\* What the rows alone satisfy.
RowsFit ==
    /\ ClosedAfter /\ ("open" \notin overtaken => TripsApart)
    /\ \A i, j \in HeldTrips : trips[i].mint = trips[j].mint => i = j
    /\ \A i \in DOMAIN trips : trips[i].with = version /\ version # Unset
    /\ profile \in {Unset, version}

\* A write a tick makes, or has given up on, is one the rows can take.
SoundWrite(w) ==
    /\ w.kind = "open" => w.mint \in Coins /\ w.with = version /\ version # Unset
    /\ w.kind = "close" => w.trip \in DOMAIN trips /\ trips[w.trip].opened < w.at
    /\ w.kind = "count" => w.trip \in DOMAIN trips
    /\ w.kind = "cost" => w.trip = 0 \/ w.trip \in DOMAIN trips

\* The trip that may still be stored, and the failures that may still be counted.
Coming == IF late.kind = "open" THEN 1 ELSE 0
OwedLate(i) == IF late.kind = "count" /\ late.trip = i /\ late.priced THEN 1 ELSE 0
OwedTick(i) == IF tick.at = "count" /\ tick.trip = i /\ tick.priced THEN 1 ELSE 0

FailuresPaid ==
    \A i \in DOMAIN trips :
        trips[i].failures + OwedLate(i) + OwedTick(i) <= trips[i].fees + trips[i].unpriced
WithinLimit == Cardinality(HeldTrips) + Coming <= MaxOpen + 1

\* What a tick remembers of the rows still bounds them, whatever was stored late since.
TickKnows ==
    /\ profile # Unset /\ tick.held \subseteq DOMAIN trips
    /\ \A i \in tick.held : trips[i].opened <= tick.last
    /\ \A j \in DOMAIN trips : trips[j].mint \in tick.mints \/ Held(j) \/ trips[j].closed <= tick.last
    /\ Cardinality(HeldTrips) + Coming <= Cardinality(tick.held) + 1
    /\ late.kind = "close" /\ Held(late.trip) => trips[late.trip].mint \in tick.mints

TickFits ==
    /\ tick.left \subseteq tick.held /\ tick.due \subseteq Watchlist \ tick.mints
    /\ tick.at # "idle" => TickKnows
    /\ tick.at = "count" => tick.trip \in tick.left
    /\ tick.at \in {"entries", "buy"} => tick.open = Cardinality(tick.held)
    /\ tick.at = "buy" => tick.open < MaxOpen /\ tick.mint \in Watchlist \ tick.mints

\* A pause the owner knows of is stored, and known to the tick once it has looked; what may still be
\* opened is the trip past its last check and the one given up on.
Buying == IF tick.at = "buy" THEN 1 ELSE 0
PauseKept ==
    /\ calling => paused
    /\ owner = 0 => slipped = 0
    /\ owner # 0 => /\ control = owner
                    /\ tick.at \in {"idle", "control"} \/ paused \/ tick.blind
                    /\ slipped + Coming + Buying <= 2

BookFits == RowsFit /\ SoundWrite(late) /\ FailuresPaid /\ WithinLimit
PaperInv == PaperShape /\ BookFits /\ TickFits /\ PauseKept

LEMMA IdleIs == /\ IsTick(Idle) /\ Idle.at = "idle" /\ Idle.left = {} /\ Idle.due = {} /\ Idle.held = {}
                /\ IsWrite(NoWrite) /\ NoWrite.kind = "none"
<1>1. PICK t : t = Idle OBVIOUS
<1>2. /\ t = [at |-> t.at, held |-> t.held, mints |-> t.mints, last |-> t.last, intact |-> t.intact,
              blind |-> t.blind, left |-> t.left, due |-> t.due, open |-> t.open,
              trip |-> t.trip, priced |-> t.priced, mint |-> t.mint]
      /\ t.at = "idle" /\ t.left = {} /\ t.due = {} /\ t.last = 0 /\ t.held = {}
  BY <1>1 DEF Idle
<1>3. t.at \in TickPlaces /\ t.last \in Nat BY <1>2 DEF TickPlaces
<1>4. IsTick(t) BY <1>2, <1>3, Zenon DEF IsTick
<1>5. IsWrite(NoWrite) /\ NoWrite.kind = "none" BY DEF IsWrite, NoWrite, WriteKinds
<1>. QED BY <1>1, <1>2, <1>4, <1>5

LEMMA PaperInitial == PaperInit => PaperInv
<1>. SUFFICES ASSUME PaperInit PROVE PaperInv OBVIOUS
<1>1. trips = <<>> /\ DOMAIN trips = {} /\ HeldTrips = {} BY DEF PaperInit, HeldTrips
<1>2. Cardinality(HeldTrips) = 0 BY <1>1, FS_EmptySet
<1>3. /\ tick = Idle /\ IsTick(tick) /\ tick.at = "idle" /\ tick.left = {} /\ tick.due = {} /\ tick.held = {}
      /\ late = NoWrite /\ IsWrite(late) /\ late.kind = "none"
  BY IdleIs DEF PaperInit
<1>4. PaperShape
  <2>1. trips \in Seq(Trip) /\ costs \in [count : Nat, at : Nat] BY <1>1 DEF PaperInit
  <2>2. clock \in Nat /\ pauses \in Nat /\ control \in Nat /\ owner \in Nat /\ slipped \in Nat BY DEF PaperInit
  <2>3. paused \in BOOLEAN /\ calling \in BOOLEAN BY Zenon DEF PaperInit
  <2>4. version \in Profiles \cup {Unset} /\ profile \in Profiles \cup {Unset} BY DEF PaperInit
  <2>. QED BY <1>3, <2>1, <2>2, <2>3, <2>4, Zenon DEF PaperShape
<1>5. RowsFit BY <1>1 DEF PaperInit, RowsFit, ClosedAfter, TripsApart
<1>6. BookFits BY <1>1, <1>2, <1>3, <1>5, PaperAssumption
               DEF BookFits, SoundWrite, FailuresPaid, WithinLimit, Coming
<1>7. TickFits BY <1>3 DEF TickFits
<1>8. PauseKept BY <1>3 DEF PaperInit, PauseKept
<1>. QED BY <1>4, <1>6, <1>7, <1>8 DEF PaperInv

\* Steps that leave the rows and the write given up on alone.
RowsStand == /\ trips' = trips /\ costs' = costs /\ late' = late /\ overtaken' = overtaken
             /\ version' = version /\ profile' = profile

LEMMA RowsStay ==
  ASSUME RowsStand
  PROVE  /\ HeldTrips' = HeldTrips /\ (RowsFit => RowsFit') /\ (SoundWrite(late) => SoundWrite(late)')
         /\ Coming' = Coming /\ (WithinLimit => WithinLimit')
<1>0. trips' = trips /\ late' = late /\ overtaken' = overtaken /\ version' = version /\ profile' = profile
  BY DEF RowsStand
<1>1. HeldTrips' = HeldTrips /\ Coming' = Coming BY <1>0 DEF HeldTrips, Held, Coming
<1>2. RowsFit => RowsFit' BY <1>0, <1>1 DEF RowsFit, ClosedAfter, TripsApart, Apart, Held
<1>3. SoundWrite(late) => SoundWrite(late)' BY <1>0 DEF SoundWrite
<1>4. WithinLimit => WithinLimit' BY <1>1 DEF WithinLimit
<1>. QED BY <1>1, <1>2, <1>3, <1>4

\* Failures stay paid when no more of them is owed by the tick.
LEMMA PaidStays ==
  ASSUME RowsStand, FailuresPaid, trips \in Seq(Trip), tick'.at = "count" => tick' = tick \/ ~tick'.priced
  PROVE  FailuresPaid'
<1>1. trips' = trips /\ late' = late BY DEF RowsStand
<1>2. ASSUME NEW i \in DOMAIN trips
      PROVE  trips[i].failures + OwedLate(i)' + OwedTick(i)' <= trips[i].fees + trips[i].unpriced
  <2>1. /\ trips[i].failures \in Nat /\ trips[i].fees \in Nat /\ trips[i].unpriced \in Nat
        /\ OwedLate(i) \in Nat /\ OwedTick(i) \in Nat
    <3>1. trips[i] \in Trip BY TripsAre
    <3>. QED BY <3>1 DEF Trip, OwedLate, OwedTick
  <2>2. OwedLate(i)' = OwedLate(i) BY <1>1 DEF OwedLate
  <2>3. OwedTick(i)' = 0 \/ OwedTick(i)' = OwedTick(i) BY DEF OwedTick
  <2>4. trips[i].failures + OwedLate(i) + OwedTick(i) <= trips[i].fees + trips[i].unpriced BY DEF FailuresPaid
  <2>. QED BY <2>1, <2>2, <2>3, <2>4
<1>. QED BY <1>1, <1>2 DEF FailuresPaid

\* A step that changes the tick only.
LEMMA TickMoves ==
  ASSUME PaperInv, RowsStand, IsTick(tick'), TickFits', PauseKept', paused' \in BOOLEAN, calling' \in BOOLEAN,
         tick'.at = "count" => tick' = tick \/ ~tick'.priced,
         clock' \in Nat, pauses' \in Nat, control' \in Nat, owner' \in Nat, slipped' \in Nat
  PROVE  PaperInv'
<1>0. PaperShape /\ BookFits BY DEF PaperInv
<1>1. BookFits' BY <1>0, RowsStay, PaidStays DEF BookFits, PaperShape
<1>2. IsTick(tick)' /\ IsWrite(late)' BY <1>0 DEF IsTick, IsWrite, RowsStand, PaperShape
<1>3. PaperShape' BY <1>0, <1>2 DEF PaperShape, RowsStand
<1>. QED BY <1>1, <1>3 DEF PaperInv

LEMMA IdleFits ==
  ASSUME tick' = Idle
  PROVE  TickFits' /\ IsTick(tick') /\ tick'.at = "idle"
<1>1. IsTick(tick') /\ tick'.at = "idle" /\ tick'.left = {} /\ tick'.due = {} BY IdleIs
<1>2. TickFits' BY <1>1 DEF TickFits
<1>. QED BY <1>1, <1>2

LEMMA TickStays ==
  ASSUME tick' = tick, RowsStand, TickFits
  PROVE  TickFits'
<1>1. HeldTrips' = HeldTrips /\ Coming' = Coming BY RowsStay
<1>2. TickKnows => TickKnows' BY <1>1 DEF TickKnows, RowsStand, Held
<1>. QED BY <1>2 DEF TickFits

\* A tick that goes on remembers what it did.
LEMMA TickRemembers ==
  ASSUME RowsStand, TickKnows, tick'.held = tick.held, tick'.mints = tick.mints, tick'.last = tick.last
  PROVE  TickKnows'
<1>1. HeldTrips' = HeldTrips /\ Coming' = Coming BY RowsStay
<1>. QED BY <1>1 DEF TickKnows, RowsStand, Held

LEMMA StartStep ==
  ASSUME PaperInv, NEW p \in Profiles, NEW s \in 0 .. pauses, Start(p, s)
  PROVE  PaperInv'
<1>0. PaperShape /\ BookFits /\ TickFits /\ PauseKept BY DEF PaperInv
<1>1. /\ trips' = trips /\ costs' = costs /\ late' = late /\ overtaken' = overtaken /\ clock' = clock
      /\ pauses' = pauses /\ paused' = FALSE /\ calling' = FALSE /\ tick' = Idle
      /\ version' = (IF version = Unset THEN p ELSE version)
      /\ profile' = (IF version \in {Unset, p} THEN p ELSE Unset)
  BY Zenon DEF Start
<1>2. /\ control' = (IF version \in {Unset, p} /\ s # 0 /\ control = s THEN 0 ELSE control)
      /\ owner' = (IF version \in {Unset, p} /\ owner = s THEN 0 ELSE owner)
      /\ slipped' = (IF owner' = 0 THEN 0 ELSE slipped)
  BY DEF Start
<1>3. TickFits' /\ IsTick(tick') /\ tick'.at = "idle" BY <1>1, IdleFits
<1>4. HeldTrips' = HeldTrips /\ Coming' = Coming BY <1>1 DEF HeldTrips, Held, Coming
<1>5. RowsFit'
  <2>1. ClosedAfter' /\ ("open" \notin overtaken' => TripsApart') BY <1>0, <1>1 DEF BookFits, RowsFit, ClosedAfter, TripsApart, Apart, Held
  <2>2. \A i \in DOMAIN trips : trips[i].with = version /\ version # Unset BY <1>0 DEF BookFits, RowsFit
  <2>3. profile' \in {Unset, version'} BY <1>1
  <2>4. \A i \in DOMAIN trips' : trips'[i].with = version' /\ version' # Unset BY <1>1, <2>2
  <2>. QED BY <1>0, <1>1, <1>4, <2>1, <2>3, <2>4 DEF BookFits, RowsFit
<1>6. SoundWrite(late)' BY <1>0, <1>1 DEF BookFits, SoundWrite
<1>7. FailuresPaid'
  <2>1. ASSUME NEW i \in DOMAIN trips
        PROVE  trips[i].failures + OwedLate(i)' + OwedTick(i)' <= trips[i].fees + trips[i].unpriced
    <3>1. /\ trips[i].failures \in Nat /\ trips[i].fees \in Nat /\ trips[i].unpriced \in Nat
          /\ OwedLate(i) \in Nat /\ OwedTick(i) \in Nat
      <4>1. trips[i] \in Trip BY <1>0, TripsAre DEF PaperShape
      <4>. QED BY <4>1 DEF Trip, OwedLate, OwedTick
    <3>2. OwedLate(i)' = OwedLate(i) /\ OwedTick(i)' = 0 BY <1>1, <1>3 DEF OwedLate, OwedTick
    <3>. QED BY <1>0, <3>1, <3>2 DEF BookFits, FailuresPaid
  <2>. QED BY <1>1, <2>1 DEF FailuresPaid
<1>8. WithinLimit' BY <1>0, <1>4 DEF BookFits, WithinLimit
<1>9. PauseKept'
  <2>1. Buying' = 0 /\ Coming \in Nat /\ Buying \in Nat BY <1>3 DEF Buying, Coming
  <2>. QED BY <1>0, <1>1, <1>2, <1>3, <1>4, <2>1 DEF PauseKept, PaperShape
<1>10. PaperShape'
  <2>1. IsTick(tick)' /\ IsWrite(late)' BY <1>0, <1>1, <1>3 DEF IsTick, IsWrite, PaperShape
  <2>. QED BY <1>0, <1>1, <1>2, <2>1 DEF PaperShape
<1>. QED BY <1>3, <1>5, <1>6, <1>7, <1>8, <1>9, <1>10 DEF PaperInv, BookFits

LEMMA PauseSteps ==
  ASSUME PaperInv, ClockMoves \/ PauseNow \/ PauseUnstored \/ \E answered \in BOOLEAN : PauseStored(answered)
  PROVE  PaperInv'
<1>0. PaperShape /\ BookFits /\ TickFits /\ PauseKept BY DEF PaperInv
<1>1. RowsStand /\ tick' = tick
  BY Zenon DEF ClockMoves, PauseNow, PauseUnstored, PauseStored, RowsStand, rowVars
<1>2. TickFits' /\ IsTick(tick') BY <1>0, <1>1, TickStays DEF PaperShape
<1>3. Coming' = Coming /\ Buying' = Buying /\ Coming \in {0, 1} /\ Buying \in {0, 1}
  BY <1>1, RowsStay DEF Coming, Buying
<1>4. CASE ClockMoves
  <2>1. clock' \in 0 .. MaxClock /\ pauses' = pauses /\ control' = control /\ owner' = owner /\ slipped' = slipped
        /\ paused' = paused /\ calling' = calling
    BY <1>4 DEF ClockMoves, rowVars
  <2>2. PauseKept' BY <1>0, <1>1, <1>3, <2>1 DEF PauseKept
  <2>3. clock' \in Nat BY <2>1, PaperAssumption
  <2>. QED BY <1>0, <1>1, <1>2, <2>1, <2>2, <2>3, TickMoves DEF PaperShape
<1>5. CASE PauseNow
  <2>1. clock' = clock /\ pauses' = pauses /\ control' = control /\ owner' = owner /\ slipped' = slipped
        /\ paused' = TRUE /\ calling' = TRUE
    BY <1>5 DEF PauseNow, rowVars
  <2>2. PauseKept' BY <1>0, <1>1, <1>3, <2>1 DEF PauseKept
  <2>. QED BY <1>0, <1>1, <1>2, <2>1, <2>2, TickMoves DEF PaperShape
<1>6. CASE PauseUnstored
  <2>1. clock' = clock /\ pauses' = pauses /\ control' = control /\ owner' = owner /\ slipped' = slipped
        /\ paused' = paused /\ calling' = FALSE
    BY <1>6 DEF PauseUnstored, rowVars
  <2>2. PauseKept' BY <1>0, <1>1, <1>3, <2>1 DEF PauseKept
  <2>. QED BY <1>0, <1>1, <1>2, <2>1, <2>2, TickMoves DEF PaperShape
<1>7. CASE \E answered \in BOOLEAN : PauseStored(answered)
  <2>1. PICK answered \in BOOLEAN : PauseStored(answered) BY <1>7
  <2>2. /\ clock' = clock /\ paused' = paused /\ calling /\ calling' = FALSE
        /\ control' = (IF control # 0 THEN control ELSE pauses + 1)
        /\ pauses' = (IF control # 0 THEN pauses ELSE pauses + 1)
        /\ owner' = (IF answered THEN control' ELSE owner)
        /\ slipped' = (IF answered THEN 0 ELSE slipped)
    BY <2>1 DEF PauseStored
  <2>3. control' \in Nat \ {0} /\ pauses' \in Nat BY <1>0, <2>2 DEF PaperShape
  <2>4. owner' \in Nat /\ slipped' \in Nat BY <1>0, <2>2, <2>3 DEF PaperShape
  <2>5. paused' \in BOOLEAN /\ calling' \in BOOLEAN BY <1>0, <2>2, Zenon DEF PaperShape
  <2>6. PauseKept'
    <3>1. CASE answered BY <1>0, <1>1, <1>3, <2>2, <2>3, <3>1 DEF PauseKept
    <3>2. CASE ~answered BY <1>0, <1>1, <1>3, <2>2, <2>3, <3>2 DEF PauseKept
    <3>. QED BY <3>1, <3>2
  <2>. QED BY <1>0, <1>1, <1>2, <2>2, <2>3, <2>4, <2>5, <2>6, TickMoves DEF PaperShape
<1>. QED BY <1>4, <1>5, <1>6, <1>7

\* No event is later than u.
NoLaterThan(u) ==
    \A i \in DOMAIN trips : trips[i].opened <= u /\ (~Held(i) => trips[i].closed <= u)

\* Nothing that is stored is later than the newest event the tick knows.
LEMMA LatestIs ==
  ASSUME PaperShape, ClosedAfter
  PROVE  LatestEvent \in Nat /\ NoLaterThan(LatestEvent)
<1>1. PICK A, B : /\ A = {trips[i].opened : i \in HeldTrips}
                  /\ B = {trips[i].closed : i \in DOMAIN trips \ HeldTrips}
  OBVIOUS
<1>2. PICK known : known = A \cup B \cup {costs.at} OBVIOUS
<1>3. trips \in Seq(Trip) /\ costs.at \in Nat BY DEF PaperShape
<1>4. HeldTrips \in SUBSET (DOMAIN trips) /\ \A i \in DOMAIN trips : i \in HeldTrips <=> Held(i) BY DEF HeldTrips
<1>5. IsFiniteSet(HeldTrips) /\ IsFiniteSet(DOMAIN trips \ HeldTrips) BY <1>3, <1>4, TripsAre, FS_Subset
<1>6. IsFiniteSet(A)
  <2>1. PICK f : f = [i \in HeldTrips |-> trips[i].opened] OBVIOUS
  <2>2. f \in Surjection(HeldTrips, A) BY <1>1, <2>1 DEF Surjection
  <2>. QED BY <1>5, <2>2, FS_Surjection
<1>7. IsFiniteSet(B)
  <2>1. PICK J : J = DOMAIN trips \ HeldTrips OBVIOUS
  <2>2. PICK f : f = [i \in J |-> trips[i].closed] OBVIOUS
  <2>3. f \in Surjection(J, B) BY <1>1, <2>1, <2>2 DEF Surjection
  <2>. QED BY <1>5, <2>1, <2>3, FS_Surjection
<1>8. \A i \in DOMAIN trips : trips[i].opened \in Nat /\ trips[i].closed \in Nat BY <1>3, TripsAre
<1>9. known \in SUBSET Nat BY <1>1, <1>2, <1>3, <1>4, <1>8
<1>10. IsFiniteSet(known) BY <1>2, <1>6, <1>7, FS_Union, FS_AddElement
<1>11. \E t \in known : \A u \in known : u <= t BY <1>2, <1>9, <1>10, LargestOf
<1>12. PICK m : m = LatestEvent OBVIOUS
<1>13. m = CHOOSE t \in known : \A u \in known : u <= t BY <1>1, <1>2, <1>12 DEF LatestEvent
<1>14. m \in known /\ \A u \in known : u <= m BY <1>11, <1>13, Zenon
<1>15. m \in Nat BY <1>9, <1>14
<1>17. ASSUME NEW i \in DOMAIN trips PROVE trips[i].opened <= m /\ (~Held(i) => trips[i].closed <= m)
  <2>1. CASE Held(i)
    <3>1. trips[i].opened \in known BY <1>1, <1>2, <1>4, <2>1
    <3>. QED BY <1>14, <2>1, <3>1
  <2>2. CASE ~Held(i)
    <3>1. trips[i].closed \in known BY <1>1, <1>2, <1>4, <2>2
    <3>2. trips[i].closed <= m BY <1>14, <3>1
    <3>3. trips[i].opened < trips[i].closed BY <2>2 DEF ClosedAfter
    <3>. QED BY <1>8, <1>15, <3>2, <3>3
  <2>. QED BY <2>1, <2>2
<1>. QED BY <1>12, <1>15, <1>17 DEF NoLaterThan

\* The steps of a tick that write nothing but what it remembers.
LEMMA QuietSteps ==
  ASSUME PaperInv,
         \/ TickLoads \/ TickStops
         \/ \E readable, ok \in BOOLEAN : ReadsControl(readable, ok)
         \/ \E i \in tick.left : KeepsPosition(i) \/ CannotPrice(i)
         \/ \E due \in SUBSET Watchlist : BeginsEntries(due)
         \/ \E m \in tick.due : Accepts(m)
  PROVE  PaperInv'
<1>0. PaperShape /\ BookFits /\ TickFits /\ PauseKept /\ IsTick(tick) BY DEF PaperInv, PaperShape
<1>1. /\ RowsStand /\ clock' = clock /\ pauses' = pauses /\ control' = control /\ owner' = owner
      /\ slipped' = slipped /\ calling' = calling
  BY Zenon DEF TickLoads, ReadsControl, TickStops, KeepsPosition, CannotPrice, BeginsEntries, Accepts, RowsStand, rowVars
<1>2. HeldTrips' = HeldTrips /\ Coming' = Coming /\ Coming \in {0, 1} BY <1>1, RowsStay DEF Coming
<1>. SUFFICES /\ TickFits' /\ IsTick(tick') /\ PauseKept' /\ paused' \in BOOLEAN
              /\ tick'.at = "count" => tick' = tick \/ ~tick'.priced
  BY <1>0, <1>1, TickMoves DEF PaperShape
<1>3. tick.at # "buy" => Buying = 0 BY DEF Buying
<1>4. tick'.at # "buy" => Buying' = 0 BY DEF Buying
<1>5. CASE TickLoads
  <2>1. PICK t, M, L : /\ M = {trips[i].mint : i \in HeldTrips} /\ L = {i \in HeldTrips : trips[i].status = "open"}
                       /\ t = [Idle EXCEPT !.at = "control", !.held = HeldTrips, !.mints = M,
                                           !.last = LatestEvent, !.left = L]
                       /\ tick' = t /\ paused' = paused /\ profile # Unset /\ tick.at = "idle"
    BY <1>5 DEF TickLoads
  <2>2. LatestEvent \in Nat /\ NoLaterThan(LatestEvent) BY <1>0, LatestIs DEF BookFits, RowsFit
  <2>3. /\ t = [at |-> t.at, held |-> t.held, mints |-> t.mints, last |-> t.last, intact |-> t.intact,
                blind |-> t.blind, left |-> t.left, due |-> t.due, open |-> t.open,
                trip |-> t.trip, priced |-> t.priced, mint |-> t.mint]
        /\ t.at = "control" /\ t.held = HeldTrips /\ t.last = LatestEvent /\ t.left = L /\ t.due = {} /\ t.mints = M
    BY <2>1 DEF Idle
  <2>4. t.at \in TickPlaces /\ t.last \in Nat BY <2>2, <2>3 DEF TickPlaces
  <2>5. IsTick(t) BY <2>3, <2>4, Zenon DEF IsTick
  <2>6. TickKnows'
    <3>1. trips' = trips /\ profile' = profile /\ late' = late BY <1>1 DEF RowsStand
    <3>2. t.held \subseteq DOMAIN trips BY <2>3 DEF HeldTrips
    <3>3. \A i \in t.held : trips[i].opened <= t.last BY <2>2, <2>3, <3>2 DEF NoLaterThan
    <3>4. \A j \in DOMAIN trips : Held(j) \/ trips[j].closed <= t.last BY <2>2, <2>3 DEF NoLaterThan
    <3>5. Cardinality(HeldTrips) + Coming <= Cardinality(t.held) + 1
      <4>1. IsFiniteSet(HeldTrips) BY <1>0, TripsAre, FS_Subset DEF HeldTrips, PaperShape
      <4>2. Cardinality(HeldTrips) \in Nat BY <4>1, FS_CardinalityType
      <4>. QED BY <1>2, <2>3, <4>2
    <3>6. late.kind = "close" /\ Held(late.trip) => trips[late.trip].mint \in t.mints
      <4>1. late.kind = "close" => late.trip \in DOMAIN trips BY <1>0 DEF BookFits, SoundWrite
      <4>. QED BY <2>1, <2>3, <4>1 DEF HeldTrips
    <3>. QED BY <1>2, <2>1, <3>1, <3>2, <3>3, <3>4, <3>5, <3>6 DEF TickKnows, Held
  <2>7. L \in SUBSET HeldTrips BY <2>1
  <2>8. TickFits' BY <2>1, <2>3, <2>6, <2>7 DEF TickFits
  <2>9. PauseKept' BY <1>0, <1>1, <1>2, <1>3, <1>4, <2>1, <2>3 DEF PauseKept
  <2>. QED BY <1>0, <2>1, <2>3, <2>5, <2>8, <2>9 DEF PaperShape
<1>6. CASE \E readable, ok \in BOOLEAN : ReadsControl(readable, ok)
  <2>1. PICK readable, ok \in BOOLEAN : ReadsControl(readable, ok) BY <1>6
  <2>2. PICK t, r : /\ t = [tick EXCEPT !.at = "exits", !.blind = ~ok, !.intact = r]
                    /\ tick' = t /\ paused' = (paused \/ (ok /\ control # 0)) /\ tick.at = "control"
    BY <2>1 DEF ReadsControl
  <2>3. /\ t = [at |-> t.at, held |-> t.held, mints |-> t.mints, last |-> t.last, intact |-> t.intact,
                blind |-> t.blind, left |-> t.left, due |-> t.due, open |-> t.open,
                trip |-> t.trip, priced |-> t.priced, mint |-> t.mint]
        /\ t.at = "exits" /\ t.held = tick.held /\ t.last = tick.last /\ t.left = tick.left /\ t.due = tick.due
        /\ t.mints = tick.mints /\ t.blind = ~ok
    BY <1>0, <2>2 DEF IsTick
  <2>4. t.at \in TickPlaces /\ t.last \in Nat BY <1>0, <2>3 DEF IsTick, TickPlaces
  <2>5. IsTick(t) BY <2>3, <2>4, Zenon DEF IsTick
  <2>6. TickKnows' BY <1>0, <1>1, <2>2, <2>3, TickRemembers DEF TickFits
  <2>7. TickFits' BY <1>0, <2>2, <2>3, <2>6 DEF TickFits
  <2>8. PauseKept'
    <3>1. owner # 0 => paused' \/ t.blind BY <1>0, <2>2, <2>3 DEF PauseKept
    <3>2. calling' => paused' BY <1>0, <1>1, <2>2 DEF PauseKept
    <3>. QED BY <1>0, <1>1, <1>2, <1>3, <1>4, <2>2, <2>3, <3>1, <3>2 DEF PauseKept
  <2>9. paused' \in BOOLEAN BY <2>2, Zenon
  <2>. QED BY <2>2, <2>3, <2>5, <2>7, <2>8, <2>9
<1>7. CASE TickStops
  <2>1. tick' = Idle /\ paused' = paused BY <1>7 DEF TickStops
  <2>2. TickFits' /\ IsTick(tick') /\ tick'.at = "idle" BY <2>1, IdleFits
  <2>3. PauseKept'
    <3>1. Buying \in {0, 1} /\ Buying' = 0 BY <1>4, <2>2 DEF Buying
    <3>. QED BY <1>0, <1>1, <1>2, <2>1, <2>2, <3>1 DEF PauseKept, PaperShape
  <2>. QED BY <1>0, <2>1, <2>2, <2>3 DEF PaperShape
<1>8. CASE \E i \in tick.left : KeepsPosition(i)
  <2>1. PICK i \in tick.left : KeepsPosition(i) BY <1>8
  <2>2. PICK t : /\ t = [tick EXCEPT !.left = @ \ {i}]
                 /\ tick' = t /\ paused' = paused /\ tick.at = "exits"
    BY <2>1 DEF KeepsPosition
  <2>3. /\ t = [at |-> t.at, held |-> t.held, mints |-> t.mints, last |-> t.last, intact |-> t.intact,
                blind |-> t.blind, left |-> t.left, due |-> t.due, open |-> t.open,
                trip |-> t.trip, priced |-> t.priced, mint |-> t.mint]
        /\ t.held = tick.held /\ t.last = tick.last /\ t.mints = tick.mints /\ t.blind = tick.blind
        /\ t.at = "exits" /\ t.left = tick.left \ {i} /\ t.due = tick.due
    BY <1>0, <2>2 DEF IsTick
  <2>4. t.at \in TickPlaces /\ t.last \in Nat BY <1>0, <2>3 DEF IsTick, TickPlaces
  <2>5. IsTick(t) BY <2>3, <2>4, Zenon DEF IsTick
  <2>6. TickKnows' BY <1>0, <1>1, <2>2, <2>3, TickRemembers DEF TickFits
  <2>7. TickFits' BY <1>0, <2>1, <2>2, <2>3, <2>6 DEF TickFits
  <2>8. PauseKept' BY <1>0, <1>1, <1>2, <1>3, <1>4, <2>2, <2>3 DEF PauseKept
  <2>. QED BY <1>0, <2>2, <2>3, <2>5, <2>7, <2>8 DEF PaperShape
<1>9. CASE \E i \in tick.left : CannotPrice(i)
  <2>1. PICK i \in tick.left : CannotPrice(i) BY <1>9
  <2>2. PICK t : /\ t = [tick EXCEPT !.at = "count", !.trip = i, !.priced = FALSE]
                 /\ tick' = t /\ paused' = paused /\ tick.at = "exits"
    BY <2>1 DEF CannotPrice
  <2>3. /\ t = [at |-> t.at, held |-> t.held, mints |-> t.mints, last |-> t.last, intact |-> t.intact,
                blind |-> t.blind, left |-> t.left, due |-> t.due, open |-> t.open,
                trip |-> t.trip, priced |-> t.priced, mint |-> t.mint]
        /\ t.held = tick.held /\ t.last = tick.last /\ t.mints = tick.mints /\ t.blind = tick.blind
        /\ t.at = "count" /\ t.left = tick.left /\ t.due = tick.due /\ t.trip = i /\ t.priced = FALSE
    BY <1>0, <2>2 DEF IsTick
  <2>4. t.at \in TickPlaces /\ t.last \in Nat BY <1>0, <2>3 DEF IsTick, TickPlaces
  <2>5. IsTick(t) BY <2>3, <2>4, Zenon DEF IsTick
  <2>6. TickKnows' BY <1>0, <1>1, <2>2, <2>3, TickRemembers DEF TickFits
  <2>7. TickFits' BY <1>0, <2>1, <2>2, <2>3, <2>6 DEF TickFits
  <2>8. PauseKept' BY <1>0, <1>1, <1>2, <1>3, <1>4, <2>2, <2>3 DEF PauseKept
  <2>. QED BY <1>0, <2>2, <2>3, <2>5, <2>7, <2>8 DEF PaperShape
<1>10. CASE \E due \in SUBSET Watchlist : BeginsEntries(due)
  <2>1. PICK due \in SUBSET Watchlist : BeginsEntries(due) BY <1>10
  <2>2. PICK t : /\ t = [tick EXCEPT !.at = "entries", !.due = due, !.open = Cardinality(tick.held)]
                 /\ tick' = t /\ paused' = paused /\ tick.at = "exits" /\ due \subseteq Watchlist \ tick.mints
    BY <2>1 DEF BeginsEntries
  <2>3. /\ t = [at |-> t.at, held |-> t.held, mints |-> t.mints, last |-> t.last, intact |-> t.intact,
                blind |-> t.blind, left |-> t.left, due |-> t.due, open |-> t.open,
                trip |-> t.trip, priced |-> t.priced, mint |-> t.mint]
        /\ t.held = tick.held /\ t.last = tick.last /\ t.mints = tick.mints /\ t.blind = tick.blind
        /\ t.at = "entries" /\ t.left = tick.left /\ t.due = due /\ t.open = Cardinality(tick.held)
    BY <1>0, <2>2 DEF IsTick
  <2>4. t.at \in TickPlaces /\ t.last \in Nat BY <1>0, <2>3 DEF IsTick, TickPlaces
  <2>5. IsTick(t) BY <2>3, <2>4, Zenon DEF IsTick
  <2>6. TickKnows' BY <1>0, <1>1, <2>2, <2>3, TickRemembers DEF TickFits
  <2>7. TickFits' BY <1>0, <2>1, <2>2, <2>3, <2>6 DEF TickFits
  <2>8. PauseKept' BY <1>0, <1>1, <1>2, <1>3, <1>4, <2>2, <2>3 DEF PauseKept
  <2>. QED BY <1>0, <2>2, <2>3, <2>5, <2>7, <2>8 DEF PaperShape
<1>11. CASE \E m \in tick.due : Accepts(m)
  <2>1. PICK m \in tick.due : Accepts(m) BY <1>11
  <2>2. PICK t : /\ t = [tick EXCEPT !.at = "buy", !.mint = m, !.due = @ \ {m}]
                 /\ tick' = t /\ paused' = paused /\ tick.at = "entries" /\ tick.open < MaxOpen
                 /\ ~tick.blind /\ ~paused
    BY <2>1 DEF Accepts, Paused
  <2>3. /\ t = [at |-> t.at, held |-> t.held, mints |-> t.mints, last |-> t.last, intact |-> t.intact,
                blind |-> t.blind, left |-> t.left, due |-> t.due, open |-> t.open,
                trip |-> t.trip, priced |-> t.priced, mint |-> t.mint]
        /\ t.held = tick.held /\ t.last = tick.last /\ t.mints = tick.mints /\ t.blind = tick.blind
        /\ t.at = "buy" /\ t.left = tick.left /\ t.due = tick.due \ {m} /\ t.mint = m /\ t.open = tick.open
    BY <1>0, <2>2 DEF IsTick
  <2>4. t.at \in TickPlaces /\ t.last \in Nat BY <1>0, <2>3 DEF IsTick, TickPlaces
  <2>5. IsTick(t) BY <2>3, <2>4, Zenon DEF IsTick
  <2>6. TickKnows' BY <1>0, <1>1, <2>2, <2>3, TickRemembers DEF TickFits
  <2>7. TickFits' BY <1>0, <2>1, <2>2, <2>3, <2>6 DEF TickFits
  <2>8. PauseKept'
    <3>1. owner = 0 BY <1>0, <2>2 DEF PauseKept
    <3>. QED BY <1>0, <1>1, <2>2, <2>3, <3>1 DEF PauseKept
  <2>. QED BY <1>0, <2>2, <2>3, <2>5, <2>7, <2>8 DEF PaperShape
<1>. QED BY <1>5, <1>6, <1>7, <1>8, <1>9, <1>10, <1>11

-----------------------------------------------------------------------------
(* The steps that write.                                                    *)

LEMMA StampIs ==
  ASSUME clock \in Nat, tick.last \in Nat
  PROVE  Stamp \in Nat /\ tick.last < Stamp
BY DEF Stamp

\* A row changed at one place.
LEMMA RowChanges ==
  ASSUME trips \in Seq(Trip), NEW i \in DOMAIN trips, NEW r \in Trip, trips' = [trips EXCEPT ![i] = r]
  PROVE  /\ trips' \in Seq(Trip) /\ DOMAIN trips' = DOMAIN trips /\ trips'[i] = r
         /\ \A j \in DOMAIN trips : j # i => trips'[j] = trips[j]
OBVIOUS

\* What a stored write does to one row: it keeps what the trip was opened with.
SameTrip(r, q) == r.mint = q.mint /\ r.opened = q.opened /\ r.with = q.with
RowAfter(w, i, r, q) ==
    /\ SameTrip(r, q)
    /\ (r.status # "closed") <=> (q.status # "closed" /\ ~(w.kind = "close" /\ w.trip = i))
    /\ r.closed = (IF w.kind = "close" /\ w.trip = i THEN w.at ELSE q.closed)
    /\ r.failures = q.failures + (IF w.kind = "count" /\ w.trip = i THEN 1 ELSE 0)
    /\ r.fees + r.unpriced >= q.fees + q.unpriced
    /\ w.kind = "count" /\ w.trip = i /\ ~w.priced => r.fees + r.unpriced = q.fees + q.unpriced + 1
    /\ w.kind = "cost" /\ w.trip = i => r.fees + r.unpriced = q.fees + q.unpriced + 1

RowsAfter(w) ==
    /\ trips' \in Seq(Trip)
    /\ \A i \in DOMAIN trips : i \in DOMAIN trips' /\ RowAfter(w, i, trips'[i], trips[i])
    /\ \A j \in DOMAIN trips' \ DOMAIN trips : w.kind = "open" /\ j = Len(trips) + 1
    /\ w.kind = "open" => /\ Len(trips) + 1 \in DOMAIN trips' \ DOMAIN trips
                          /\ trips'[Len(trips) + 1] = NewTrip(w)

LEMMA RowKept ==
  ASSUME NEW w, NEW i, NEW q \in Trip, w.kind = "open" \/ w.kind = "none" \/ w.trip # i
  PROVE  RowAfter(w, i, q, q)
BY DEF RowAfter, SameTrip, Trip

LEMMA StoredIs ==
  ASSUME PaperShape, NEW w, IsWrite(w), SoundWrite(w), Applies(w), trips' = TripsAfter(w)
  PROVE  RowsAfter(w)
<1>0. trips \in Seq(Trip) /\ \A i \in DOMAIN trips : trips[i] \in Trip BY TripsAre DEF PaperShape
<1>1. CASE w.kind = "open"
  <2>1. PICK r : r = NewTrip(w) OBVIOUS
  <2>2. w.with \in Profiles \cup {Unset} /\ w.mint \in Coins /\ w.at \in Nat
    BY <1>1 DEF SoundWrite, PaperShape, IsWrite
  <2>3. r \in Trip BY <2>1, <2>2 DEF NewTrip, Trip
  <2>4. trips' = Append(trips, r) BY <1>1, <2>1 DEF TripsAfter
  <2>5. PICK k \in Nat : k = Len(trips) /\ DOMAIN trips = 1 .. k BY <1>0
  <2>6. /\ trips' \in Seq(Trip) /\ DOMAIN trips' = 1 .. k + 1 /\ trips'[k + 1] = r
        /\ \A j \in 1 .. k : trips'[j] = trips[j]
    BY <1>0, <2>3, <2>4, <2>5
  <2>7. \A i \in DOMAIN trips : i \in DOMAIN trips' /\ trips'[i] = trips[i] BY <2>5, <2>6
  <2>8. \A i \in DOMAIN trips : RowAfter(w, i, trips'[i], trips[i]) BY <1>0, <1>1, <2>7, RowKept
  <2>9. k + 1 \in DOMAIN trips' \ DOMAIN trips /\ \A j \in DOMAIN trips' \ DOMAIN trips : j = k + 1 BY <2>5, <2>6
  <2>. QED BY <1>1, <2>1, <2>5, <2>6, <2>7, <2>8, <2>9 DEF RowsAfter
<1>2. CASE w.kind # "open" /\ \E i, r : i \in DOMAIN trips /\ i = w.trip /\ r \in Trip /\ RowAfter(w, i, r, trips[i])
                                       /\ trips' = [trips EXCEPT ![i] = r]
  <2>1. PICK i \in DOMAIN trips, r \in Trip : i = w.trip /\ RowAfter(w, i, r, trips[i]) /\ trips' = [trips EXCEPT ![i] = r]
    BY <1>2
  <2>2. /\ trips' \in Seq(Trip) /\ DOMAIN trips' = DOMAIN trips /\ trips'[i] = r
        /\ \A j \in DOMAIN trips : j # i => trips'[j] = trips[j]
    BY <1>0, <2>1, RowChanges
  <2>3. ASSUME NEW j \in DOMAIN trips PROVE RowAfter(w, j, trips'[j], trips[j])
    <3>1. CASE j = i BY <2>1, <2>2, <3>1
    <3>2. CASE j # i BY <1>0, <2>1, <2>2, <3>2, RowKept
    <3>. QED BY <3>1, <3>2
  <2>. QED BY <1>2, <2>2, <2>3 DEF RowsAfter
<1>3. CASE w.kind = "close"
  <2>1. PICK i \in DOMAIN trips : i = w.trip BY <1>3 DEF SoundWrite
  <2>2. PICK q \in Trip : q = trips[i] BY <1>0
  <2>3. PICK r : r = [q EXCEPT !.status = "closed", !.closed = w.at] OBVIOUS
  <2>4. w.at \in Nat BY DEF IsWrite
  <2>5. r \in Trip BY <2>3, <2>4 DEF Trip
  <2>6. q.status = "open" BY <1>3, <2>1, <2>2 DEF Applies
  <2>7. RowAfter(w, i, r, q) BY <1>3, <2>1, <2>3, <2>4, <2>6 DEF RowAfter, SameTrip, Trip
  <2>8. trips' = [trips EXCEPT ![i] = r] BY <1>3, <2>1, <2>2, <2>3 DEF TripsAfter
  <2>. QED BY <1>2, <1>3, <2>1, <2>2, <2>5, <2>7, <2>8
<1>4. CASE w.kind = "count"
  <2>1. PICK i \in DOMAIN trips : i = w.trip BY <1>4 DEF SoundWrite
  <2>2. PICK q \in Trip : q = trips[i] BY <1>0
  <2>3. PICK r : r = OneFailureMore(q, w.priced) OBVIOUS
  <2>4. q.status = "open" BY <1>4, <2>1, <2>2 DEF Applies
  <2>5. r \in Trip
    <3>1. PICK f, u, st : /\ f = q.failures + 1 /\ u = q.unpriced + (IF w.priced THEN 0 ELSE 1)
                          /\ st = (IF q.failures + 1 >= FailureCap THEN "stuck" ELSE "open")
      OBVIOUS
    <3>2. f \in Nat /\ u \in Nat /\ st \in {"open", "stuck", "closed"} BY <3>1 DEF Trip
    <3>3. r = [q EXCEPT !.failures = f, !.unpriced = u, !.status = st] BY <2>3, <3>1 DEF OneFailureMore
    <3>. QED BY <3>2, <3>3 DEF Trip
  <2>6. RowAfter(w, i, r, q) BY <1>4, <2>1, <2>3, <2>4 DEF RowAfter, SameTrip, Trip, OneFailureMore
  <2>7. trips' = [trips EXCEPT ![i] = r] BY <1>4, <2>1, <2>2, <2>3 DEF TripsAfter
  <2>. QED BY <1>2, <1>4, <2>1, <2>2, <2>5, <2>6, <2>7
<1>5. CASE w.kind = "cost" /\ w.trip # 0
  <2>1. PICK i \in DOMAIN trips : i = w.trip BY <1>5 DEF SoundWrite
  <2>2. PICK q \in Trip : q = trips[i] BY <1>0
  <2>3. PICK r : r = OneFeeMore(q) OBVIOUS
  <2>4. r \in Trip BY <2>3 DEF Trip, OneFeeMore
  <2>5. RowAfter(w, i, r, q) BY <1>5, <2>1, <2>3 DEF RowAfter, SameTrip, Trip, OneFeeMore
  <2>6. trips' = [trips EXCEPT ![i] = r]
    <3>1. w.kind # "open" /\ w.kind # "close" /\ w.kind # "count" BY <1>5
    <3>2. trips' = [trips EXCEPT ![w.trip] = OneFeeMore(@)] BY <1>5, <3>1, Zenon DEF TripsAfter
    <3>. QED BY <2>1, <2>2, <2>3, <3>2
  <2>. QED BY <1>2, <1>5, <2>1, <2>2, <2>4, <2>5, <2>6
<1>6. CASE w.kind = "none" \/ (w.kind = "cost" /\ w.trip = 0)
  <2>1. trips' = trips BY <1>6 DEF TripsAfter
  <2>2. \A i \in DOMAIN trips : w.kind = "none" \/ w.trip # i BY <1>0, <1>6, TripsAre
  <2>3. \A i \in DOMAIN trips : RowAfter(w, i, trips'[i], trips[i]) BY <1>0, <2>1, <2>2, RowKept
  <2>. QED BY <1>0, <1>6, <2>1, <2>3 DEF RowsAfter
<1>. QED BY <1>1, <1>3, <1>4, <1>5, <1>6 DEF IsWrite, WriteKinds

\* How the positions held change.
HeldAfter(w) ==
    /\ w.kind = "open" => HeldTrips' = HeldTrips \cup {Len(trips) + 1} /\ Len(trips) + 1 \notin DOMAIN trips
    /\ w.kind = "close" => HeldTrips' = HeldTrips \ {w.trip}
    /\ w.kind \notin {"open", "close"} => HeldTrips' = HeldTrips
    /\ Cardinality(HeldTrips) \in Nat /\ Cardinality(HeldTrips') \in Nat
    /\ w.kind = "open" => Cardinality(HeldTrips') = Cardinality(HeldTrips) + 1
    /\ w.kind # "open" => Cardinality(HeldTrips') <= Cardinality(HeldTrips)
    /\ w.kind = "close" => w.trip \in HeldTrips /\ Cardinality(HeldTrips') = Cardinality(HeldTrips) - 1

LEMMA HeldThen ==
  ASSUME PaperShape, NEW w, SoundWrite(w), Applies(w), RowsAfter(w)
  PROVE  HeldAfter(w)
<1>1. HeldTrips \in SUBSET (DOMAIN trips) /\ \A i \in DOMAIN trips : i \in HeldTrips <=> Held(i) BY DEF HeldTrips
<1>2. HeldTrips' \in SUBSET (DOMAIN trips') /\ \A i \in DOMAIN trips' : i \in HeldTrips' <=> Held(i)' BY DEF HeldTrips
<1>3. ASSUME NEW i \in DOMAIN trips PROVE i \in DOMAIN trips' /\ (Held(i)' <=> Held(i) /\ ~(w.kind = "close" /\ w.trip = i))
  BY DEF RowsAfter, RowAfter, Held
<1>4. IsFiniteSet(HeldTrips) /\ Cardinality(HeldTrips) \in Nat
  BY <1>1, TripsAre, FS_Subset, FS_CardinalityType DEF PaperShape
<1>5. CASE w.kind = "open"
  <2>1. PICK n : n = Len(trips) + 1 OBVIOUS
  <2>2. n \in DOMAIN trips' /\ n \notin DOMAIN trips /\ trips'[n] = NewTrip(w)
        /\ \A j \in DOMAIN trips' : j \in DOMAIN trips \/ j = n
    BY <1>5, <2>1 DEF RowsAfter
  <2>3. Held(n)' BY <2>2 DEF Held, NewTrip
  <2>4. HeldTrips' = HeldTrips \cup {n} BY <1>1, <1>2, <1>3, <1>5, <2>2, <2>3
  <2>5. Cardinality(HeldTrips') = Cardinality(HeldTrips) + 1 BY <1>1, <1>4, <2>2, <2>4, FS_AddElement
  <2>. QED BY <1>4, <1>5, <2>1, <2>2, <2>4, <2>5 DEF HeldAfter
<1>6. CASE w.kind = "close"
  <2>1. w.trip \in HeldTrips BY <1>6 DEF SoundWrite, Applies, HeldTrips, Held
  <2>2. DOMAIN trips' \in SUBSET (DOMAIN trips) BY <1>6 DEF RowsAfter
  <2>3. HeldTrips' = HeldTrips \ {w.trip} BY <1>1, <1>2, <1>3, <1>6, <2>2
  <2>4. Cardinality(HeldTrips') = Cardinality(HeldTrips) - 1 BY <1>4, <2>1, <2>3, FS_RemoveElement
  <2>5. IsFiniteSet(HeldTrips') BY <1>4, <2>3, FS_Subset
  <2>6. Cardinality(HeldTrips') \in Nat BY <2>5, FS_CardinalityType
  <2>. QED BY <1>4, <1>6, <2>1, <2>3, <2>4, <2>6 DEF HeldAfter
<1>7. CASE w.kind \notin {"open", "close"}
  <2>1. DOMAIN trips' \in SUBSET (DOMAIN trips) BY <1>7 DEF RowsAfter
  <2>2. HeldTrips' = HeldTrips BY <1>1, <1>2, <1>3, <1>7, <2>1
  <2>. QED BY <1>4, <1>7, <2>2 DEF HeldAfter
<1>. QED BY <1>5, <1>6, <1>7

\* A trip opened now is later than every close of its mint.
OpensAfter(w) ==
    w.kind = "open" => \A j \in DOMAIN trips : trips[j].mint = w.mint /\ ~Held(j) => trips[j].closed < w.at

LEMMA RowsThen ==
  ASSUME PaperShape, RowsFit, NEW w, SoundWrite(w), Applies(w), RowsAfter(w), HeldAfter(w), version' = version,
         profile' = profile, "open" \notin overtaken' => "open" \notin overtaken /\ OpensAfter(w)
  PROVE  RowsFit'
<1>0. \A i \in DOMAIN trips : trips[i].opened \in Nat /\ trips[i].closed \in Nat /\ i \in Nat BY TripsAre DEF PaperShape
<1>1. \A i \in DOMAIN trips :
         /\ i \in DOMAIN trips' /\ trips'[i].mint = trips[i].mint /\ trips'[i].opened = trips[i].opened
         /\ trips'[i].with = trips[i].with /\ (Held(i)' <=> Held(i) /\ ~(w.kind = "close" /\ w.trip = i))
         /\ trips'[i].closed = (IF w.kind = "close" /\ w.trip = i THEN w.at ELSE trips[i].closed)
  BY DEF RowsAfter, RowAfter, SameTrip, Held
<1>2. PICK n : n = Len(trips) + 1 OBVIOUS
<1>3. \A j \in DOMAIN trips' : j \in DOMAIN trips \/ (w.kind = "open" /\ j = n /\ j \notin DOMAIN trips)
  BY <1>2 DEF RowsAfter
<1>4. w.kind = "open" => /\ trips'[n].mint = w.mint /\ trips'[n].opened = w.at /\ trips'[n].with = w.with /\ Held(n)'
  BY <1>2 DEF RowsAfter, NewTrip, Held
<1>5. ClosedAfter'
  <2>1. ASSUME NEW i \in DOMAIN trips', ~Held(i)' PROVE trips'[i].opened < trips'[i].closed
    <3>1. i \in DOMAIN trips BY <1>3, <1>4, <2>1
    <3>2. CASE w.kind = "close" /\ w.trip = i BY <1>1, <3>1, <3>2 DEF SoundWrite
    <3>3. CASE ~(w.kind = "close" /\ w.trip = i) BY <1>1, <2>1, <3>1, <3>3 DEF RowsFit, ClosedAfter
    <3>. QED BY <3>2, <3>3
  <2>. QED BY <2>1 DEF ClosedAfter
<1>6. ASSUME "open" \notin overtaken' PROVE TripsApart'
  <2>0. TripsApart /\ OpensAfter(w) BY <1>6 DEF RowsFit
  <2>1. ASSUME NEW i \in DOMAIN trips, NEW j \in DOMAIN trips, Apart(i, j) PROVE Apart(i, j)'
    <3>1. ~Held(i) /\ trips[i].closed < trips[j].opened BY <2>1 DEF Apart
    <3>2. ~(w.kind = "close" /\ w.trip = i) BY <3>1 DEF Applies, Held
    <3>. QED BY <1>1, <3>1, <3>2 DEF Apart
  <2>2. ASSUME NEW j \in DOMAIN trips, w.kind = "open", trips[j].mint = w.mint PROVE Apart(j, n)'
    <3>1. ~Held(j) BY <2>2 DEF Applies, HeldTrips
    <3>2. trips[j].closed < w.at BY <2>0, <2>2, <3>1 DEF OpensAfter
    <3>. QED BY <1>1, <1>4, <2>2, <3>1, <3>2 DEF Apart
  <2>3. ASSUME NEW i \in DOMAIN trips', NEW j \in DOMAIN trips', i # j, trips'[i].mint = trips'[j].mint
        PROVE  Apart(i, j)' \/ Apart(j, i)'
    <3>1. CASE i \in DOMAIN trips /\ j \in DOMAIN trips
      <4>1. Apart(i, j) \/ Apart(j, i) BY <1>1, <2>0, <2>3, <3>1 DEF TripsApart
      <4>. QED BY <2>1, <3>1, <4>1
    <3>2. CASE i \in DOMAIN trips /\ j \notin DOMAIN trips
      <4>1. j = n /\ w.kind = "open" BY <1>3, <3>2
      <4>2. trips[i].mint = w.mint BY <1>1, <1>4, <2>3, <3>2, <4>1
      <4>. QED BY <2>2, <3>2, <4>1, <4>2
    <3>3. CASE i \notin DOMAIN trips /\ j \in DOMAIN trips
      <4>1. i = n /\ w.kind = "open" BY <1>3, <3>3
      <4>2. trips[j].mint = w.mint BY <1>1, <1>4, <2>3, <3>3, <4>1
      <4>. QED BY <2>2, <3>3, <4>1, <4>2
    <3>. QED BY <1>3, <2>3, <3>1, <3>2, <3>3
  <2>. QED BY <2>3 DEF TripsApart
<1>7. ASSUME NEW i \in HeldTrips', NEW j \in HeldTrips', trips'[i].mint = trips'[j].mint PROVE i = j
  <2>1. ASSUME NEW k \in HeldTrips' PROVE (k \in HeldTrips /\ trips'[k].mint = trips[k].mint) \/ (w.kind = "open" /\ k = n)
    BY <1>1, <1>2, <2>1 DEF HeldAfter, HeldTrips
  <2>2. w.kind = "open" => \A k \in HeldTrips : trips[k].mint # w.mint BY DEF Applies
  <2>. QED BY <1>4, <1>7, <2>1, <2>2 DEF RowsFit
<1>8. \A i \in DOMAIN trips' : trips'[i].with = version' /\ version' # Unset
  BY <1>1, <1>3, <1>4 DEF RowsFit, SoundWrite
<1>9. profile' \in {Unset, version'} BY DEF RowsFit
<1>. QED BY <1>5, <1>6, <1>7, <1>8, <1>9 DEF RowsFit

\* A sound write stays sound.
LEMMA SoundStays ==
  ASSUME NEW w, RowsAfter(w), SoundWrite(late), late' = late, version' = version
  PROVE  SoundWrite(late)'
<1>1. \A i \in DOMAIN trips : i \in DOMAIN trips' /\ trips'[i].opened = trips[i].opened
  BY DEF RowsAfter, RowAfter, SameTrip
<1>. QED BY <1>1 DEF SoundWrite

\* What is common to the steps that write.
WriteKeeps ==
    /\ version' = version /\ profile' = profile /\ clock' = clock /\ pauses' = pauses /\ control' = control
    /\ owner' = owner /\ calling' = calling /\ paused' = paused

LEMMA StoredShape ==
  ASSUME PaperShape, WriteKeeps, NEW w, IsWrite(w), RowsAfter(w), Stored(w), IsTick(tick'), IsWrite(late')
  PROVE  PaperShape'
<1>1. w.base \in Nat /\ w.at \in Nat BY DEF IsWrite
<1>2. costs' \in [count : Nat, at : Nat] BY <1>1 DEF Stored, PaperShape
<1>3. slipped' \in Nat BY DEF Stored, PaperShape
<1>4. trips' \in Seq(Trip) BY DEF RowsAfter
<1>5. IsTick(tick)' /\ IsWrite(late)' BY DEF IsTick, IsWrite
<1>. QED BY <1>2, <1>3, <1>4, <1>5 DEF PaperShape, WriteKeeps

\* Failures stay paid if what is owed falls by what is counted, and rises by no more than is paid.
CountedNow(w, i) == IF w.kind = "count" /\ w.trip = i /\ w.priced THEN 1 ELSE 0
PaidNow(w, i) == IF w.kind = "cost" /\ w.trip = i THEN 1 ELSE 0
OwedIs(w) ==
    /\ \A i \in DOMAIN trips :
          OwedLate(i)' + OwedTick(i)' + CountedNow(w, i) <= OwedLate(i) + OwedTick(i) + PaidNow(w, i)
    /\ \A j \in DOMAIN trips' \ DOMAIN trips : OwedLate(j)' = 0 /\ OwedTick(j)' = 0

LEMMA PaidThen ==
  ASSUME PaperShape, FailuresPaid, NEW w, RowsAfter(w), OwedIs(w)
  PROVE  FailuresPaid'
<1>1. ASSUME NEW i \in DOMAIN trips
      PROVE  trips'[i].failures + OwedLate(i)' + OwedTick(i)' <= trips'[i].fees + trips'[i].unpriced
  <2>1. trips[i] \in Trip /\ trips'[i] \in Trip
    <3>1. i \in DOMAIN trips' /\ trips' \in Seq(Trip) /\ trips \in Seq(Trip) BY DEF RowsAfter, PaperShape
    <3>. QED BY <3>1
  <2>2. PICK q \in Trip, r \in Trip : q = trips[i] /\ r = trips'[i] BY <2>1
  <2>3. RowAfter(w, i, r, q) BY <2>2 DEF RowsAfter
  <2>4. /\ OwedLate(i) \in Nat /\ OwedTick(i) \in Nat /\ OwedLate(i)' \in Nat /\ OwedTick(i)' \in Nat
        /\ CountedNow(w, i) \in Nat /\ PaidNow(w, i) \in Nat
    BY DEF OwedLate, OwedTick, CountedNow, PaidNow
  <2>5. OwedLate(i)' + OwedTick(i)' + CountedNow(w, i) <= OwedLate(i) + OwedTick(i) + PaidNow(w, i) BY DEF OwedIs
  <2>6. q.failures + OwedLate(i) + OwedTick(i) <= q.fees + q.unpriced BY <2>2 DEF FailuresPaid
  <2>7. /\ q.failures \in Nat /\ q.fees \in Nat /\ q.unpriced \in Nat
        /\ r.failures \in Nat /\ r.fees \in Nat /\ r.unpriced \in Nat
    BY DEF Trip
  <2>8. r.failures - CountedNow(w, i) + PaidNow(w, i) <= q.failures + (r.fees + r.unpriced) - (q.fees + q.unpriced)
    <3>1. /\ r.failures = q.failures + (IF w.kind = "count" /\ w.trip = i THEN 1 ELSE 0)
          /\ r.fees + r.unpriced >= q.fees + q.unpriced
          /\ w.kind = "count" /\ w.trip = i /\ ~w.priced => r.fees + r.unpriced = q.fees + q.unpriced + 1
          /\ w.kind = "cost" /\ w.trip = i => r.fees + r.unpriced = q.fees + q.unpriced + 1
      BY <2>3 DEF RowAfter
    <3>. QED BY <2>7, <3>1 DEF CountedNow, PaidNow
  <2>9. r.failures + OwedLate(i)' + OwedTick(i)' <= r.fees + r.unpriced BY <2>4, <2>5, <2>6, <2>7, <2>8
  <2>. QED BY <2>2, <2>9
<1>2. ASSUME NEW j \in DOMAIN trips' \ DOMAIN trips
      PROVE  trips'[j].failures + OwedLate(j)' + OwedTick(j)' <= trips'[j].fees + trips'[j].unpriced
  <2>1. trips'[j] = NewTrip(w) BY DEF RowsAfter
  <2>2. trips'[j].failures = 0 /\ trips'[j].fees = 0 /\ trips'[j].unpriced = 0 BY <2>1 DEF NewTrip
  <2>. QED BY <2>2 DEF OwedIs
<1>. QED BY <1>1, <1>2 DEF FailuresPaid

\* What the tick knows of a write it makes.
FromTick(w) ==
    /\ OpensAfter(w)
    /\ w.kind = "open" => tick.at = "buy" /\ Cardinality(HeldTrips) + Coming <= MaxOpen
    /\ w.kind = "count" /\ w.priced => tick.at = "count" /\ tick.trip = w.trip /\ tick.priced

\* A stored write the tick knows of.
LEMMA TickStored ==
  ASSUME PaperInv, WriteKeeps, overtaken' = overtaken, late' = late, NEW w, IsWrite(w), SoundWrite(w), FromTick(w),
         Applies(w), Stored(w)
  PROVE  RowsAfter(w) /\ HeldAfter(w) /\ RowsFit' /\ SoundWrite(late)' /\ WithinLimit' /\ Coming' = Coming
<1>0. PaperShape /\ BookFits BY DEF PaperInv
<1>1. RowsAfter(w) BY <1>0, StoredIs DEF Stored
<1>2. HeldAfter(w) BY <1>0, <1>1, HeldThen
<1>3. RowsFit' BY <1>0, <1>1, <1>2, RowsThen DEF BookFits, WriteKeeps, FromTick
<1>4. SoundWrite(late)' BY <1>0, <1>1, SoundStays DEF BookFits, WriteKeeps
<1>5. Coming' = Coming /\ Coming \in Nat BY DEF Coming
<1>6. WithinLimit' BY <1>0, <1>2, <1>5, PaperAssumption DEF BookFits, WithinLimit, HeldAfter, FromTick
<1>. QED BY <1>1, <1>2, <1>3, <1>4, <1>5, <1>6

\* A write with which the tick ends: stored without its knowing, or left on its way.
LEMMA WriteEnds ==
  ASSUME PaperInv, WriteKeeps, overtaken' = overtaken, NEW w, IsWrite(w), SoundWrite(w), FromTick(w), tick' = Idle,
         \/ Applies(w) /\ Stored(w) /\ late' = late
         \/ late = NoWrite /\ late' = w /\ trips' = trips /\ costs' = costs /\ slipped' = slipped
  PROVE  PaperInv'
<1>0. PaperShape /\ BookFits /\ TickFits /\ PauseKept BY DEF PaperInv
<1>1. TickFits' /\ IsTick(tick') /\ tick'.at = "idle" BY IdleFits
<1>2. Buying' = 0 /\ Buying \in {0, 1} /\ (tick.at = "buy" => Buying = 1) BY <1>1 DEF Buying
<1>3. \A i : OwedTick(i)' = 0 /\ OwedTick(i) \in {0, 1} /\ OwedLate(i) \in {0, 1} BY <1>1 DEF OwedTick, OwedLate
<1>4. Coming \in {0, 1} BY DEF Coming
<1>5. CASE Applies(w) /\ Stored(w) /\ late' = late
  <2>1. RowsAfter(w) /\ HeldAfter(w) /\ RowsFit' /\ SoundWrite(late)' /\ WithinLimit' /\ Coming' = Coming
    BY <1>5, TickStored
  <2>2. PaperShape' BY <1>0, <1>1, <1>5, <2>1, StoredShape DEF PaperShape
  <2>3. FailuresPaid'
    <3>1. \A i : OwedLate(i)' = OwedLate(i) BY <1>5 DEF OwedLate
    <3>2. \A i : CountedNow(w, i) <= OwedTick(i) /\ CountedNow(w, i) \in {0, 1} /\ PaidNow(w, i) \in {0, 1}
      BY DEF CountedNow, OwedTick, FromTick, PaidNow
    <3>3. \A j : OwedLate(j) # 0 => j \in DOMAIN trips BY <1>0 DEF OwedLate, BookFits, SoundWrite
    <3>4. OwedIs(w) BY <1>3, <3>1, <3>2, <3>3 DEF OwedIs
    <3>. QED BY <1>0, <2>1, <3>4, PaidThen DEF BookFits
  <2>4. slipped' = (IF w.kind = "open" /\ owner # 0 THEN slipped + 1 ELSE slipped) /\ slipped \in Nat
    BY <1>0, <1>5 DEF Stored, PaperShape
  <2>5. PauseKept' BY <1>0, <1>1, <1>2, <1>4, <2>1, <2>4 DEF PauseKept, WriteKeeps, FromTick
  <2>. QED BY <1>1, <2>1, <2>2, <2>3, <2>5 DEF PaperInv, BookFits
<1>6. CASE late = NoWrite /\ late' = w /\ trips' = trips /\ costs' = costs /\ slipped' = slipped
  <2>1. late.kind = "none" /\ Coming = 0 /\ \A i : OwedLate(i) = 0 BY <1>6, IdleIs DEF Coming, OwedLate
  <2>2. Coming' = (IF w.kind = "open" THEN 1 ELSE 0) /\ Coming' \in {0, 1} BY <1>6 DEF Coming
  <2>3. HeldTrips' = HeldTrips BY <1>6 DEF HeldTrips, Held
  <2>4. RowsFit' BY <1>0, <1>6, <2>3 DEF BookFits, RowsFit, ClosedAfter, TripsApart, Apart, Held, WriteKeeps
  <2>5. SoundWrite(late)' BY <1>6 DEF SoundWrite, WriteKeeps
  <2>6. IsFiniteSet(HeldTrips) /\ Cardinality(HeldTrips) \in Nat
    BY <1>0, TripsAre, FS_Subset, FS_CardinalityType DEF PaperShape, HeldTrips
  <2>7. WithinLimit' BY <1>0, <2>1, <2>2, <2>3, <2>6, PaperAssumption DEF BookFits, WithinLimit, FromTick
  <2>8. FailuresPaid'
    <3>1. ASSUME NEW i \in DOMAIN trips
          PROVE  trips[i].failures + OwedLate(i)' + OwedTick(i)' <= trips[i].fees + trips[i].unpriced
      <4>1. trips[i].failures \in Nat /\ trips[i].fees \in Nat /\ trips[i].unpriced \in Nat
        <5>1. trips[i] \in Trip BY <1>0, TripsAre DEF PaperShape
        <5>. QED BY <5>1 DEF Trip
      <4>2. OwedLate(i)' <= OwedTick(i) /\ OwedLate(i)' \in {0, 1} BY <1>6 DEF OwedLate, OwedTick, FromTick
      <4>3. trips[i].failures + OwedLate(i) + OwedTick(i) <= trips[i].fees + trips[i].unpriced
        BY <1>0 DEF BookFits, FailuresPaid
      <4>. QED BY <1>3, <2>1, <4>1, <4>2, <4>3
    <3>. QED BY <1>6, <3>1 DEF FailuresPaid
  <2>9. PauseKept' BY <1>0, <1>1, <1>2, <1>6, <2>1, <2>2 DEF PauseKept, WriteKeeps, FromTick, PaperShape
  <2>10. PaperShape'
    <3>1. IsTick(tick)' /\ IsWrite(late)' BY <1>1, <1>6 DEF IsTick, IsWrite
    <3>. QED BY <1>0, <1>6, <3>1 DEF PaperShape, WriteKeeps
  <2>. QED BY <1>1, <2>4, <2>5, <2>7, <2>8, <2>9, <2>10 DEF PaperInv, BookFits
<1>. QED BY <1>5, <1>6

\* A write the tick goes on after.
LEMMA WriteGoesOn ==
  ASSUME PaperInv, WriteKeeps, overtaken' = overtaken, NEW w, IsWrite(w), SoundWrite(w), FromTick(w),
         Applies(w), Stored(w), late' = late, IsTick(tick'), TickFits', PauseKept', OwedIs(w)
  PROVE  PaperInv'
<1>0. PaperShape /\ BookFits BY DEF PaperInv
<1>1. RowsAfter(w) /\ RowsFit' /\ SoundWrite(late)' /\ WithinLimit' BY TickStored
<1>2. PaperShape' BY <1>0, <1>1, StoredShape DEF PaperShape
<1>3. FailuresPaid' BY <1>0, <1>1, PaidThen DEF BookFits
<1>. QED BY <1>1, <1>2, <1>3 DEF PaperInv, BookFits

\* What every write of a tick does.
LEMMA WritesDo ==
  ASSUME NEW w, NEW next, Writes(w, next)
  PROVE  /\ WriteKeeps /\ overtaken' = overtaken
         /\ \/ /\ tick' = Idle
               /\ \/ Applies(w) /\ Stored(w) /\ late' = late
                  \/ late = NoWrite /\ late' = w /\ trips' = trips /\ costs' = costs /\ slipped' = slipped
            \/ tick' = next /\ Applies(w) /\ Stored(w) /\ late' = late
BY Zenon DEF Writes, Continues, WriteKeeps

\* What the tick remembers after a write of its own.
LEMMA KnowsThen ==
  ASSUME PaperInv, tick.at # "idle", WriteKeeps, late' = late, NEW w, RowsAfter(w), tick'.mints = tick.mints,
         tick'.last \in Nat, tick.last <= tick'.last, tick'.held \subseteq DOMAIN trips',
         \A i \in tick'.held : i \in tick.held \/ trips'[i].opened <= tick'.last,
         w.kind = "close" => w.at <= tick'.last,
         Cardinality(HeldTrips') + Coming <= Cardinality(tick'.held) + 1
  PROVE  TickKnows'
<1>0. PaperShape /\ BookFits /\ TickKnows /\ tick.last \in Nat BY DEF PaperInv, TickFits, PaperShape, IsTick
<1>1. \A i \in DOMAIN trips : trips[i].opened \in Nat /\ trips[i].closed \in Nat BY <1>0, TripsAre DEF PaperShape
<1>2. \A i \in DOMAIN trips :
         /\ i \in DOMAIN trips' /\ trips'[i].mint = trips[i].mint /\ trips'[i].opened = trips[i].opened
         /\ (Held(i)' <=> Held(i) /\ ~(w.kind = "close" /\ w.trip = i))
         /\ trips'[i].closed = (IF w.kind = "close" /\ w.trip = i THEN w.at ELSE trips[i].closed)
  BY DEF RowsAfter, RowAfter, SameTrip, Held
<1>3. \A i \in tick'.held : trips'[i].opened <= tick'.last
  <2>1. \A i \in tick.held : i \in DOMAIN trips /\ trips[i].opened <= tick.last BY <1>0 DEF TickKnows
  <2>. QED BY <1>0, <1>1, <1>2, <2>1
<1>4. ASSUME NEW j \in DOMAIN trips', ~Held(j)', trips'[j].mint \notin tick.mints PROVE trips'[j].closed <= tick'.last
  <2>1. j \in DOMAIN trips
    <3>. SUFFICES ASSUME j \notin DOMAIN trips PROVE FALSE OBVIOUS
    <3>1. trips'[j] = NewTrip(w) BY DEF RowsAfter
    <3>. QED BY <1>4, <3>1 DEF NewTrip, Held
  <2>2. CASE w.kind = "close" /\ w.trip = j BY <1>2, <2>1, <2>2
  <2>3. CASE ~(w.kind = "close" /\ w.trip = j)
    <3>1. ~Held(j) /\ trips[j].mint \notin tick.mints BY <1>2, <1>4, <2>1, <2>3
    <3>2. trips[j].closed <= tick.last BY <1>0, <2>1, <3>1 DEF TickKnows
    <3>. QED BY <1>0, <1>1, <1>2, <2>1, <2>3, <3>2
  <2>. QED BY <2>2, <2>3
<1>5. late'.kind = "close" /\ Held(late.trip)' => trips'[late.trip].mint \in tick.mints
  <2>1. late.kind = "close" => late.trip \in DOMAIN trips BY <1>0 DEF BookFits, SoundWrite
  <2>. QED BY <1>0, <1>2, <2>1 DEF TickKnows
<1>6. Coming' = Coming /\ profile' # Unset BY <1>0 DEF Coming, TickKnows, WriteKeeps
<1>. QED BY <1>3, <1>4, <1>5, <1>6 DEF TickKnows

LEMMA HeldIsFinite ==
  ASSUME PaperInv, tick.at # "idle"
  PROVE  IsFiniteSet(tick.held) /\ Cardinality(tick.held) \in Nat /\ tick.held \in SUBSET (DOMAIN trips)
         /\ Coming \in {0, 1} /\ Cardinality(HeldTrips) + Coming <= Cardinality(tick.held) + 1
<1>1. TickKnows /\ trips \in Seq(Trip) BY DEF PaperInv, TickFits, PaperShape
<1>2. IsFiniteSet(tick.held) BY <1>1, TripsAre, FS_Subset DEF TickKnows
<1>. QED BY <1>1, <1>2, FS_CardinalityType DEF TickKnows, Coming

LEMMA SellsStep ==
  ASSUME PaperInv, NEW i \in tick.left, SellsPosition(i)
  PROVE  PaperInv'
<1>0. PaperShape /\ BookFits /\ TickFits /\ PauseKept /\ IsTick(tick) /\ tick.last \in Nat /\ clock \in Nat
  BY DEF PaperInv, PaperShape, IsTick
<1>1. PICK stamp \in Nat : stamp = Stamp /\ tick.last < stamp BY <1>0, StampIs
<1>2. PICK w, next : /\ w = [NoWrite EXCEPT !.kind = "close", !.trip = i, !.at = stamp]
                     /\ next = [tick EXCEPT !.left = @ \ {i}, !.held = @ \ {i}, !.last = stamp]
                     /\ Writes(w, next) /\ tick.at = "exits"
  BY <1>1 DEF SellsPosition
<1>3. w.kind = "close" /\ w.trip = i /\ w.at = stamp /\ w.base = 0 BY <1>2 DEF NoWrite
<1>4. /\ IsFiniteSet(tick.held) /\ Cardinality(tick.held) \in Nat /\ tick.held \in SUBSET (DOMAIN trips)
      /\ Coming \in {0, 1} /\ Cardinality(HeldTrips) + Coming <= Cardinality(tick.held) + 1
      /\ TickKnows
  BY <1>0, <1>2, HeldIsFinite DEF TickFits
<1>5. i \in tick.held /\ i \in DOMAIN trips /\ i \in Nat /\ IsWrite(w)
  <2>1. i \in tick.held /\ i \in DOMAIN trips BY <1>0, <1>4 DEF TickFits
  <2>2. i \in Nat BY <1>0, <2>1, TripsAre DEF PaperShape
  <2>. QED BY <1>3, <2>1, <2>2 DEF IsWrite, WriteKinds
<1>6. SoundWrite(w)
  <2>1. trips[i].opened \in Nat /\ trips[i].opened <= tick.last BY <1>0, <1>4, <1>5, TripsAre DEF PaperShape, TickKnows
  <2>. QED BY <1>0, <1>1, <1>3, <1>5, <2>1 DEF SoundWrite
<1>7. FromTick(w) BY <1>3 DEF FromTick, OpensAfter
<1>8. /\ WriteKeeps /\ overtaken' = overtaken
      /\ \/ /\ tick' = Idle
            /\ \/ Applies(w) /\ Stored(w) /\ late' = late
               \/ late = NoWrite /\ late' = w /\ trips' = trips /\ costs' = costs /\ slipped' = slipped
         \/ tick' = next /\ Applies(w) /\ Stored(w) /\ late' = late
  BY <1>2, WritesDo
<1>9. CASE \/ tick' = Idle /\ Applies(w) /\ Stored(w) /\ late' = late
           \/ /\ tick' = Idle /\ late = NoWrite /\ late' = w /\ trips' = trips /\ costs' = costs
              /\ slipped' = slipped
  BY <1>5, <1>6, <1>7, <1>8, <1>9, WriteEnds
<1>10. CASE tick' = next /\ Applies(w) /\ Stored(w) /\ late' = late
  <2>0. RowsAfter(w) /\ HeldAfter(w) /\ Coming' = Coming BY <1>5, <1>6, <1>7, <1>8, <1>10, TickStored
  <2>1. PICK t : t = tick' /\ t = next BY <1>10
  <2>2. /\ t = [at |-> t.at, held |-> t.held, mints |-> t.mints, last |-> t.last, intact |-> t.intact,
                blind |-> t.blind, left |-> t.left, due |-> t.due, open |-> t.open,
                trip |-> t.trip, priced |-> t.priced, mint |-> t.mint]
        /\ t.mints = tick.mints /\ t.blind = tick.blind /\ t.due = tick.due
        /\ t.at = "exits" /\ t.held = tick.held \ {i} /\ t.last = stamp /\ t.left = tick.left \ {i}
    BY <1>0, <1>2, <1>10, <2>1 DEF IsTick
  <2>3. t.at \in TickPlaces /\ t.last \in Nat BY <1>0, <2>2 DEF TickPlaces
  <2>4. IsTick(t) BY <2>2, <2>3, Zenon DEF IsTick
  <2>5. \A k \in DOMAIN trips : k \in DOMAIN trips' BY <2>0 DEF RowsAfter
  <2>6. Cardinality(HeldTrips') + Coming <= Cardinality(t.held) + 1
    <3>1. Cardinality(t.held) = Cardinality(tick.held) - 1
      <4>1. PICK H : H = tick.held /\ IsFiniteSet(H) /\ i \in H BY <1>4, <1>5
      <4>2. Cardinality(H \ {i}) = Cardinality(H) - 1 BY <4>1, FS_RemoveElement
      <4>. QED BY <2>2, <4>1, <4>2
    <3>2. /\ Cardinality(HeldTrips') = Cardinality(HeldTrips) - 1
          /\ Cardinality(HeldTrips) \in Nat /\ Cardinality(HeldTrips') \in Nat
      BY <1>3, <2>0 DEF HeldAfter
    <3>. QED BY <1>4, <3>1, <3>2
  <2>7. TickKnows'
    <3>1. tick'.mints = tick.mints /\ tick'.last \in Nat BY <2>1, <2>2, <2>3
    <3>2. tick.last <= tick'.last /\ (w.kind = "close" => w.at <= tick'.last) BY <1>0, <1>1, <1>3, <2>1, <2>2
    <3>3. /\ tick'.held \subseteq DOMAIN trips'
          /\ \A k \in tick'.held : k \in tick.held \/ trips'[k].opened <= tick'.last
      BY <1>4, <2>1, <2>2, <2>5, <2>6
    <3>4. Cardinality(HeldTrips') + Coming <= Cardinality(tick'.held) + 1 BY <2>1, <2>6
    <3>5. tick.at # "idle" BY <1>2
    <3>. QED BY <1>8, <1>10, <2>0, <3>1, <3>2, <3>3, <3>4, <3>5, KnowsThen
  <2>8. TickFits' BY <1>0, <2>1, <2>2, <2>7 DEF TickFits
  <2>9. OwedIs(w)
    <3>1. \A j : OwedTick(j)' = 0 /\ OwedLate(j)' = OwedLate(j) /\ OwedLate(j) \in {0, 1} /\ OwedTick(j) \in {0, 1}
      BY <1>10, <2>1, <2>2 DEF OwedTick, OwedLate
    <3>2. \A j : CountedNow(w, j) = 0 /\ PaidNow(w, j) = 0 BY <1>3 DEF CountedNow, PaidNow
    <3>3. \A j : OwedLate(j) # 0 => j \in DOMAIN trips BY <1>0 DEF OwedLate, BookFits, SoundWrite
    <3>. QED BY <3>1, <3>2, <3>3 DEF OwedIs
  <2>10. PauseKept'
    <3>1. slipped' = slipped BY <1>3, <1>10 DEF Stored
    <3>2. Buying' = 0 /\ Buying \in {0, 1} BY <2>1, <2>2 DEF Buying
    <3>. QED BY <1>0, <1>2, <1>4, <1>8, <2>0, <2>1, <2>2, <3>1, <3>2 DEF PauseKept, WriteKeeps, PaperShape
  <2>. QED BY <1>5, <1>6, <1>7, <1>8, <1>10, <2>1, <2>4, <2>8, <2>9, <2>10, WriteGoesOn
<1>. QED BY <1>8, <1>9, <1>10

LEMMA FailedSellStep ==
  ASSUME PaperInv, NEW i \in tick.left, PaysFailedSell(i)
  PROVE  PaperInv'
<1>0. PaperShape /\ BookFits /\ TickFits /\ PauseKept /\ IsTick(tick) /\ tick.last \in Nat /\ clock \in Nat
  BY DEF PaperInv, PaperShape, IsTick
<1>1. PICK stamp \in Nat : stamp = Stamp /\ tick.last < stamp BY <1>0, StampIs
<1>2. PICK w, next : /\ w = [NoWrite EXCEPT !.kind = "cost", !.trip = i, !.at = stamp, !.base = costs.count]
                     /\ next = [tick EXCEPT !.at = "count", !.trip = i, !.last = stamp]
                     /\ Writes(w, next) /\ tick.at = "exits"
  BY <1>1 DEF PaysFailedSell
<1>3. w.kind = "cost" /\ w.trip = i /\ w.at = stamp /\ w.base \in Nat BY <1>0, <1>2 DEF NoWrite, PaperShape
<1>4. /\ IsFiniteSet(tick.held) /\ Cardinality(tick.held) \in Nat /\ tick.held \in SUBSET (DOMAIN trips)
      /\ Coming \in {0, 1} /\ Cardinality(HeldTrips) + Coming <= Cardinality(tick.held) + 1
      /\ TickKnows
  BY <1>0, <1>2, HeldIsFinite DEF TickFits
<1>5. i \in tick.held /\ i \in DOMAIN trips /\ i \in Nat /\ IsWrite(w)
  <2>1. i \in tick.held /\ i \in DOMAIN trips BY <1>0, <1>4 DEF TickFits
  <2>2. i \in Nat BY <1>0, <2>1, TripsAre DEF PaperShape
  <2>. QED BY <1>3, <2>1, <2>2 DEF IsWrite, WriteKinds
<1>6. SoundWrite(w) BY <1>3, <1>5 DEF SoundWrite
<1>7. FromTick(w) BY <1>3 DEF FromTick, OpensAfter
<1>8. /\ WriteKeeps /\ overtaken' = overtaken
      /\ \/ /\ tick' = Idle
            /\ \/ Applies(w) /\ Stored(w) /\ late' = late
               \/ late = NoWrite /\ late' = w /\ trips' = trips /\ costs' = costs /\ slipped' = slipped
         \/ tick' = next /\ Applies(w) /\ Stored(w) /\ late' = late
  BY <1>2, WritesDo
<1>9. CASE \/ tick' = Idle /\ Applies(w) /\ Stored(w) /\ late' = late
           \/ /\ tick' = Idle /\ late = NoWrite /\ late' = w /\ trips' = trips /\ costs' = costs
              /\ slipped' = slipped
  BY <1>5, <1>6, <1>7, <1>8, <1>9, WriteEnds
<1>10. CASE tick' = next /\ Applies(w) /\ Stored(w) /\ late' = late
  <2>0. RowsAfter(w) /\ HeldAfter(w) /\ Coming' = Coming BY <1>5, <1>6, <1>7, <1>8, <1>10, TickStored
  <2>1. PICK t : t = tick' /\ t = next BY <1>10
  <2>2. /\ t = [at |-> t.at, held |-> t.held, mints |-> t.mints, last |-> t.last, intact |-> t.intact,
                blind |-> t.blind, left |-> t.left, due |-> t.due, open |-> t.open,
                trip |-> t.trip, priced |-> t.priced, mint |-> t.mint]
        /\ t.mints = tick.mints /\ t.blind = tick.blind /\ t.due = tick.due
        /\ t.at = "count" /\ t.held = tick.held /\ t.last = stamp /\ t.left = tick.left /\ t.trip = i
    BY <1>0, <1>2, <1>10, <2>1 DEF IsTick
  <2>3. t.at \in TickPlaces /\ t.last \in Nat BY <1>0, <2>2 DEF TickPlaces
  <2>4. IsTick(t) BY <2>2, <2>3, Zenon DEF IsTick
  <2>5. \A k \in DOMAIN trips : k \in DOMAIN trips' BY <2>0 DEF RowsAfter
  <2>6. Cardinality(HeldTrips') + Coming <= Cardinality(t.held) + 1 BY <1>3, <1>4, <2>0, <2>2 DEF HeldAfter
  <2>7. TickKnows'
    <3>1. tick'.mints = tick.mints /\ tick'.last \in Nat BY <2>1, <2>2, <2>3
    <3>2. tick.last <= tick'.last /\ (w.kind = "close" => w.at <= tick'.last) BY <1>0, <1>1, <1>3, <2>1, <2>2
    <3>3. /\ tick'.held \subseteq DOMAIN trips'
          /\ \A k \in tick'.held : k \in tick.held \/ trips'[k].opened <= tick'.last
      BY <1>4, <2>1, <2>2, <2>5, <2>6
    <3>4. Cardinality(HeldTrips') + Coming <= Cardinality(tick'.held) + 1 BY <2>1, <2>6
    <3>5. tick.at # "idle" BY <1>2
    <3>. QED BY <1>8, <1>10, <2>0, <3>1, <3>2, <3>3, <3>4, <3>5, KnowsThen
  <2>8. TickFits' BY <1>0, <2>1, <2>2, <2>7 DEF TickFits
  <2>9. OwedIs(w)
    <3>1. \A j : OwedLate(j)' = OwedLate(j) /\ OwedLate(j) \in {0, 1} BY <1>10 DEF OwedLate
    <3>2. \A j : OwedTick(j) = 0 /\ OwedTick(j)' <= PaidNow(w, j) /\ OwedTick(j)' \in {0, 1} /\ CountedNow(w, j) = 0
                 /\ PaidNow(w, j) \in {0, 1}
      BY <1>2, <1>3, <2>1, <2>2 DEF OwedTick, CountedNow, PaidNow
    <3>3. \A j : OwedLate(j) # 0 \/ OwedTick(j)' # 0 => j \in DOMAIN trips
      BY <1>0, <1>5, <2>1, <2>2 DEF OwedLate, OwedTick, BookFits, SoundWrite
    <3>. QED BY <3>1, <3>2, <3>3 DEF OwedIs
  <2>10. PauseKept'
    <3>1. slipped' = slipped BY <1>3, <1>10 DEF Stored
    <3>2. Buying' = 0 /\ Buying \in {0, 1} BY <2>1, <2>2 DEF Buying
    <3>. QED BY <1>0, <1>2, <1>4, <1>8, <2>0, <2>1, <2>2, <3>1, <3>2 DEF PauseKept, WriteKeeps, PaperShape
  <2>. QED BY <1>5, <1>6, <1>7, <1>8, <1>10, <2>1, <2>4, <2>8, <2>9, <2>10, WriteGoesOn
<1>. QED BY <1>8, <1>9, <1>10

LEMMA CountsStep ==
  ASSUME PaperInv, CountsFailure
  PROVE  PaperInv'
<1>0. PaperShape /\ BookFits /\ TickFits /\ PauseKept /\ IsTick(tick) /\ tick.last \in Nat /\ clock \in Nat
  BY DEF PaperInv, PaperShape, IsTick
<1>1. PICK stamp \in Nat : stamp = Stamp /\ tick.last < stamp BY <1>0, StampIs
<1>2. PICK w, next : /\ w = [NoWrite EXCEPT !.kind = "count", !.trip = tick.trip, !.priced = tick.priced]
                     /\ next = [tick EXCEPT !.at = "exits", !.left = @ \ {tick.trip}, !.trip = 0, !.priced = TRUE]
                     /\ Writes(w, next) /\ tick.at = "count"
  BY <1>1 DEF CountsFailure
<1>3. w.kind = "count" /\ w.trip = tick.trip /\ w.priced = tick.priced /\ w.at = 0 /\ w.base = 0 BY <1>2 DEF NoWrite
<1>4. /\ IsFiniteSet(tick.held) /\ Cardinality(tick.held) \in Nat /\ tick.held \in SUBSET (DOMAIN trips)
      /\ Coming \in {0, 1} /\ Cardinality(HeldTrips) + Coming <= Cardinality(tick.held) + 1
      /\ TickKnows
  BY <1>0, <1>2, HeldIsFinite DEF TickFits
<1>5. PICK i \in tick.left : i = tick.trip /\ i \in DOMAIN trips /\ i \in Nat /\ IsWrite(w)
  <2>1. tick.trip \in tick.left /\ tick.trip \in DOMAIN trips BY <1>0, <1>2, <1>4 DEF TickFits
  <2>2. tick.trip \in Nat BY <1>0, <2>1, TripsAre DEF PaperShape
  <2>. QED BY <1>3, <2>1, <2>2 DEF IsWrite, WriteKinds
<1>6. SoundWrite(w) BY <1>3, <1>5 DEF SoundWrite
<1>7. FromTick(w) BY <1>2, <1>3 DEF FromTick, OpensAfter
<1>8. /\ WriteKeeps /\ overtaken' = overtaken
      /\ \/ /\ tick' = Idle
            /\ \/ Applies(w) /\ Stored(w) /\ late' = late
               \/ late = NoWrite /\ late' = w /\ trips' = trips /\ costs' = costs /\ slipped' = slipped
         \/ tick' = next /\ Applies(w) /\ Stored(w) /\ late' = late
  BY <1>2, WritesDo
<1>9. CASE \/ tick' = Idle /\ Applies(w) /\ Stored(w) /\ late' = late
           \/ /\ tick' = Idle /\ late = NoWrite /\ late' = w /\ trips' = trips /\ costs' = costs
              /\ slipped' = slipped
  BY <1>5, <1>6, <1>7, <1>8, <1>9, WriteEnds
<1>10. CASE tick' = next /\ Applies(w) /\ Stored(w) /\ late' = late
  <2>0. RowsAfter(w) /\ HeldAfter(w) /\ Coming' = Coming BY <1>5, <1>6, <1>7, <1>8, <1>10, TickStored
  <2>1. PICK t : t = tick' /\ t = next BY <1>10
  <2>2. /\ t = [at |-> t.at, held |-> t.held, mints |-> t.mints, last |-> t.last, intact |-> t.intact,
                blind |-> t.blind, left |-> t.left, due |-> t.due, open |-> t.open,
                trip |-> t.trip, priced |-> t.priced, mint |-> t.mint]
        /\ t.mints = tick.mints /\ t.blind = tick.blind /\ t.due = tick.due
        /\ t.at = "exits" /\ t.held = tick.held /\ t.last = tick.last /\ t.left = tick.left \ {tick.trip}
    BY <1>0, <1>2, <1>10, <2>1 DEF IsTick
  <2>3. t.at \in TickPlaces /\ t.last \in Nat BY <1>0, <2>2 DEF TickPlaces
  <2>4. IsTick(t) BY <2>2, <2>3, Zenon DEF IsTick
  <2>5. \A k \in DOMAIN trips : k \in DOMAIN trips' BY <2>0 DEF RowsAfter
  <2>6. Cardinality(HeldTrips') + Coming <= Cardinality(t.held) + 1 BY <1>3, <1>4, <2>0, <2>2 DEF HeldAfter
  <2>7. TickKnows'
    <3>1. tick'.mints = tick.mints /\ tick'.last \in Nat BY <2>1, <2>2, <2>3
    <3>2. tick.last <= tick'.last /\ (w.kind = "close" => w.at <= tick'.last) BY <1>0, <1>1, <1>3, <2>1, <2>2
    <3>3. /\ tick'.held \subseteq DOMAIN trips'
          /\ \A k \in tick'.held : k \in tick.held \/ trips'[k].opened <= tick'.last
      BY <1>4, <2>1, <2>2, <2>5, <2>6
    <3>4. Cardinality(HeldTrips') + Coming <= Cardinality(tick'.held) + 1 BY <2>1, <2>6
    <3>5. tick.at # "idle" BY <1>2
    <3>. QED BY <1>8, <1>10, <2>0, <3>1, <3>2, <3>3, <3>4, <3>5, KnowsThen
  <2>8. TickFits' BY <1>0, <2>1, <2>2, <2>7 DEF TickFits
  <2>9. OwedIs(w)
    <3>1. \A j : OwedLate(j)' = OwedLate(j) /\ OwedLate(j) \in {0, 1} /\ OwedTick(j)' = 0
      BY <1>10, <2>1, <2>2 DEF OwedLate, OwedTick
    <3>2. \A j : CountedNow(w, j) <= OwedTick(j) /\ CountedNow(w, j) \in {0, 1} /\ OwedTick(j) \in {0, 1} /\ PaidNow(w, j) = 0
      BY <1>2, <1>3 DEF OwedTick, CountedNow, PaidNow
    <3>3. \A j : OwedLate(j) # 0 => j \in DOMAIN trips BY <1>0 DEF OwedLate, BookFits, SoundWrite
    <3>. QED BY <3>1, <3>2, <3>3 DEF OwedIs
  <2>10. PauseKept'
    <3>1. slipped' = slipped BY <1>3, <1>10 DEF Stored
    <3>2. Buying' = 0 /\ Buying \in {0, 1} BY <2>1, <2>2 DEF Buying
    <3>. QED BY <1>0, <1>2, <1>4, <1>8, <2>0, <2>1, <2>2, <3>1, <3>2 DEF PauseKept, WriteKeeps, PaperShape
  <2>. QED BY <1>5, <1>6, <1>7, <1>8, <1>10, <2>1, <2>4, <2>8, <2>9, <2>10, WriteGoesOn
<1>. QED BY <1>8, <1>9, <1>10

LEMMA FailedBuyStep ==
  ASSUME PaperInv, PaysFailedBuy
  PROVE  PaperInv'
<1>0. PaperShape /\ BookFits /\ TickFits /\ PauseKept /\ IsTick(tick) /\ tick.last \in Nat /\ clock \in Nat
  BY DEF PaperInv, PaperShape, IsTick
<1>1. PICK stamp \in Nat : stamp = Stamp /\ tick.last < stamp BY <1>0, StampIs
<1>2. PICK w, next : /\ w = [NoWrite EXCEPT !.kind = "cost", !.at = stamp, !.base = costs.count]
                     /\ next = [tick EXCEPT !.at = "entries", !.mint = NoMint, !.last = stamp]
                     /\ Writes(w, next) /\ tick.at = "buy"
  BY <1>1 DEF PaysFailedBuy
<1>3. w.kind = "cost" /\ w.trip = 0 /\ w.at = stamp /\ w.base \in Nat BY <1>0, <1>2 DEF NoWrite, PaperShape
<1>4. /\ IsFiniteSet(tick.held) /\ Cardinality(tick.held) \in Nat /\ tick.held \in SUBSET (DOMAIN trips)
      /\ Coming \in {0, 1} /\ Cardinality(HeldTrips) + Coming <= Cardinality(tick.held) + 1
      /\ TickKnows
  BY <1>0, <1>2, HeldIsFinite DEF TickFits
<1>5. IsWrite(w) BY <1>3 DEF IsWrite, WriteKinds
<1>6. SoundWrite(w) BY <1>3 DEF SoundWrite
<1>7. FromTick(w) BY <1>3 DEF FromTick, OpensAfter
<1>8. /\ WriteKeeps /\ overtaken' = overtaken
      /\ \/ /\ tick' = Idle
            /\ \/ Applies(w) /\ Stored(w) /\ late' = late
               \/ late = NoWrite /\ late' = w /\ trips' = trips /\ costs' = costs /\ slipped' = slipped
         \/ tick' = next /\ Applies(w) /\ Stored(w) /\ late' = late
  BY <1>2, WritesDo
<1>9. CASE \/ tick' = Idle /\ Applies(w) /\ Stored(w) /\ late' = late
           \/ /\ tick' = Idle /\ late = NoWrite /\ late' = w /\ trips' = trips /\ costs' = costs
              /\ slipped' = slipped
  BY <1>5, <1>6, <1>7, <1>8, <1>9, WriteEnds
<1>10. CASE tick' = next /\ Applies(w) /\ Stored(w) /\ late' = late
  <2>0. RowsAfter(w) /\ HeldAfter(w) /\ Coming' = Coming BY <1>5, <1>6, <1>7, <1>8, <1>10, TickStored
  <2>1. PICK t : t = tick' /\ t = next BY <1>10
  <2>2. /\ t = [at |-> t.at, held |-> t.held, mints |-> t.mints, last |-> t.last, intact |-> t.intact,
                blind |-> t.blind, left |-> t.left, due |-> t.due, open |-> t.open,
                trip |-> t.trip, priced |-> t.priced, mint |-> t.mint]
        /\ t.mints = tick.mints /\ t.blind = tick.blind /\ t.due = tick.due
        /\ t.at = "entries" /\ t.held = tick.held /\ t.last = stamp /\ t.left = tick.left /\ t.open = tick.open
    BY <1>0, <1>2, <1>10, <2>1 DEF IsTick
  <2>3. t.at \in TickPlaces /\ t.last \in Nat BY <1>0, <2>2 DEF TickPlaces
  <2>4. IsTick(t) BY <2>2, <2>3, Zenon DEF IsTick
  <2>5. \A k \in DOMAIN trips : k \in DOMAIN trips' BY <2>0 DEF RowsAfter
  <2>6. Cardinality(HeldTrips') + Coming <= Cardinality(t.held) + 1 BY <1>3, <1>4, <2>0, <2>2 DEF HeldAfter
  <2>7. TickKnows'
    <3>1. tick'.mints = tick.mints /\ tick'.last \in Nat BY <2>1, <2>2, <2>3
    <3>2. tick.last <= tick'.last /\ (w.kind = "close" => w.at <= tick'.last) BY <1>0, <1>1, <1>3, <2>1, <2>2
    <3>3. /\ tick'.held \subseteq DOMAIN trips'
          /\ \A k \in tick'.held : k \in tick.held \/ trips'[k].opened <= tick'.last
      BY <1>4, <2>1, <2>2, <2>5, <2>6
    <3>4. Cardinality(HeldTrips') + Coming <= Cardinality(tick'.held) + 1 BY <2>1, <2>6
    <3>5. tick.at # "idle" BY <1>2
    <3>. QED BY <1>8, <1>10, <2>0, <3>1, <3>2, <3>3, <3>4, <3>5, KnowsThen
  <2>8. TickFits' BY <1>0, <1>2, <2>1, <2>2, <2>7 DEF TickFits
  <2>9. OwedIs(w)
    <3>1. \A j : OwedTick(j)' = 0 /\ OwedLate(j)' = OwedLate(j) /\ OwedLate(j) \in {0, 1} /\ OwedTick(j) \in {0, 1}
      BY <1>10, <2>1, <2>2 DEF OwedTick, OwedLate
    <3>2. \A j : CountedNow(w, j) = 0 /\ PaidNow(w, j) \in {0, 1} BY <1>3 DEF CountedNow, PaidNow
    <3>3. \A j : OwedLate(j) # 0 => j \in DOMAIN trips BY <1>0 DEF OwedLate, BookFits, SoundWrite
    <3>. QED BY <3>1, <3>2, <3>3 DEF OwedIs
  <2>10. PauseKept'
    <3>1. slipped' = slipped BY <1>3, <1>10 DEF Stored
    <3>2. Buying' = 0 /\ Buying \in {0, 1} BY <2>1, <2>2 DEF Buying
    <3>. QED BY <1>0, <1>2, <1>4, <1>8, <2>0, <2>1, <2>2, <3>1, <3>2 DEF PauseKept, WriteKeeps, PaperShape
  <2>. QED BY <1>5, <1>6, <1>7, <1>8, <1>10, <2>1, <2>4, <2>8, <2>9, <2>10, WriteGoesOn
<1>. QED BY <1>8, <1>9, <1>10

LEMMA BuysStep ==
  ASSUME PaperInv, BuysPosition
  PROVE  PaperInv'
<1>0. PaperShape /\ BookFits /\ TickFits /\ PauseKept /\ IsTick(tick) /\ tick.last \in Nat /\ clock \in Nat
  BY DEF PaperInv, PaperShape, IsTick
<1>1. PICK stamp \in Nat : stamp = Stamp /\ tick.last < stamp BY <1>0, StampIs
<1>2. PICK w, next : /\ w = [NoWrite EXCEPT !.kind = "open", !.mint = tick.mint, !.at = stamp, !.with = profile]
                     /\ next = [tick EXCEPT !.at = "entries", !.open = @ + 1, !.held = @ \cup {Len(trips) + 1},
                                           !.mint = NoMint, !.last = stamp]
                     /\ Writes(w, next) /\ tick.at = "buy"
  BY <1>1 DEF BuysPosition
<1>3. w.kind = "open" /\ w.trip = 0 /\ w.at = stamp /\ w.base = 0 /\ w.mint = tick.mint /\ w.with = profile
  BY <1>2 DEF NoWrite
<1>4. /\ IsFiniteSet(tick.held) /\ Cardinality(tick.held) \in Nat /\ tick.held \in SUBSET (DOMAIN trips)
      /\ Coming \in {0, 1} /\ Cardinality(HeldTrips) + Coming <= Cardinality(tick.held) + 1
      /\ TickKnows
  BY <1>0, <1>2, HeldIsFinite DEF TickFits
<1>5. IsWrite(w) BY <1>3 DEF IsWrite, WriteKinds
<1>6. SoundWrite(w)
  <2>1. tick.mint \in Coins BY <1>0, <1>2, WatchlistAssumption DEF TickFits
  <2>2. profile = version /\ version # Unset BY <1>0, <1>4 DEF TickKnows, BookFits, RowsFit
  <2>. QED BY <1>3, <2>1, <2>2 DEF SoundWrite
<1>7. FromTick(w)
  <2>1. tick.mint \notin tick.mints /\ tick.open = Cardinality(tick.held) /\ tick.open < MaxOpen
    BY <1>0, <1>2 DEF TickFits
  <2>2. IsFiniteSet(HeldTrips) /\ Cardinality(HeldTrips) \in Nat
    BY <1>0, TripsAre, FS_Subset, FS_CardinalityType DEF PaperShape, HeldTrips
  <2>3. Cardinality(HeldTrips) + Coming <= MaxOpen BY <1>4, <2>1, <2>2, PaperAssumption
  <2>4. ASSUME NEW j \in DOMAIN trips, trips[j].mint = w.mint, ~Held(j) PROVE trips[j].closed < w.at
    <3>1. trips[j].closed <= tick.last BY <1>3, <1>4, <2>1, <2>4 DEF TickKnows
    <3>2. trips[j].closed \in Nat BY <1>0, TripsAre DEF PaperShape
    <3>. QED BY <1>0, <1>1, <1>3, <3>1, <3>2
  <2>. QED BY <1>2, <1>3, <2>3, <2>4 DEF FromTick, OpensAfter
<1>8. /\ WriteKeeps /\ overtaken' = overtaken
      /\ \/ /\ tick' = Idle
            /\ \/ Applies(w) /\ Stored(w) /\ late' = late
               \/ late = NoWrite /\ late' = w /\ trips' = trips /\ costs' = costs /\ slipped' = slipped
         \/ tick' = next /\ Applies(w) /\ Stored(w) /\ late' = late
  BY <1>2, WritesDo
<1>9. CASE \/ tick' = Idle /\ Applies(w) /\ Stored(w) /\ late' = late
           \/ /\ tick' = Idle /\ late = NoWrite /\ late' = w /\ trips' = trips /\ costs' = costs
              /\ slipped' = slipped
  BY <1>5, <1>6, <1>7, <1>8, <1>9, WriteEnds
<1>10. CASE tick' = next /\ Applies(w) /\ Stored(w) /\ late' = late
  <2>0. RowsAfter(w) /\ HeldAfter(w) /\ Coming' = Coming BY <1>5, <1>6, <1>7, <1>8, <1>10, TickStored
  <2>1. PICK t : t = tick' /\ t = next BY <1>10
  <2>2. /\ t = [at |-> t.at, held |-> t.held, mints |-> t.mints, last |-> t.last, intact |-> t.intact,
                blind |-> t.blind, left |-> t.left, due |-> t.due, open |-> t.open,
                trip |-> t.trip, priced |-> t.priced, mint |-> t.mint]
        /\ t.mints = tick.mints /\ t.blind = tick.blind /\ t.due = tick.due
        /\ t.at = "entries" /\ t.held = tick.held \cup {Len(trips) + 1} /\ t.last = stamp /\ t.left = tick.left
        /\ t.open = tick.open + 1
    BY <1>0, <1>2, <1>10, <2>1 DEF IsTick
  <2>3. t.at \in TickPlaces /\ t.last \in Nat BY <1>0, <2>2 DEF TickPlaces
  <2>4. IsTick(t) BY <2>2, <2>3, Zenon DEF IsTick
  <2>5. \A k \in DOMAIN trips : k \in DOMAIN trips' BY <2>0 DEF RowsAfter
  <2>6. /\ Cardinality(HeldTrips') + Coming <= Cardinality(t.held) + 1 /\ t.held \subseteq DOMAIN trips'
        /\ \A k \in t.held : k \in tick.held \/ trips'[k].opened <= stamp
        /\ Cardinality(t.held) = Cardinality(tick.held) + 1
    <3>1. Len(trips) + 1 \notin DOMAIN trips /\ Len(trips) + 1 \in DOMAIN trips' /\ trips'[Len(trips) + 1].opened = stamp
      BY <1>3, <2>0 DEF RowsAfter, NewTrip
    <3>2. Cardinality(t.held) = Cardinality(tick.held) + 1
      <4>1. PICK H, n : H = tick.held /\ IsFiniteSet(H) /\ n = Len(trips) + 1 /\ n \notin H BY <1>4, <3>1
      <4>2. Cardinality(H \cup {n}) = Cardinality(H) + 1 BY <4>1, FS_AddElement
      <4>. QED BY <2>2, <4>1, <4>2
    <3>3. /\ Cardinality(HeldTrips') = Cardinality(HeldTrips) + 1
          /\ Cardinality(HeldTrips) \in Nat /\ Cardinality(HeldTrips') \in Nat
      BY <1>3, <2>0 DEF HeldAfter
    <3>4. Cardinality(HeldTrips') + Coming <= Cardinality(t.held) + 1 BY <1>4, <3>2, <3>3
    <3>. QED BY <1>4, <2>2, <2>5, <3>1, <3>2, <3>4
  <2>7. TickKnows'
    <3>1. tick'.mints = tick.mints /\ tick'.last \in Nat BY <2>1, <2>2, <2>3
    <3>2. tick.last <= tick'.last /\ (w.kind = "close" => w.at <= tick'.last) BY <1>0, <1>1, <1>3, <2>1, <2>2
    <3>3. /\ tick'.held \subseteq DOMAIN trips'
          /\ \A k \in tick'.held : k \in tick.held \/ trips'[k].opened <= tick'.last
      BY <1>4, <2>1, <2>2, <2>5, <2>6
    <3>4. Cardinality(HeldTrips') + Coming <= Cardinality(tick'.held) + 1 BY <2>1, <2>6
    <3>5. tick.at # "idle" BY <1>2
    <3>. QED BY <1>8, <1>10, <2>0, <3>1, <3>2, <3>3, <3>4, <3>5, KnowsThen
  <2>8. TickFits' BY <1>0, <1>2, <2>1, <2>2, <2>6, <2>7 DEF TickFits
  <2>9. OwedIs(w)
    <3>1. \A j : OwedTick(j)' = 0 /\ OwedLate(j)' = OwedLate(j) /\ OwedLate(j) \in {0, 1} /\ OwedTick(j) \in {0, 1}
      BY <1>10, <2>1, <2>2 DEF OwedTick, OwedLate
    <3>2. \A j : CountedNow(w, j) = 0 /\ PaidNow(w, j) = 0 BY <1>3 DEF CountedNow, PaidNow
    <3>3. \A j : OwedLate(j) # 0 => j \in DOMAIN trips BY <1>0 DEF OwedLate, BookFits, SoundWrite
    <3>. QED BY <3>1, <3>2, <3>3 DEF OwedIs
  <2>10. PauseKept'
    <3>1. slipped' = (IF owner # 0 THEN slipped + 1 ELSE slipped) /\ slipped \in Nat BY <1>0, <1>3, <1>10 DEF Stored, PaperShape
    <3>2. Buying' = 0 /\ Buying = 1 BY <1>2, <2>1, <2>2 DEF Buying
    <3>. QED BY <1>0, <1>2, <1>4, <1>8, <2>0, <2>1, <2>2, <3>1, <3>2 DEF PauseKept, WriteKeeps
  <2>. QED BY <1>5, <1>6, <1>7, <1>8, <1>10, <2>1, <2>4, <2>8, <2>9, <2>10, WriteGoesOn
<1>. QED BY <1>8, <1>9, <1>10

\* A write a tick gave up on is stored when another tick, which does not know of it, is under way; or it never is.
LEMMA LateStep ==
  ASSUME PaperInv, LateWrite
  PROVE  PaperInv'
<1>0. PaperShape /\ BookFits /\ TickFits /\ PauseKept /\ IsTick(tick) BY DEF PaperInv, PaperShape
<1>1. WriteKeeps /\ tick' = tick /\ late' = NoWrite BY Zenon DEF LateWrite, WriteKeeps
<1>2. late'.kind = "none" /\ IsWrite(late') /\ Coming' = 0 /\ \A i : OwedLate(i)' = 0 /\ OwedTick(i)' = OwedTick(i)
  BY <1>1, IdleIs DEF Coming, OwedLate, OwedTick
<1>3. SoundWrite(late)' BY <1>2 DEF SoundWrite
<1>4. Buying' = Buying /\ Buying \in {0, 1} /\ Coming \in {0, 1} BY <1>1 DEF Buying, Coming
<1>5. IsFiniteSet(HeldTrips) /\ Cardinality(HeldTrips) \in Nat
  BY <1>0, TripsAre, FS_Subset, FS_CardinalityType DEF PaperShape, HeldTrips
<1>6. tick.at # "idle" => TickKnows BY <1>0 DEF TickFits
<1>7. CASE trips' = trips /\ costs' = costs /\ slipped' = slipped /\ overtaken' = overtaken
  <2>1. HeldTrips' = HeldTrips BY <1>7 DEF HeldTrips, Held
  <2>2. RowsFit' BY <1>0, <1>1, <1>7, <2>1 DEF BookFits, RowsFit, ClosedAfter, TripsApart, Apart, Held, WriteKeeps
  <2>3. WithinLimit' BY <1>0, <1>2, <1>4, <1>5, <2>1, PaperAssumption DEF BookFits, WithinLimit
  <2>4. FailuresPaid'
    <3>1. ASSUME NEW i \in DOMAIN trips
          PROVE  trips[i].failures + OwedLate(i)' + OwedTick(i)' <= trips[i].fees + trips[i].unpriced
      <4>1. /\ trips[i].failures \in Nat /\ trips[i].fees \in Nat /\ trips[i].unpriced \in Nat
            /\ OwedLate(i) \in Nat /\ OwedTick(i) \in Nat
        <5>1. trips[i] \in Trip BY <1>0, TripsAre DEF PaperShape
        <5>. QED BY <5>1 DEF Trip, OwedLate, OwedTick
      <4>2. trips[i].failures + OwedLate(i) + OwedTick(i) <= trips[i].fees + trips[i].unpriced
        BY <1>0 DEF BookFits, FailuresPaid
      <4>. QED BY <1>2, <4>1, <4>2
    <3>. QED BY <1>7, <3>1 DEF FailuresPaid
  <2>5. TickFits'
    <3>1. ASSUME TickKnows, tick.at # "idle" PROVE TickKnows'
      <4>1. IsFiniteSet(tick.held) BY <1>0, <3>1, HeldIsFinite
      <4>2. Cardinality(tick.held) \in Nat BY <4>1, FS_CardinalityType
      <4>. QED BY <1>1, <1>2, <1>4, <1>5, <1>7, <2>1, <3>1, <4>2 DEF TickKnows, Held, WriteKeeps
    <3>. QED BY <1>0, <1>1, <3>1 DEF TickFits
  <2>6. PauseKept' BY <1>0, <1>1, <1>2, <1>4, <1>7 DEF PauseKept, WriteKeeps, PaperShape
  <2>7. PaperShape'
    <3>1. IsTick(tick)' /\ IsWrite(late)' BY <1>0, <1>1, <1>2 DEF IsTick, IsWrite
    <3>. QED BY <1>0, <1>1, <1>7, <3>1 DEF PaperShape, WriteKeeps
  <2>. QED BY <1>3, <2>2, <2>3, <2>4, <2>5, <2>6, <2>7 DEF PaperInv, BookFits
<1>8. CASE /\ Applies(late) /\ Stored(late)
           /\ overtaken' = IF Overtakes(late) THEN overtaken \cup {late.kind} ELSE overtaken
  <2>0. PICK w : w = late OBVIOUS
  <2>1. /\ IsWrite(w) /\ SoundWrite(w) /\ Applies(w) /\ Stored(w)
        /\ overtaken' = IF Overtakes(w) THEN overtaken \cup {w.kind} ELSE overtaken
    BY <1>0, <1>8, <2>0 DEF BookFits, PaperShape
  <2>2. RowsAfter(w) BY <1>0, <2>1, StoredIs DEF Stored
  <2>3. HeldAfter(w) BY <1>0, <2>1, <2>2, HeldThen
  <2>4. ASSUME "open" \notin overtaken' PROVE "open" \notin overtaken /\ OpensAfter(w)
    <3>1. "open" \notin overtaken /\ (w.kind = "open" => ~Overtakes(w)) BY <2>1, <2>4
    <3>2. ASSUME w.kind = "open", NEW j \in DOMAIN trips, trips[j].mint = w.mint PROVE trips[j].closed < w.at
      <4>1. trips[j].closed \in Nat /\ w.at \in Nat BY <1>0, <2>1, TripsAre DEF PaperShape, IsWrite
      <4>. QED BY <3>1, <3>2, <4>1 DEF Overtakes
    <3>. QED BY <3>1, <3>2 DEF OpensAfter
  <2>5. RowsFit' BY <1>0, <1>1, <2>1, <2>2, <2>3, <2>4, RowsThen DEF BookFits, WriteKeeps
  <2>6. WithinLimit'
    <3>1. Coming = (IF w.kind = "open" THEN 1 ELSE 0) BY <2>0 DEF Coming
    <3>. QED BY <1>0, <1>2, <2>3, <3>1, PaperAssumption DEF BookFits, WithinLimit, HeldAfter
  <2>7. FailuresPaid'
    <3>1. \A i : OwedLate(i) = CountedNow(w, i) /\ OwedLate(i) \in {0, 1} /\ OwedTick(i) \in {0, 1} /\ PaidNow(w, i) \in {0, 1}
      BY <2>0 DEF OwedLate, OwedTick, CountedNow, PaidNow
    <3>2. \A j : OwedTick(j) # 0 => j \in DOMAIN trips BY <1>0 DEF OwedTick, TickFits, TickKnows
    <3>3. OwedIs(w) BY <1>2, <3>1, <3>2 DEF OwedIs
    <3>. QED BY <1>0, <2>2, <3>3, PaidThen DEF BookFits
  <2>8. TickFits'
    <3>1. ASSUME TickKnows, tick.at # "idle" PROVE TickKnows'
      <4>1. IsFiniteSet(tick.held) BY <1>0, <3>1, HeldIsFinite
      <4>2. Cardinality(tick.held) \in Nat BY <4>1, FS_CardinalityType
      <4>3. \A i \in DOMAIN trips :
               /\ i \in DOMAIN trips' /\ trips'[i].mint = trips[i].mint /\ trips'[i].opened = trips[i].opened
               /\ (Held(i)' <=> Held(i) /\ ~(w.kind = "close" /\ w.trip = i))
               /\ trips'[i].closed = (IF w.kind = "close" /\ w.trip = i THEN w.at ELSE trips[i].closed)
        BY <2>2 DEF RowsAfter, RowAfter, SameTrip, Held
      <4>4. Cardinality(HeldTrips') + Coming' <= Cardinality(tick.held) + 1
        <5>1. Coming = (IF w.kind = "open" THEN 1 ELSE 0) BY <2>0 DEF Coming
        <5>2. Cardinality(HeldTrips) + Coming <= Cardinality(tick.held) + 1 BY <3>1 DEF TickKnows
        <5>. QED BY <1>2, <2>3, <4>2, <5>1, <5>2 DEF HeldAfter
      <4>5. ASSUME NEW j \in DOMAIN trips' PROVE trips'[j].mint \in tick.mints \/ Held(j)' \/ trips'[j].closed <= tick.last
        <5>1. CASE j \notin DOMAIN trips
          <6>1. trips'[j] = NewTrip(w) BY <2>2, <5>1 DEF RowsAfter
          <6>. QED BY <6>1 DEF NewTrip, Held
        <5>2. CASE j \in DOMAIN trips /\ w.kind = "close" /\ w.trip = j
          <6>1. Held(j) BY <2>1, <5>2 DEF Applies, Held
          <6>2. trips[j].mint \in tick.mints BY <2>0, <3>1, <5>2, <6>1 DEF TickKnows
          <6>. QED BY <4>3, <5>2, <6>2
        <5>3. CASE j \in DOMAIN trips /\ ~(w.kind = "close" /\ w.trip = j) BY <3>1, <4>3, <5>3 DEF TickKnows
        <5>. QED BY <5>1, <5>2, <5>3
      <4>6. profile' # Unset /\ tick.held \subseteq DOMAIN trips' /\ \A i \in tick.held : trips'[i].opened <= tick.last
        BY <1>1, <3>1, <4>3 DEF TickKnows, WriteKeeps
      <4>. QED BY <1>1, <1>2, <4>4, <4>5, <4>6 DEF TickKnows
    <3>. QED BY <1>0, <1>1, <3>1 DEF TickFits
  <2>9. PauseKept'
    <3>1. slipped' = (IF w.kind = "open" /\ owner # 0 THEN slipped + 1 ELSE slipped) /\ slipped \in Nat
      BY <1>0, <2>1 DEF Stored, PaperShape
    <3>2. Coming = (IF w.kind = "open" THEN 1 ELSE 0) BY <2>0 DEF Coming
    <3>. QED BY <1>0, <1>1, <1>2, <1>4, <3>1, <3>2 DEF PauseKept, WriteKeeps
  <2>10. PaperShape' BY <1>0, <1>1, <1>2, <2>1, <2>2, StoredShape
  <2>. QED BY <1>3, <2>5, <2>6, <2>7, <2>8, <2>9, <2>10 DEF PaperInv, BookFits
<1>. QED BY <1>7, <1>8 DEF LateWrite

LEMMA PaperInductive == PaperInv /\ [PaperNext]_paperVars => PaperInv'
<1>. SUFFICES ASSUME PaperInv, [PaperNext]_paperVars PROVE PaperInv' OBVIOUS
<1>1. CASE UNCHANGED paperVars
  <2>0. PaperShape /\ BookFits /\ TickFits /\ PauseKept /\ IsTick(tick) BY DEF PaperInv, PaperShape
  <2>1. /\ RowsStand /\ clock' = clock /\ pauses' = pauses /\ control' = control /\ owner' = owner
        /\ slipped' = slipped /\ calling' = calling /\ paused' = paused /\ tick' = tick
    BY <1>1, Zenon DEF paperVars, rowVars, RowsStand
  <2>2. TickFits' BY <2>0, <2>1, TickStays
  <2>3. Coming' = Coming /\ Buying' = Buying BY <2>1, RowsStay DEF Buying
  <2>4. PauseKept' BY <2>0, <2>1, <2>3 DEF PauseKept
  <2>. QED BY <2>0, <2>1, <2>2, <2>4, TickMoves DEF PaperShape
<1>2. CASE \E p \in Profiles, s \in 0 .. pauses : Start(p, s) BY <1>2, StartStep
<1>3. CASE ClockMoves \/ PauseNow \/ PauseUnstored \/ \E answered \in BOOLEAN : PauseStored(answered)
  BY <1>3, PauseSteps
<1>4. CASE \/ TickLoads \/ TickStops
           \/ \E readable, ok \in BOOLEAN : ReadsControl(readable, ok)
           \/ \E i \in tick.left : KeepsPosition(i) \/ CannotPrice(i)
           \/ \E due \in SUBSET Watchlist : BeginsEntries(due)
           \/ \E m \in tick.due : Accepts(m)
  BY <1>4, QuietSteps
<1>5. CASE \E i \in tick.left : SellsPosition(i) BY <1>5, SellsStep
<1>6. CASE \E i \in tick.left : PaysFailedSell(i) BY <1>6, FailedSellStep
<1>7. CASE CountsFailure BY <1>7, CountsStep
<1>8. CASE BuysPosition BY <1>8, BuysStep
<1>9. CASE PaysFailedBuy BY <1>9, FailedBuyStep
<1>10. CASE LateWrite BY <1>10, LateStep
<1>. QED BY <1>1, <1>2, <1>3, <1>4, <1>5, <1>6, <1>7, <1>8, <1>9, <1>10, Zenon DEF PaperNext

LEMMA PaperSafe == PaperInv => PaperBookIsSound
<1>. SUFFICES ASSUME PaperInv PROVE PaperBookIsSound OBVIOUS
<1>0. PaperShape /\ trips \in Seq(Trip) /\ BookFits /\ PauseKept /\ RowsFit BY DEF PaperInv, PaperShape, BookFits
<1>1. LedgerReplays BY <1>0, BookReplays DEF RowsFit, BookTimes, LedgerReplays
<1>2. HeldWithinLimit
  <2>1. IsFiniteSet(HeldTrips) /\ Cardinality(HeldTrips) \in Nat /\ Coming \in Nat
    BY <1>0, TripsAre, FS_Subset, FS_CardinalityType DEF HeldTrips, Coming
  <2>. QED BY <1>0, <2>1, PaperAssumption DEF HeldWithinLimit, BookFits, WithinLimit, RowsFit
<1>3. CountedFailureIsPaid
  <2>1. ASSUME NEW i \in DOMAIN trips PROVE trips[i].failures <= trips[i].fees + trips[i].unpriced
    <3>1. /\ trips[i].failures \in Nat /\ trips[i].fees \in Nat /\ trips[i].unpriced \in Nat
          /\ OwedLate(i) \in Nat /\ OwedTick(i) \in Nat
      <4>1. trips[i] \in Trip BY <1>0, TripsAre
      <4>. QED BY <4>1 DEF Trip, OwedLate, OwedTick
    <3>2. trips[i].failures + OwedLate(i) + OwedTick(i) <= trips[i].fees + trips[i].unpriced
      BY <1>0 DEF BookFits, FailuresPaid
    <3>. QED BY <3>1, <3>2
  <2>. QED BY <2>1 DEF CountedFailureIsPaid
<1>4. ResultsShareParameters BY <1>0 DEF RowsFit, ResultsShareParameters
<1>5. PauseHolds
  <2>1. Coming \in Nat /\ Buying \in Nat /\ slipped \in Nat BY <1>0 DEF Coming, Buying, PaperShape
  <2>. QED BY <1>0, <2>1 DEF PauseKept, PauseHolds
<1>. QED BY <1>1, <1>2, <1>3, <1>4, <1>5 DEF PaperBookIsSound

\* However ticks are cut off, replies lost, writes stored late, the clock stepped and Core restarted, the
\* stored rows hold at most one position more than the limit and never two of a mint, replay to the same
\* results unless a late trip was overtaken, carry a fee for every counted failure unless a late cost
\* was, and one set of parameters, and a stored pause lets at most two trips past (memecoin.rs, tick, stamp and replay;
\* memecoin/store.rs; routes/meme.rs): for any mints, limits, cap and number of rows.
THEOREM PaperBookIsSoundAlways == PaperSpec => []PaperBookIsSound
<1>1. PaperInit => PaperInv BY PaperInitial
<1>2. PaperInv /\ [PaperNext]_paperVars => PaperInv' BY PaperInductive
<1>3. PaperInv => PaperBookIsSound BY PaperSafe
<1>. QED BY <1>1, <1>2, <1>3, PTL DEF PaperSpec

=============================================================================
