------------------------ MODULE AssistantRunsProofs ------------------------
(***************************************************************************)
(* Proofs about AssistantRuns: its types; that no history of retries,      *)
(* races, lost transactions and restarts invokes the provider twice for    *)
(* one request; and that conversations keep what a client was promised,    *)
(* for any number of handlers, requests, users and conversations.          *)
(***************************************************************************)
EXTENDS AssistantRuns, TLAPS

\* What the kind and the place of a handler say about its fields.
Shaped(x) ==
    /\ x.user \in Users /\ x.kind # "none"
    /\ x.kind \in {"submit", "status"} => x.req \in Requests
    /\ x.kind \in {"chat", "delete"} => x.req = None
    /\ x.kind = "submit" => x.pay \in Payloads
    /\ x.pc \in {"load", "title", "answer"} \/ x.conv \in Convs
    /\ x.pc \in {"load", "busy", "poll", "tx", "reload", "answer"} =>
            x.kind \in {"submit", "status"}
    /\ x.pc \in {"title", "reserve", "busy", "poll", "tx", "reload"} \cup Undispatched
                  \cup Dispatched \cup Ending => x.kind # "status"
    /\ x.pc = "title" => x.kind # "delete"
    /\ x.pc \in Undispatched \cup Dispatched \cup Ending => x.kind \in {"submit", "chat"}
    /\ x.pc = "answer" => x.seen # "none" /\ rows[x.req] # None
    /\ x.pc = "save" => x.seen \in {"completed", "failed"}
    /\ x.kind = "submit" /\ x.pc \in Undispatched \cup Dispatched \cup Ending => rows[x.req] # None

HandlersShaped == \A h \in Handlers : hs[h].pc # "idle" => Shaped(hs[h])

\* A worker that has not dispatched is the only one of its run, and nobody has
\* dispatched for that run.
Fresh(h) == hs[h].pc \in Undispatched /\ hs[h].req # None
FreshUncalled == \A h \in Handlers : Fresh(h) => calls[hs[h].req] = 0
FreshAlone == \A h, k \in Handlers : Fresh(h) /\ Fresh(k) /\ hs[h].req = hs[k].req => h = k

\* A dispatched run is stored, and was dispatched once.
CalledStored == \A q \in Requests : calls[q] <= 1 /\ (calls[q] > 0 => rows[q] # None)

IndInv == TypeOK /\ HandlersShaped /\ FreshUncalled /\ FreshAlone /\ CalledStored

-----------------------------------------------------------------------------
LEMMA IndInit == Init => IndInv
BY NoneAssumption, BoundsAssumption
   DEF Init, IndInv, TypeOK, HandlersShaped, FreshUncalled, FreshAlone, Fresh, CalledStored,
       Idle, Handler, Serving, Undispatched, Dispatched, Ending

-----------------------------------------------------------------------------
\* A step of a handler changes that handler only.
LEMMA OthersStep ==
    ASSUME TypeOK, NEW h \in Handlers, Step(h) \/ GiveUp(h)
    PROVE  \A k \in Handlers : k # h => hs'[k] = hs[k]
BY DEF TypeOK, Step, GiveUp, Load, Title, Reserve, Busy, Poll, Transact, Reload, Answer, Spawn,
       StartWork, Dispatch, ProviderEnds, AppendReply, FailRun, SaveOutcome, DeleteRows, Goto, Return

\* Rows are only added, and their state changed.
LEMMA RowsStep ==
    ASSUME TypeOK, HandlersShaped, NEW h \in Handlers, Step(h) \/ GiveUp(h)
    PROVE  /\ rows' \in [Requests -> Row \cup {None}]
           /\ \A q \in Requests : rows[q] # None => rows'[q] # None
<1>. USE NoneAssumption DEF TypeOK, HandlersShaped, Shaped, At, Row, Undispatched, Dispatched, Ending
<1>1. CASE Transact(h)
  <2>1. hs[h] \in Handler /\ Shaped(hs[h]) /\ hs[h].req \in Requests BY <1>1 DEF Transact
  <2>2. CASE UNCHANGED rows BY <2>2
  <2>3. CASE CommitReserve(WriteOf(h)) BY <2>1, <2>3, <1>1 DEF CommitReserve, WriteOf, Transact
  <2>. QED BY <1>1, <2>2, <2>3 DEF Transact
<1>2. CASE SaveOutcome(h)
  <2>1. CASE UNCHANGED rows BY <2>1
  <2>2. CASE hs[h].kind = "submit" /\ rows' = [rows EXCEPT ![hs[h].req].state = hs[h].seen]
    <3>1. hs[h].req \in Requests /\ rows[hs[h].req] \in Row /\ hs[h].seen \in {"completed", "failed"}
      BY <1>2, <2>2 DEF SaveOutcome
    <3>2. PICK r \in Row : rows' = [rows EXCEPT ![hs[h].req] = r] BY <2>2, <3>1
    <3>. QED BY <3>1, <3>2, NoneRowAssumption
  <2>. QED BY <1>2, <2>1, <2>2 DEF SaveOutcome
<1>3. CASE UNCHANGED rows BY <1>3
<1>. QED BY <1>1, <1>2, <1>3 DEF Step, GiveUp, Load, Title, Reserve, Busy, Poll, Reload, Answer,
       Spawn, StartWork, Dispatch, ProviderEnds, AppendReply, FailRun, DeleteRows

\* Where a step takes a handler, and what it keeps of it.
LEMMA MoveStep ==
    ASSUME TypeOK, HandlersShaped, NEW h \in Handlers, Step(h) \/ GiveUp(h)
    PROVE  /\ hs' \in [Handlers -> Handler]
           /\ hs'[h].pc # "idle" => Shaped(hs[h])'
<1>. USE NoneAssumption, NoneRowAssumption, OwnersAssumption DEF TypeOK, HandlersShaped, Shaped, At, Goto, Return, Idle,
         Handler, Serving, Undispatched, Dispatched, Ending
<1>1. hs[h] \in Handler /\ hs[h].pc # "idle" /\ Shaped(hs[h])
  BY DEF Step, GiveUp, Load, Title, Reserve, Busy, Poll, Transact, Reload, Answer, Spawn,
       StartWork, Dispatch, ProviderEnds, AppendReply, FailRun, SaveOutcome, DeleteRows
<1>2. \A q \in Requests : rows[q] # None => rows'[q] # None BY RowsStep
<1>3. CASE Load(h)
  BY <1>1, <1>2, <1>3, SMTT(30) DEF Load, Row
<1>4. CASE Title(h)
  BY <1>1, <1>2, <1>4, SMTT(30) DEF Title
<1>5. CASE Reserve(h)
  <2>1. hs[h].kind \in {"submit", "chat", "delete"} BY <1>1, <1>5 DEF Reserve
  <2>2. \/ Return(h)
        \/ Goto(h, "busy") /\ hs[h].kind = "submit"
        \/ Goto(h, "tx") /\ hs[h].kind = "submit"
        \/ Goto(h, "spawn") /\ hs[h].kind = "chat"
        \/ Goto(h, "delete") /\ hs[h].kind = "delete"
    <3>. HIDE DEF Return
    <3>. QED BY <2>1, <1>5 DEF Reserve
  <2>3. At(h, "reserve") BY <1>5 DEF Reserve
  <2>. QED BY <1>1, <2>2, <2>3
<1>6. CASE Busy(h)
  BY <1>1, <1>2, <1>6, SMTT(30) DEF Busy
<1>7. CASE Poll(h)
  BY <1>1, <1>2, <1>7, SMTT(30) DEF Poll, Row
<1>8. CASE Transact(h)
  <2>1. At(h, "tx") /\ hs[h].req \in Requests /\ hs[h].kind = "submit" BY <1>1, <1>8 DEF Transact
  <2>2. CASE CommitReserve(WriteOf(h)) /\ Goto(h, "spawn")
    <3>1. rows'[hs[h].req] # None
      <4>1. WriteOf(h).req = hs[h].req /\ WriteOf(h).pay \in Payloads /\ WriteOf(h).conv \in Convs
              /\ WriteOf(h).epoch \in 1 .. MaxEpoch BY <1>1, <2>1 DEF WriteOf
      <4>2. rows'[hs[h].req] \in Row BY <2>1, <2>2, <4>1 DEF CommitReserve, Row
      <4>. QED BY <4>2
    <3>. QED BY <1>1, <2>1, <2>2, <3>1
  <2>3. CASE Goto(h, "reload") BY <1>1, <1>2, <2>1, <2>3
  <2>4. CASE Return(h) BY <2>4
  <2>. QED BY <1>8, <2>2, <2>3, <2>4 DEF Transact
<1>9. CASE Reload(h)
  BY <1>1, <1>2, <1>9, SMTT(30) DEF Reload, Row
<1>10. CASE Answer(h)
  BY <1>1, <1>2, <1>10, SMTT(30) DEF Answer
<1>11. CASE Spawn(h)
  BY <1>1, <1>2, <1>11, SMTT(30) DEF Spawn
<1>12. CASE StartWork(h)
  BY <1>1, <1>2, <1>12, SMTT(30) DEF StartWork
<1>13. CASE Dispatch(h)
  BY <1>1, <1>2, <1>13, SMTT(30) DEF Dispatch
<1>14. CASE ProviderEnds(h)
  BY <1>1, <1>2, <1>14, SMTT(30) DEF ProviderEnds
<1>15. CASE AppendReply(h)
  BY <1>1, <1>2, <1>15, SMTT(30) DEF AppendReply
<1>16. CASE FailRun(h)
  <2>1. At(h, "failing") /\ hs' = [hs EXCEPT ![h] = [hs[h] EXCEPT !.pc = "save", !.seen = "failed"]]
    BY <1>16 DEF FailRun
  <2>2. hs'[h].pc = "save" /\ hs'[h].seen = "failed" /\ hs'[h] \in Handler BY <1>1, <2>1
  <2>. QED BY <1>1, <1>2, <2>1, <2>2
<1>17. CASE SaveOutcome(h)
  BY <1>1, <1>2, <1>17, SMTT(30) DEF SaveOutcome
<1>18. CASE DeleteRows(h)
  BY <1>1, <1>2, <1>18, SMTT(30) DEF DeleteRows
<1>19. CASE GiveUp(h)
  BY <1>1, <1>2, <1>19, SMTT(30) DEF GiveUp
<1>. QED BY <1>3, <1>4, <1>5, <1>6, <1>7, <1>8, <1>9, <1>10, <1>11, <1>12, <1>13, <1>14, <1>15, <1>16, <1>17, <1>18, <1>19 DEF Step, GiveUp, Answer, SaveOutcome, DeleteRows

\* The other variables keep their types.
LEMMA TypeStep ==
    ASSUME TypeOK, HandlersShaped, NEW h \in Handlers, Step(h) \/ GiveUp(h)
    PROVE  TypeOK'
<1>. USE NoneAssumption, OwnersAssumption, TargetAssumption DEF TypeOK
<1>1. hs[h] \in Handler /\ hs[h].pc # "idle" /\ Shaped(hs[h])
  BY DEF HandlersShaped, Step, GiveUp, At, Load, Title, Reserve, Busy, Poll, Transact, Reload, Answer,
       Spawn, StartWork, Dispatch, ProviderEnds, AppendReply, FailRun, SaveOutcome, DeleteRows
<1>2. hs' \in [Handlers -> Handler] /\ rows' \in [Requests -> Row \cup {None}] BY MoveStep, RowsStep
<1>3. convs' \in [Convs -> {"unused", "taken", "live", "deleted"}]
  BY DEF Step, GiveUp, Load, Title, Reserve, Busy, Poll, Transact, CommitReserve, Reload, Answer,
       Spawn, StartWork, Dispatch, ProviderEnds, AppendReply, FailRun, SaveOutcome, DeleteRows
<1>4. messages' \subseteq Message
  <2>1. hs[h].conv \in Convs =>
          /\ Prompt(hs[h].conv, None) \in Message
          /\ hs[h].req \in Requests => Prompt(hs[h].conv, hs[h].req) \in Message
          /\ Reply(hs[h].conv, hs[h].req) \in Message
    BY <1>1 DEF Prompt, Reply, Message, Handler
  <2>2. CASE Transact(h)
    <3>1. hs[h].req \in Requests /\ hs[h].conv \in Convs BY <1>1, <2>2 DEF Transact, At, Shaped
    <3>2. CommitReserve(WriteOf(h)) => messages' = messages \cup {Prompt(hs[h].conv, hs[h].req)}
      BY DEF CommitReserve, WriteOf
    <3>. QED BY <2>1, <2>2, <3>1, <3>2 DEF Transact
  <2>3. CASE StartWork(h) \/ AppendReply(h)
    <3>1. hs[h].conv \in Convs BY <1>1, <2>3 DEF StartWork, AppendReply, At, Shaped
    <3>. QED BY <2>1, <2>3, <3>1 DEF StartWork, AppendReply
  <2>4. CASE DeleteRows(h) BY <2>4 DEF DeleteRows
  <2>5. CASE UNCHANGED messages BY <2>5
  <2>. QED BY <2>2, <2>3, <2>4, <2>5 DEF Step, GiveUp, Load, Title, Reserve, Busy, Poll, Reload,
         Answer, Spawn, Dispatch, ProviderEnds, FailRun, SaveOutcome
<1>5. guards' \subseteq Guard
  <2>1. CASE Reserve(h)
    <3>1. hs[h].conv \in Convs /\ hs[h].user \in Users BY <1>1, <2>1 DEF Reserve, At, Shaped
    <3>2. Held(h, hs[h].req) \in Guard BY <1>1, <3>1 DEF Held, Guard, Handler
    <3>. QED BY <2>1, <3>2 DEF Reserve, Return, Free
  <2>2. CASE guards' \subseteq guards BY <2>2
  <2>. QED BY <2>1, <2>2 DEF Step, GiveUp, Load, Title, Busy, Poll, Transact, Reload, Answer, Return,
         Free, Spawn, StartWork, Dispatch, ProviderEnds, AppendReply, FailRun, SaveOutcome, DeleteRows
<1>6. inflight' \subseteq Reservation \cup Deletion
  <2>1. CASE Transact(h)
    <3>1. WriteOf(h) \in Reservation
      BY <1>1, <2>1 DEF Transact, At, Shaped, WriteOf, Reservation
    <3>. QED BY <2>1, <3>1 DEF Transact
  <2>2. CASE DeleteRows(h)
    <3>1. [op |-> "delete", user |-> hs[h].user, conv |-> hs[h].conv] \in Deletion
      BY <1>1, <2>2 DEF DeleteRows, At, Shaped, Deletion
    <3>. QED BY <2>2, <3>1 DEF DeleteRows
  <2>3. CASE UNCHANGED inflight BY <2>3
  <2>. QED BY <2>1, <2>2, <2>3 DEF Step, GiveUp, Load, Title, Reserve, Busy, Poll, Reload, Answer,
         Spawn, StartWork, Dispatch, ProviderEnds, AppendReply, FailRun, SaveOutcome
<1>7. calls' \in [Requests -> Nat]
  BY <1>1 DEF Handler, Step, GiveUp, Load, Title, Reserve, Busy, Poll, Transact, Reload, Answer, Spawn,
       StartWork, Dispatch, ProviderEnds, AppendReply, FailRun, SaveOutcome, DeleteRows
<1>8. events' \subseteq {"created", "started", "completed", "failed"} \X Requests
  BY <1>1 DEF Handler, Publish, Step, GiveUp, Load, Title, Reserve, Busy, Poll, Transact, Reload,
       Answer, Spawn, StartWork, Dispatch, ProviderEnds, AppendReply, FailRun, SaveOutcome, DeleteRows
<1>9. told' \in [Requests -> {"none", "running", "completed", "failed", "interrupted"}]
  <2>1. Reported(hs[h].req, hs[h].seen) \in {"none", "running", "completed", "failed", "interrupted"}
    BY <1>1 DEF Reported, Handler
  <2>. QED BY <1>1, <2>1 DEF Handler, Step, GiveUp, Load, Title, Reserve, Busy, Poll, Transact,
         Reload, Answer, Spawn, StartWork, Dispatch, ProviderEnds, AppendReply, FailRun, SaveOutcome,
         DeleteRows
<1>10. epoch' \in 1 .. MaxEpoch
  BY DEF Step, GiveUp, Load, Title, Reserve, Busy, Poll, Transact, Reload, Answer, Spawn,
       StartWork, Dispatch, ProviderEnds, AppendReply, FailRun, SaveOutcome, DeleteRows
<1>. QED BY <1>2, <1>3, <1>4, <1>5, <1>6, <1>7, <1>8, <1>9, <1>10

LEMMA ShapedStep ==
    ASSUME TypeOK, HandlersShaped, NEW h \in Handlers, Step(h) \/ GiveUp(h)
    PROVE  HandlersShaped'
<1>1. \A q \in Requests : rows[q] # None => rows'[q] # None BY RowsStep
<1>2. ASSUME NEW k \in Handlers, k # h, hs[k].pc # "idle" PROVE Shaped(hs[k])'
  BY <1>1, <1>2, OthersStep DEF HandlersShaped, Shaped
<1>. QED BY <1>2, MoveStep, OthersStep DEF HandlersShaped

\* A handler becomes fresh only by the transaction that stores its run, and only a
\* fresh one dispatches.
LEMMA FreshStep ==
    ASSUME TypeOK, HandlersShaped, NEW h \in Handlers, Step(h) \/ GiveUp(h)
    PROVE  /\ Fresh(h)' => \/ Fresh(h) /\ hs'[h].req = hs[h].req /\ UNCHANGED calls
                           \/ /\ hs'[h].req = hs[h].req /\ UNCHANGED calls
                              /\ rows[hs[h].req] = None /\ rows'[hs[h].req] # None
           /\ \/ UNCHANGED calls
              \/ /\ Fresh(h) /\ ~Fresh(h)'
                 /\ calls' = [calls EXCEPT ![hs[h].req] = @ + 1]
<1>. USE DEF TypeOK, At, Goto, Return, Idle, Handler, Undispatched, Fresh
<1>1. hs[h] \in Handler /\ hs[h].pc # "idle" /\ Shaped(hs[h])
  BY DEF HandlersShaped, Step, GiveUp, Load, Title, Reserve, Busy, Poll, Transact, Reload, Answer,
       Spawn, StartWork, Dispatch, ProviderEnds, AppendReply, FailRun, SaveOutcome, DeleteRows
<1>2. CASE Reserve(h)
  <2>1. hs[h].kind \in {"submit", "chat", "delete"} /\ (hs[h].kind = "chat" => hs[h].req = None)
    BY <1>1, <1>2 DEF Reserve, Shaped
  <2>2. \/ Return(h)
        \/ \E pc \in {"tx", "busy", "delete"} : Goto(h, pc)
        \/ Goto(h, "spawn") /\ hs[h].kind = "chat"
    <3>. HIDE DEF Return
    <3>. QED BY <2>1, <1>2 DEF Reserve
  <2>3. UNCHANGED calls BY <1>2 DEF Reserve
  <2>. QED BY <2>1, <2>2, <2>3
<1>3. CASE Transact(h)
  <2>1. At(h, "tx") /\ UNCHANGED calls BY <1>3 DEF Transact
  <2>2. CASE CommitReserve(WriteOf(h)) /\ Goto(h, "spawn") /\ rows[hs[h].req] = None
    <3>1. Fresh(h)' => hs'[h].req # None /\ hs'[h].req = hs[h].req BY <2>2
    <3>2. Fresh(h)' => rows'[hs[h].req] # None
      BY <2>2, <3>1, MoveStep DEF Shaped, HandlersShaped, Dispatched, Ending
    <3>. QED BY <2>1, <2>2, <3>1, <3>2
  <2>3. CASE Goto(h, "reload") BY <2>1, <2>3
  <2>4. CASE Return(h) BY <2>1, <2>4
  <2>. QED BY <1>3, <2>2, <2>3, <2>4 DEF Transact
<1>4. CASE Dispatch(h) BY <1>1, <1>4 DEF Dispatch
<1>5. CASE Spawn(h) \/ StartWork(h) BY <1>1, <1>5 DEF Spawn, StartWork
<1>6. CASE Load(h) \/ Title(h) BY <1>1, <1>6 DEF Load, Title
<1>7. CASE Busy(h) \/ Poll(h) \/ Reload(h) \/ Answer(h) \/ GiveUp(h) \/ DeleteRows(h) \/ SaveOutcome(h)
  BY <1>1, <1>7 DEF Busy, Poll, Reload, Answer, GiveUp, DeleteRows, SaveOutcome
<1>8. CASE ProviderEnds(h) \/ AppendReply(h) \/ FailRun(h)
  BY <1>1, <1>8 DEF ProviderEnds, AppendReply, FailRun
<1>. QED BY <1>2, <1>3, <1>4, <1>5, <1>6, <1>7, <1>8 DEF Step

LEMMA InvocationStep ==
    ASSUME IndInv, NEW h \in Handlers, Step(h) \/ GiveUp(h)
    PROVE  FreshUncalled' /\ FreshAlone' /\ CalledStored'
<1>. USE DEF IndInv
<1>1. \A k \in Handlers : k # h => hs'[k] = hs[k] BY OthersStep
<1>2. \A q \in Requests : rows[q] # None => rows'[q] # None BY RowsStep
<1>3. \A k \in Handlers : Fresh(k) => hs[k].req \in Requests /\ rows[hs[k].req] # None
  BY DEF HandlersShaped, Shaped, Fresh, Undispatched
<1>4. \A k \in Handlers : hs[k] \in Handler BY DEF TypeOK
<1>5. \A k \in Handlers : k # h => (Fresh(k)' <=> Fresh(k)) BY <1>1 DEF Fresh
<1>6. CASE UNCHANGED calls
  <2>1. CalledStored' BY <1>2, <1>6 DEF CalledStored
  <2>2. Fresh(h)' => \/ Fresh(h) /\ hs'[h].req = hs[h].req
                     \/ hs'[h].req = hs[h].req /\ rows[hs[h].req] = None
    BY FreshStep
  <2>3. FreshUncalled'
    <3>1. ASSUME Fresh(h)' PROVE calls'[hs'[h].req] = 0
      <4>1. hs'[h].req \in Requests BY <3>1, TypeStep DEF TypeOK, Fresh, Handler
      <4>. QED BY <1>6, <2>2, <3>1, <4>1 DEF FreshUncalled, CalledStored, TypeOK
    <3>. QED BY <1>1, <1>5, <1>6, <3>1 DEF FreshUncalled
  <2>4. FreshAlone' BY <1>1, <1>3, <1>5, <2>2 DEF FreshAlone
  <2>. QED BY <2>1, <2>3, <2>4
<1>7. CASE Fresh(h) /\ ~Fresh(h)' /\ calls' = [calls EXCEPT ![hs[h].req] = @ + 1]
  <2>1. hs[h].req \in Requests /\ rows[hs[h].req] # None /\ calls[hs[h].req] = 0
    BY <1>3, <1>7 DEF FreshUncalled
  <2>2. CalledStored' BY <1>2, <1>7, <2>1 DEF CalledStored, TypeOK
  <2>3. FreshUncalled'
    <3>1. ASSUME NEW k \in Handlers, Fresh(k)' PROVE calls'[hs'[k].req] = 0
      <4>1. k # h /\ Fresh(k) /\ hs'[k] = hs[k] BY <1>1, <1>5, <1>7, <3>1
      <4>2. hs[k].req # hs[h].req BY <1>7, <4>1 DEF FreshAlone
      <4>. QED BY <1>3, <1>7, <2>1, <4>1, <4>2 DEF FreshUncalled, TypeOK
    <3>. QED BY <3>1 DEF FreshUncalled
  <2>4. FreshAlone' BY <1>1, <1>5, <1>7 DEF FreshAlone
  <2>. QED BY <2>2, <2>3, <2>4
<1>. QED BY <1>6, <1>7, FreshStep

-----------------------------------------------------------------------------
\* A request arrives: an idle handler gets its fields.
LEMMA ArriveStep ==
    ASSUME IndInv, NEW h \in Handlers,
           \/ \E q \in Requests, p \in Payloads : Submit(h, q, p)
           \/ \E q \in Requests : Status(h, q)
           \/ \E u \in Users, p \in Payloads : Chat(h, u, p)
           \/ \E u \in Users, c \in Convs : Delete(h, u, c)
    PROVE  IndInv'
<1>. USE OwnersAssumption, TargetAssumption, NoneAssumption DEF IndInv
<1>1. PICK x \in Handler : /\ hs' = [hs EXCEPT ![h] = x] /\ x.pc \in {"load", "title", "reserve"}
                          /\ Shaped(x)
                          /\ UNCHANGED <<epoch, rows, convs, messages, guards, inflight, calls,
                                        events, told>>
  <2>. USE DEF Handler, Serving, Undispatched, Dispatched, Ending, Shaped
  <2>1. CASE \E q \in Requests, p \in Payloads : Submit(h, q, p)
    <3>1. PICK q \in Requests, p \in Payloads : Submit(h, q, p) BY <2>1
    <3>. DEFINE x == [kind |-> "submit", pc |-> "load", user |-> UserOf[q], req |-> q,
                      pay |-> p, conv |-> Target[p], seen |-> "none"]
    <3>2. x \in Handler /\ Shaped(x) OBVIOUS
    <3>. QED BY <3>1, <3>2 DEF Submit
  <2>2. CASE \E q \in Requests : Status(h, q)
    <3>1. PICK q \in Requests : Status(h, q) BY <2>2
    <3>. DEFINE x == [kind |-> "status", pc |-> "load", user |-> UserOf[q], req |-> q,
                      pay |-> None, conv |-> None, seen |-> "none"]
    <3>2. x \in Handler /\ Shaped(x) OBVIOUS
    <3>. QED BY <3>1, <3>2 DEF Status
  <2>3. CASE \E u \in Users, p \in Payloads : Chat(h, u, p)
    <3>1. PICK u \in Users, p \in Payloads : Chat(h, u, p) BY <2>3
    <3>. DEFINE x == [kind |-> "chat", pc |-> "title", user |-> u, req |-> None,
                      pay |-> p, conv |-> Target[p], seen |-> "none"]
    <3>2. x \in Handler /\ Shaped(x) OBVIOUS
    <3>. QED BY <3>1, <3>2 DEF Chat
  <2>4. CASE \E u \in Users, c \in Convs : Delete(h, u, c)
    <3>1. PICK u \in Users, c \in Convs : Delete(h, u, c) BY <2>4
    <3>. DEFINE x == [kind |-> "delete", pc |-> "reserve", user |-> u, req |-> None,
                      pay |-> None, conv |-> c, seen |-> "none"]
    <3>2. x \in Handler /\ Shaped(x) OBVIOUS
    <3>. QED BY <3>1, <3>2 DEF Delete
  <2>. QED BY <2>1, <2>2, <2>3, <2>4
<1>2. TypeOK' BY <1>1 DEF TypeOK
<1>3. HandlersShaped' BY <1>1 DEF TypeOK, HandlersShaped, Shaped
<1>4. FreshUncalled' /\ FreshAlone' /\ CalledStored'
  BY <1>1 DEF TypeOK, FreshUncalled, FreshAlone, CalledStored, Fresh, Undispatched
<1>. QED BY <1>2, <1>3, <1>4

\* A transaction nobody waits for commits: no handler is fresh because of it.
LEMMA LateStep ==
    ASSUME IndInv, NEW w \in inflight, LateCommit(w)
    PROVE  IndInv'
<1>. USE OwnersAssumption DEF IndInv
<1>1. w \in Reservation \cup Deletion BY DEF TypeOK
<1>2. /\ rows' \in [Requests -> Row \cup {None}]
      /\ \A q \in Requests : rows[q] # None => rows'[q] # None
  <2>1. CASE UNCHANGED rows BY <2>1 DEF TypeOK
  <2>2. CASE w.op = "reserve" /\ rows[w.req] = None /\ CommitReserve(w)
    <3>1. w \in Reservation BY <1>1, <2>2 DEF Deletion
    <3>2. [pay |-> w.pay, conv |-> w.conv, epoch |-> w.epoch, state |-> "running"] \in Row
      BY <3>1 DEF Reservation, Row
    <3>. QED BY <2>2, <3>1, <3>2, NoneRowAssumption DEF CommitReserve, Reservation, TypeOK
  <2>. QED BY <2>1, <2>2 DEF LateCommit
<1>3. convs' \in [Convs -> {"unused", "taken", "live", "deleted"}]
  BY DEF LateCommit, CommitReserve, TypeOK
<1>4. messages' \subseteq Message
  <2>1. CASE w.op = "reserve" /\ CommitReserve(w)
    <3>1. w \in Reservation BY <1>1, <2>1 DEF Deletion
    <3>2. Prompt(w.conv, w.req) \in Message BY <3>1 DEF Reservation, Prompt, Message
    <3>. QED BY <2>1, <3>2 DEF CommitReserve, TypeOK
  <2>2. CASE messages' \subseteq messages BY <2>2 DEF TypeOK
  <2>. QED BY <2>1, <2>2 DEF LateCommit
<1>5. UNCHANGED <<epoch, guards, hs, calls, events, told>> /\ inflight' \subseteq inflight
  BY DEF LateCommit
<1>6. TypeOK' BY <1>2, <1>3, <1>4, <1>5 DEF TypeOK
<1>7. HandlersShaped' BY <1>2, <1>5 DEF HandlersShaped, Shaped
<1>8. FreshUncalled' /\ FreshAlone' /\ CalledStored'
  BY <1>2, <1>5 DEF FreshUncalled, FreshAlone, CalledStored, Fresh
<1>. QED BY <1>6, <1>7, <1>8

LEMMA CrashStep ==
    ASSUME IndInv, Crash
    PROVE  IndInv'
<1>. USE BoundsAssumption, NoneAssumption DEF IndInv
<1>1. \A h \in Handlers : At(h, "tx") => WriteOf(h) \in Reservation
  BY DEF TypeOK, HandlersShaped, Shaped, At, WriteOf, Reservation
<1>2. \A h \in Handlers : At(h, "delete") =>
         [op |-> "delete", user |-> hs[h].user, conv |-> hs[h].conv] \in Deletion
  BY DEF TypeOK, HandlersShaped, Shaped, At, Deletion
<1>3. hs' \in [Handlers -> Handler] /\ \A h \in Handlers : hs'[h] = Idle
  BY DEF Crash, Idle, Handler
<1>4. inflight' \subseteq Reservation \cup Deletion BY <1>1, <1>2 DEF Crash, TypeOK
<1>5. TypeOK' BY <1>3, <1>4 DEF Crash, TypeOK
<1>6. HandlersShaped' BY <1>3 DEF HandlersShaped, Idle
<1>7. FreshUncalled' /\ FreshAlone' /\ CalledStored'
  BY <1>3 DEF Crash, FreshUncalled, FreshAlone, CalledStored, Fresh, Idle, Undispatched
<1>. QED BY <1>5, <1>6, <1>7

LEMMA IndStep == IndInv /\ [Next]_vars => IndInv'
<1>. SUFFICES ASSUME IndInv, [Next]_vars PROVE IndInv' OBVIOUS
<1>1. ASSUME NEW h \in Handlers, Step(h) \/ GiveUp(h) PROVE IndInv'
  BY <1>1, TypeStep, ShapedStep, InvocationStep DEF IndInv
<1>2. CASE UNCHANGED vars
  BY <1>2 DEF vars, IndInv, TypeOK, HandlersShaped, Shaped, FreshUncalled, FreshAlone, Fresh, CalledStored
<1>. QED BY <1>1, <1>2, ArriveStep, LateStep, CrashStep DEF Next

-----------------------------------------------------------------------------
LEMMA Inductive == Spec => []IndInv
<1>1. Init => IndInv BY IndInit
<1>2. IndInv /\ [Next]_vars => IndInv' BY IndStep
<1>. QED BY <1>1, <1>2, PTL DEF Spec

\* Every variable keeps its type: rows hold only the three stored states, reservations
\* and transactions under way are well formed.
THEOREM TypeCorrect == Spec => []TypeOK
<1>1. IndInv => TypeOK BY DEF IndInv
<1>. QED BY <1>1, Inductive, PTL

\* submit (runs.rs): the provider is invoked at most once for a run identity, with any
\* number of concurrent and later retries, lost and late transactions and restarts.
THEOREM OneInvocationAlways == Spec => []OneInvocation
<1>1. IndInv => OneInvocation BY DEF IndInv, CalledStored, OneInvocation
<1>. QED BY <1>1, Inductive, PTL

-----------------------------------------------------------------------------
\* What the conversations depend on.

\* A submission whose transaction may still come: its conversation id is its own and
\* new, or exists (or did) because the request continues it.
Committing(h) == hs[h].kind = "submit" /\ hs[h].pc \in {"reserve", "tx"}
Pending == {w \in inflight : w.op = "reserve"}
Ready(p) == IF Target[p] = None THEN {"taken"} ELSE {"live", "deleted"}
CarriedConvs ==
    /\ \A h \in Handlers : hs[h].kind = "submit" /\ hs[h].pc \in {"load", "title"} =>
            hs[h].conv = Target[hs[h].pay] /\ (hs[h].pc = "title" => hs[h].conv # None)
    /\ \A h \in Handlers : Committing(h) => convs[hs[h].conv] \in Ready(hs[h].pay)
    /\ \A w \in Pending : convs[w.conv] \in Ready(w.pay)

\* Nobody else carries a new conversation id.
MintedOnce ==
    /\ \A h, k \in Handlers : Committing(h) /\ Committing(k) /\ h # k
            /\ Target[hs[h].pay] = None => hs[h].conv # hs[k].conv
    /\ \A h \in Handlers, w \in Pending : Committing(h)
            /\ (Target[hs[h].pay] = None \/ Target[w.pay] = None) => hs[h].conv # w.conv
    /\ \A v, w \in Pending : v # w /\ Target[v.pay] = None => v.conv # w.conv

\* A stored run has its conversation, and its worker works in that one, in the epoch
\* that stored it until it is spawned.
RowsHoused ==
    /\ \A q \in Requests : rows[q] # None => convs[rows[q].conv] \in {"live", "deleted"}
    /\ \A h \in Handlers : hs[h].kind = "submit" /\ Working(h) => rows[hs[h].req].conv = hs[h].conv
    /\ \A h \in Handlers : hs[h].kind = "submit" /\ hs[h].pc = "spawn" =>
            rows[hs[h].req].epoch = epoch
    /\ \A q \in Requests : <<"completed", q>> \in events => rows[q] # None

KeptInv == CarriedConvs /\ MintedOnce /\ RowsHoused /\ ConversationIsKept

\* A worker, a submission in its transaction and a deletion hold the only reservation
\* of their conversation, and a worker's conversation is its user's.
Holding(h) == Working(h) \/ hs[h].pc \in {"tx", "delete"}
HoldInv ==
    /\ \A h \in Handlers : Holding(h) =>
            \E g \in guards : g.by = h /\ g.user = hs[h].user /\ g.conv = hs[h].conv
    /\ \A f, g \in guards : f.user = g.user /\ f.conv = g.conv => f = g
    /\ \A h \in Handlers : Working(h) \/ Committing(h) \/ (hs[h].kind = "chat" /\ hs[h].pc = "reserve")
            => hs[h].conv \in Convs /\ Owner[hs[h].conv] = hs[h].user

\* While no transaction outlives its caller.
HeldInv == inflight = {} /\ RunHasConversation
-----------------------------------------------------------------------------
\* A handler that moves is not idle, and has the fields of its place.
LEMMA Moving ==
    ASSUME IndInv, NEW h \in Handlers, Step(h) \/ GiveUp(h)
    PROVE  hs[h] \in Handler /\ hs[h].pc # "idle" /\ Shaped(hs[h])
BY DEF IndInv, TypeOK, HandlersShaped, Step, GiveUp, At, Load, Title, Reserve, Busy, Poll, Transact,
       Reload, Answer, Spawn, StartWork, Dispatch, ProviderEnds, AppendReply, FailRun, SaveOutcome,
       DeleteRows

\* Who comes to commit, and what becomes of the conversations, the rows and the
\* transactions under way in a step of a handler.
LEMMA CommittingStep ==
    ASSUME IndInv, CarriedConvs, NEW h \in Handlers, Step(h) \/ GiveUp(h)
    PROVE  Committing(h)' =>
             /\ hs'[h].pay = hs[h].pay /\ UNCHANGED inflight
             /\ \/ Committing(h) /\ hs'[h].conv = hs[h].conv /\ UNCHANGED convs
                \/ /\ Target[hs[h].pay] # None /\ UNCHANGED convs
                   /\ hs'[h].conv = hs[h].conv /\ convs[hs[h].conv] = "live"
                \/ /\ Target[hs[h].pay] = None
                   /\ hs'[h].conv \in Convs /\ convs[hs'[h].conv] = "unused"
                   /\ convs' = [convs EXCEPT ![hs'[h].conv] = "taken"]
<1>. USE NoneAssumption DEF Committing, At, Goto, Return, Idle, Handler
<1>1. hs[h] \in Handler /\ hs \in [Handlers -> Handler] /\ Shaped(hs[h]) BY Moving DEF IndInv, TypeOK
<1>2. CASE Load(h)
  BY <1>1, <1>2 DEF Load, CarriedConvs
<1>3. CASE Title(h)
  BY <1>1, <1>3 DEF Title, CarriedConvs, Titled, Shaped
<1>4. CASE Reserve(h)
  <2>1. UNCHANGED <<convs, inflight>> /\ hs[h].pc = "reserve" BY <1>4 DEF Reserve
  <2>2. hs'[h].pc # "idle" => hs'[h].kind = hs[h].kind /\ hs'[h].pay = hs[h].pay /\ hs'[h].conv = hs[h].conv
    BY <1>1, <1>4 DEF Reserve
  <2>. QED BY <2>1, <2>2
<1>5. CASE Transact(h)
  BY <1>1, <1>5 DEF Transact
<1>6. CASE Busy(h) \/ Poll(h) \/ Reload(h) \/ Answer(h) \/ GiveUp(h) \/ DeleteRows(h) \/ SaveOutcome(h)
  BY <1>1, <1>6 DEF Busy, Poll, Reload, Answer, GiveUp, DeleteRows, SaveOutcome
<1>7. CASE Spawn(h) \/ StartWork(h) \/ Dispatch(h)
  BY <1>1, <1>7 DEF Spawn, StartWork, Dispatch
<1>8. CASE ProviderEnds(h) \/ AppendReply(h) \/ FailRun(h)
  BY <1>1, <1>8 DEF ProviderEnds, AppendReply, FailRun
<1>. QED BY <1>2, <1>3, <1>4, <1>5, <1>6, <1>7, <1>8 DEF Step

\* A submission is before its reservation only with the conversation its body names.
LEMMA EarlyStep ==
    ASSUME IndInv, CarriedConvs, NEW h \in Handlers, Step(h) \/ GiveUp(h),
           hs'[h].kind = "submit", hs'[h].pc \in {"load", "title"}
    PROVE  hs'[h].conv = Target[hs'[h].pay] /\ (hs'[h].pc = "title" => hs'[h].conv # None)
<1>. USE NoneAssumption DEF At, Goto, Return, Idle, Handler
<1>1. hs[h] \in Handler /\ hs \in [Handlers -> Handler] /\ Shaped(hs[h]) BY Moving DEF IndInv, TypeOK
<1>2. CASE Load(h)
  BY <1>1, <1>2 DEF Load, CarriedConvs
<1>3. CASE Title(h)
  BY <1>1, <1>3 DEF Title, CarriedConvs, Titled, Shaped
<1>4. CASE Reserve(h)
  <2>1. hs'[h].pc \notin {"load", "title"} BY <1>1, <1>4 DEF Reserve, Shaped
  <2>. QED BY <2>1
<1>5. CASE Busy(h) \/ Poll(h) \/ Reload(h) \/ Answer(h) \/ GiveUp(h) \/ DeleteRows(h) \/ SaveOutcome(h)
  BY <1>1, <1>5 DEF Busy, Poll, Reload, Answer, GiveUp, DeleteRows, SaveOutcome
<1>6. CASE Transact(h) \/ Spawn(h) \/ StartWork(h) \/ Dispatch(h)
  BY <1>1, <1>6 DEF Transact, Spawn, StartWork, Dispatch
<1>7. CASE ProviderEnds(h) \/ AppendReply(h) \/ FailRun(h)
  BY <1>1, <1>7 DEF ProviderEnds, AppendReply, FailRun
<1>. QED BY <1>2, <1>3, <1>4, <1>5, <1>6, <1>7 DEF Step

\* A new conversation id becomes live only by the commit that carries it, and a
\* conversation that existed stays existing or deleted.
LEMMA ConvsStep ==
    ASSUME IndInv, CarriedConvs, NEW h \in Handlers, Step(h) \/ GiveUp(h), NEW c \in Convs
    PROVE  /\ convs[c] = "taken" => \/ convs'[c] = "taken"
                                    \/ Committing(h) /\ Target[hs[h].pay] = None /\ c = hs[h].conv
           /\ convs[c] \in {"live", "deleted"} => convs'[c] \in {"live", "deleted"}
           /\ convs[c] = "deleted" => convs'[c] = "deleted"
<1>. USE DEF IndInv, TypeOK, At
<1>1. hs[h] \in Handler /\ Shaped(hs[h]) BY Moving
<1>2. CASE UNCHANGED convs BY <1>2
<1>3. CASE Load(h) BY <1>3 DEF Load
<1>4. CASE Title(h) BY <1>4 DEF Title
<1>5. CASE DeleteRows(h) BY <1>5 DEF DeleteRows, Titled
<1>6. CASE Transact(h) /\ CommitReserve(WriteOf(h))
  <2>1. Committing(h) BY <1>1, <1>6 DEF Transact, Shaped, Committing
  <2>2. convs' = IF Target[hs[h].pay] = None THEN [convs EXCEPT ![hs[h].conv] = "live"] ELSE convs
    BY <1>6 DEF CommitReserve, WriteOf
  <2>3. Target[hs[h].pay] = None => convs[hs[h].conv] = "taken" BY <2>1 DEF CarriedConvs, Ready
  <2>. QED BY <2>1, <2>2, <2>3
<1>7. CASE Transact(h) /\ ~CommitReserve(WriteOf(h)) BY <1>7 DEF Transact
<1>. QED BY <1>2, <1>3, <1>4, <1>5, <1>6, <1>7 DEF Step, GiveUp, Reserve, Busy, Poll, Reload, Answer,
       Spawn, StartWork, Dispatch, ProviderEnds, AppendReply, FailRun, SaveOutcome

\* A transaction joins those under way when its caller stops waiting for it.
LEMMA PendingStep ==
    ASSUME IndInv, NEW h \in Handlers, Step(h) \/ GiveUp(h)
    PROVE  \/ Pending' = Pending
           \/ /\ Pending' = Pending \cup {WriteOf(h)} /\ UNCHANGED convs
              /\ Committing(h) /\ ~Committing(h)'
<1>. USE DEF IndInv, TypeOK, At, Pending
<1>1. hs[h] \in Handler /\ Shaped(hs[h]) BY Moving
<1>2. CASE UNCHANGED inflight BY <1>2
<1>3. CASE Transact(h) /\ ~UNCHANGED inflight
  <2>1. inflight' = inflight \cup {WriteOf(h)} /\ UNCHANGED convs /\ Return(h) BY <1>3 DEF Transact
  <2>2. Committing(h) /\ ~Committing(h)'
    BY <1>1, <1>3, <2>1 DEF Transact, Shaped, Committing, Return, Idle
  <2>3. WriteOf(h).op = "reserve" BY DEF WriteOf
  <2>. QED BY <2>1, <2>2, <2>3
<1>4. CASE DeleteRows(h) BY <1>4 DEF DeleteRows
<1>. QED BY <1>2, <1>3, <1>4 DEF Step, GiveUp, Load, Title, Reserve, Busy, Poll, Reload, Answer,
       Spawn, StartWork, Dispatch, ProviderEnds, AppendReply, FailRun, SaveOutcome

LEMMA CarriedStep ==
    ASSUME IndInv, CarriedConvs, MintedOnce, NEW h \in Handlers, Step(h) \/ GiveUp(h)
    PROVE  CarriedConvs' /\ MintedOnce'
<1>1. \A k \in Handlers : k # h => hs'[k] = hs[k] BY OthersStep DEF IndInv
<1>2. \A k \in Handlers : Committing(k) => hs[k].conv \in Convs /\ hs[k].pay \in Payloads
  BY DEF IndInv, HandlersShaped, Shaped, Committing
<1>3. \A w \in Pending : w.conv \in Convs /\ w.pay \in Payloads
  BY DEF IndInv, TypeOK, Pending, Reservation, Deletion
<1>4. \A k \in Handlers : k # h => (Committing(k)' <=> Committing(k)) BY <1>1 DEF Committing
<1>5. convs \in [Convs -> {"unused", "taken", "live", "deleted"}] BY DEF IndInv, TypeOK
<1>6. ASSUME NEW k \in Handlers, Committing(k)'
      PROVE  convs'[hs'[k].conv] \in Ready(hs'[k].pay)
  <2>1. CASE k # h
    BY <1>1, <1>2, <1>4, <1>6, <2>1, ConvsStep DEF CarriedConvs, MintedOnce, Ready
  <2>2. CASE k = h
    BY <1>2, <1>5, <1>6, <2>2, CommittingStep DEF CarriedConvs, Ready
  <2>. QED BY <2>1, <2>2
<1>7. ASSUME NEW w \in Pending' PROVE convs'[w.conv] \in Ready(w.pay)
  <2>1. CASE w \in Pending
    BY <1>3, <2>1, ConvsStep DEF CarriedConvs, MintedOnce, Ready
  <2>2. CASE w = WriteOf(h) /\ Committing(h) /\ UNCHANGED convs
    BY <2>2 DEF CarriedConvs, WriteOf
  <2>. QED BY <1>7, <2>1, <2>2, PendingStep
<1>8. CarriedConvs'
  BY <1>1, <1>6, <1>7, EarlyStep DEF CarriedConvs
<1>9. ASSUME Committing(h)', NEW k \in Handlers, k # h, Committing(k),
             Target[hs'[h].pay] = None \/ Target[hs[k].pay] = None
      PROVE  hs'[h].conv # hs[k].conv
  BY <1>2, <1>5, <1>9, CommittingStep DEF CarriedConvs, MintedOnce, Ready
<1>10. ASSUME Committing(h)', NEW w \in Pending,
              Target[hs'[h].pay] = None \/ Target[w.pay] = None
       PROVE  hs'[h].conv # w.conv
  BY <1>3, <1>5, <1>10, CommittingStep DEF CarriedConvs, MintedOnce, Ready
<1>11. MintedOnce'
  <2>1. ASSUME NEW i \in Handlers, NEW k \in Handlers, Committing(i)', Committing(k)', i # k,
               Target[hs'[i].pay] = None
        PROVE  hs'[i].conv # hs'[k].conv
    BY <1>1, <1>4, <1>9, <2>1 DEF MintedOnce
  <2>2. ASSUME NEW k \in Handlers, NEW w \in Pending', Committing(k)',
               Target[hs'[k].pay] = None \/ Target[w.pay] = None
        PROVE  hs'[k].conv # w.conv
    <3>1. CASE w \in Pending BY <1>1, <1>4, <1>10, <2>2, <3>1 DEF MintedOnce
    <3>2. CASE w = WriteOf(h) /\ Committing(h) /\ ~Committing(h)'
      BY <1>1, <1>4, <2>2, <3>2 DEF MintedOnce, WriteOf
    <3>. QED BY <2>2, <3>1, <3>2, PendingStep
  <2>3. ASSUME NEW v \in Pending', NEW w \in Pending', v # w, Target[v.pay] = None
        PROVE  v.conv # w.conv
    <3>1. CASE v \in Pending /\ w \in Pending BY <2>3, <3>1 DEF MintedOnce
    <3>2. CASE v \in Pending /\ w = WriteOf(h) /\ Committing(h)
      BY <2>3, <3>2 DEF MintedOnce, WriteOf
    <3>3. CASE w \in Pending /\ v = WriteOf(h) /\ Committing(h)
      BY <2>3, <3>3 DEF MintedOnce, WriteOf
    <3>. QED BY <2>3, <3>1, <3>2, <3>3, PendingStep
  <2>. QED BY <2>1, <2>2, <2>3 DEF MintedOnce
<1>. QED BY <1>8, <1>11

-----------------------------------------------------------------------------
\* A stored run keeps its conversation and its epoch; a new one is the one a
\* submission commits, with its prompt, in a conversation no run was stored for.
LEMMA NewRow ==
    ASSUME IndInv, CarriedConvs, NEW h \in Handlers, Step(h) \/ GiveUp(h), NEW q \in Requests
    PROVE  \/ /\ rows[q] # None
              /\ rows'[q].conv = rows[q].conv /\ rows'[q].epoch = rows[q].epoch
           \/ rows[q] = None /\ rows'[q] = None
           \/ /\ rows[q] = None /\ q = hs[h].req /\ hs[h].pc = "tx" /\ Goto(h, "spawn")
              /\ CommitReserve(WriteOf(h)) /\ UNCHANGED events
              /\ rows'[q].conv = hs[h].conv /\ rows'[q].epoch = epoch
<1>. USE DEF IndInv, TypeOK, At
<1>1. hs[h] \in Handler /\ Shaped(hs[h]) BY Moving
<1>2. CASE UNCHANGED rows BY <1>2
<1>3. CASE Transact(h) /\ ~UNCHANGED rows
  <2>1. CommitReserve(WriteOf(h)) /\ hs[h].pc = "tx" /\ Goto(h, "spawn") /\ UNCHANGED events
          /\ rows[hs[h].req] = None
    BY <1>3 DEF Transact
  <2>2. hs[h].req \in Requests BY <1>1, <2>1 DEF Shaped
  <2>3. rows' = [rows EXCEPT ![hs[h].req] = [pay |-> hs[h].pay, conv |-> hs[h].conv, epoch |-> epoch,
                                            state |-> "running"]]
    BY <2>1 DEF CommitReserve, WriteOf
  <2>. QED BY <2>1, <2>2, <2>3
<1>4. CASE SaveOutcome(h) /\ hs[h].kind = "submit"
  <2>1. hs[h].req \in Requests /\ rows[hs[h].req] \in Row
    BY <1>1, <1>4 DEF SaveOutcome, Shaped, Ending
  <2>2. CASE rows' = [rows EXCEPT ![hs[h].req].state = hs[h].seen]
    BY <2>1, <2>2, NoneRowAssumption DEF Row
  <2>. QED BY <1>2, <1>4, <2>2 DEF SaveOutcome
<1>. QED BY <1>2, <1>3, <1>4 DEF Step, GiveUp, Load, Title, Reserve, Busy, Poll, Reload, Answer,
       Spawn, StartWork, Dispatch, ProviderEnds, AppendReply, FailRun, SaveOutcome, DeleteRows

\* A submission starts to work only by its commit.
LEMMA WorkingStep ==
    ASSUME IndInv, NEW h \in Handlers, Step(h) \/ GiveUp(h), hs'[h].kind = "submit", Working(h)'
    PROVE  /\ hs'[h].req = hs[h].req /\ hs'[h].conv = hs[h].conv /\ hs[h].kind = "submit"
           /\ \/ Working(h) /\ hs'[h].pc # "spawn"
              \/ At(h, "tx") /\ CommitReserve(WriteOf(h)) /\ rows[hs[h].req] = None
<1>. USE DEF At, Goto, Return, Idle, Handler, Working, Undispatched, Dispatched, Ending
<1>1. hs[h] \in Handler /\ hs \in [Handlers -> Handler] /\ Shaped(hs[h]) BY Moving DEF IndInv, TypeOK
<1>2. CASE Reserve(h)
  <2>1. hs'[h].kind = hs[h].kind /\ hs[h].kind = "submit"
    BY <1>1, <1>2 DEF Reserve
  <2>2. hs'[h].pc \in {"idle", "tx", "busy"} BY <1>1, <1>2, <2>1 DEF Reserve
  <2>. QED BY <2>2
<1>3. CASE Transact(h)
  BY <1>1, <1>3 DEF Transact
<1>4. CASE Load(h) \/ Title(h)
  BY <1>1, <1>4 DEF Load, Title
<1>5. CASE Busy(h) \/ Poll(h) \/ Reload(h) \/ Answer(h) \/ GiveUp(h) \/ DeleteRows(h) \/ SaveOutcome(h)
  BY <1>1, <1>5 DEF Busy, Poll, Reload, Answer, GiveUp, DeleteRows, SaveOutcome
<1>6. CASE Spawn(h) \/ StartWork(h) \/ Dispatch(h)
  BY <1>1, <1>6 DEF Spawn, StartWork, Dispatch
<1>7. CASE ProviderEnds(h) \/ AppendReply(h) \/ FailRun(h)
  BY <1>1, <1>7 DEF ProviderEnds, AppendReply, FailRun
<1>. QED BY <1>2, <1>3, <1>4, <1>5, <1>6, <1>7 DEF Step

\* A completion is announced with the reply in the conversation of its worker.
LEMMA CompletionStep ==
    ASSUME IndInv, NEW h \in Handlers, Step(h) \/ GiveUp(h), NEW q \in Requests,
           <<"completed", q>> \in events', <<"completed", q>> \notin events
    PROVE  /\ hs[h].pc = "append" /\ hs[h].kind = "submit" /\ q = hs[h].req
           /\ Reply(hs[h].conv, q) \in messages' /\ UNCHANGED rows
<1>1. hs[h] \in Handler /\ Shaped(hs[h]) BY Moving
<1>2. CASE AppendReply(h)
  BY <1>1, <1>2, NoneAssumption DEF AppendReply, Publish, At, Shaped, Dispatched, Undispatched, Ending
<1>3. CASE UNCHANGED events BY <1>3
<1>4. CASE Spawn(h) \/ StartWork(h) \/ FailRun(h)
  BY <1>4 DEF Spawn, StartWork, FailRun, Publish
<1>. QED BY <1>2, <1>3, <1>4 DEF Step, GiveUp, Load, Title, Reserve, Busy, Poll, Transact, Reload,
       Answer, Dispatch, ProviderEnds, SaveOutcome, DeleteRows

\* Messages leave a conversation only with the conversation.
LEMMA MessagesStep ==
    ASSUME IndInv, CarriedConvs, NEW h \in Handlers, Step(h) \/ GiveUp(h),
           NEW c \in Convs, convs'[c] = "live", convs[c] = "live",
           NEW m \in messages, m.conv = c
    PROVE  m \in messages'
<1>1. CASE DeleteRows(h)
  BY <1>1 DEF DeleteRows, Titled, IndInv, TypeOK
<1>2. CASE Transact(h) BY <1>2 DEF Transact, CommitReserve
<1>3. CASE StartWork(h) \/ AppendReply(h) BY <1>3 DEF StartWork, AppendReply
<1>4. CASE UNCHANGED messages BY <1>4
<1>. QED BY <1>1, <1>2, <1>3, <1>4 DEF Step, GiveUp, Load, Title, Reserve, Busy, Poll, Reload,
       Answer, Spawn, Dispatch, ProviderEnds, FailRun, SaveOutcome

LEMMA HousedStep ==
    ASSUME IndInv, KeptInv, NEW h \in Handlers, Step(h) \/ GiveUp(h)
    PROVE  RowsHoused'
<1>. USE DEF KeptInv
<1>1. \A k \in Handlers : k # h => hs'[k] = hs[k] BY OthersStep DEF IndInv
<1>2. \A q \in Requests : rows[q] # None => rows[q].conv \in Convs BY DEF IndInv, TypeOK, Row
<1>3. UNCHANGED epoch
  BY DEF Step, GiveUp, Load, Title, Reserve, Busy, Poll, Transact, Reload, Answer, Spawn,
       StartWork, Dispatch, ProviderEnds, AppendReply, FailRun, SaveOutcome, DeleteRows
<1>4. \A k \in Handlers : hs[k].kind = "submit" /\ Working(k) => hs[k].req \in Requests /\ rows[hs[k].req] # None
  BY DEF IndInv, HandlersShaped, Shaped, Working, Undispatched, Dispatched, Ending
<1>5. ASSUME NEW q \in Requests, rows'[q] # None PROVE convs'[rows'[q].conv] \in {"live", "deleted"}
  <2>1. CASE rows[q] # None BY <1>2, <2>1, NewRow, ConvsStep DEF RowsHoused
  <2>2. CASE rows[q] = None
    <3>1. /\ q = hs[h].req /\ hs[h].pc = "tx" /\ CommitReserve(WriteOf(h))
          /\ rows'[q].conv = hs[h].conv BY <1>5, <2>2, NewRow
    <3>2. Committing(h) /\ hs[h].conv \in Convs
      BY <3>1, Moving DEF Committing, Shaped
    <3>3. convs' = IF Target[hs[h].pay] = None THEN [convs EXCEPT ![hs[h].conv] = "live"] ELSE convs
      BY <3>1 DEF CommitReserve, WriteOf
    <3>. QED BY <3>1, <3>2, <3>3 DEF CarriedConvs, Ready, IndInv, TypeOK
  <2>. QED BY <2>1, <2>2
<1>6. ASSUME NEW k \in Handlers, hs'[k].kind = "submit", Working(k)'
      PROVE  /\ rows'[hs'[k].req].conv = hs'[k].conv
             /\ hs'[k].pc = "spawn" => rows'[hs'[k].req].epoch = epoch
  <2>1. CASE k # h \/ (Working(k) /\ k = h /\ hs'[h].pc # "spawn")
    <3>1. /\ hs'[k].req = hs[k].req /\ hs'[k].conv = hs[k].conv /\ hs[k].kind = "submit" /\ Working(k)
          /\ hs'[k].pc = "spawn" => hs[k].pc = "spawn"
      BY <1>1, <1>6, <2>1, WorkingStep DEF Working
    <3>. QED BY <1>4, <3>1, NewRow DEF RowsHoused
  <2>2. CASE k = h /\ ~(Working(h) /\ hs'[h].pc # "spawn")
    <3>1. /\ hs'[h].req = hs[h].req /\ hs'[h].conv = hs[h].conv /\ hs[h].pc = "tx"
          /\ CommitReserve(WriteOf(h))
      BY <1>6, <2>2, WorkingStep DEF At
    <3>2. hs[h].req \in Requests BY <3>1, Moving DEF Shaped
    <3>3. rows' = [rows EXCEPT ![hs[h].req] = [pay |-> hs[h].pay, conv |-> hs[h].conv, epoch |-> epoch,
                                            state |-> "running"]]
      BY <3>1 DEF CommitReserve, WriteOf
    <3>. QED BY <2>2, <3>1, <3>2, <3>3 DEF IndInv, TypeOK
  <2>. QED BY <2>1, <2>2
<1>7. ASSUME NEW q \in Requests, <<"completed", q>> \in events' PROVE rows'[q] # None
  <2>1. CASE <<"completed", q>> \in events
    <3>1. rows[q] # None BY <2>1 DEF RowsHoused
    <3>. QED BY <3>1, RowsStep DEF IndInv
  <2>2. CASE <<"completed", q>> \notin events
    BY <1>4, <1>7, <2>2, CompletionStep DEF Working, Dispatched
  <2>. QED BY <2>1, <2>2
<1>8. \A k \in Handlers : hs'[k].pc = "spawn" => Working(k)' BY DEF Working, Undispatched
<1>. QED BY <1>3, <1>5, <1>6, <1>7, <1>8 DEF RowsHoused

LEMMA KeptStep ==
    ASSUME IndInv, KeptInv, NEW h \in Handlers, Step(h) \/ GiveUp(h)
    PROVE  ConversationIsKept'
<1>. USE DEF KeptInv, ConversationIsKept
<1>1. \A q \in Requests : rows[q] # None => rows[q].conv \in Convs BY DEF IndInv, TypeOK, Row
<1>2. ASSUME NEW q \in Requests, rows[q] # None, convs'[rows'[q].conv] = "live"
      PROVE  rows'[q].conv = rows[q].conv /\ convs[rows[q].conv] = "live"
  BY <1>1, <1>2, NewRow, ConvsStep DEF RowsHoused
<1>3. PromptKept'
  <2>1. ASSUME NEW q \in Requests, rows'[q] # None, convs'[rows'[q].conv] = "live"
        PROVE  Prompt(rows'[q].conv, q) \in messages'
    <3>1. CASE rows[q] # None
      BY <1>1, <1>2, <2>1, <3>1, MessagesStep DEF PromptKept, Prompt
    <3>2. CASE rows[q] = None
      BY <2>1, <3>2, NewRow DEF CommitReserve, WriteOf
    <3>. QED BY <3>1, <3>2
  <2>. QED BY <2>1 DEF PromptKept, Prompt
<1>4. CompletedIsStored'
  <2>1. ASSUME NEW q \in Requests, <<"completed", q>> \in events', convs'[rows'[q].conv] = "live"
        PROVE  Reply(rows'[q].conv, q) \in messages'
    <3>1. CASE <<"completed", q>> \in events
      <4>1. rows[q] # None BY <3>1 DEF RowsHoused
      <4>. QED BY <1>1, <1>2, <2>1, <3>1, <4>1, MessagesStep DEF CompletedIsStored, Reply
    <3>2. CASE <<"completed", q>> \notin events
      <4>1. /\ Working(h) /\ hs[h].kind = "submit" /\ q = hs[h].req
            /\ Reply(hs[h].conv, q) \in messages' /\ UNCHANGED rows
        BY <2>1, <3>2, CompletionStep DEF Working, Dispatched
      <4>. QED BY <4>1 DEF RowsHoused
    <3>. QED BY <3>1, <3>2
  <2>. QED BY <2>1 DEF CompletedIsStored, Reply
<1>. QED BY <1>3, <1>4

-----------------------------------------------------------------------------
\* A request arrives: it works nowhere yet, and a submission does not commit yet.
LEMMA Arriving ==
    ASSUME IndInv, NEW h \in Handlers,
           \/ \E q \in Requests, p \in Payloads : Submit(h, q, p)
           \/ \E q \in Requests : Status(h, q)
           \/ \E u \in Users, p \in Payloads : Chat(h, u, p)
           \/ \E u \in Users, c \in Convs : Delete(h, u, c)
    PROVE  /\ \A k \in Handlers : k # h => hs'[k] = hs[k]
           /\ hs'[h].pc \in {"load", "title", "reserve"}
           /\ hs'[h].pc = "reserve" => hs'[h].kind = "delete"
           /\ hs'[h].kind = "submit" => hs'[h].pc = "load" /\ hs'[h].conv = Target[hs'[h].pay]
           /\ UNCHANGED <<epoch, rows, convs, messages, guards, inflight, calls, events, told>>
BY DEF IndInv, TypeOK, Submit, Status, Chat, Delete

LEMMA KeptArrive ==
    ASSUME IndInv, KeptInv, NEW h \in Handlers,
           /\ \A k \in Handlers : k # h => hs'[k] = hs[k]
           /\ hs'[h].pc \in {"load", "title", "reserve"}
           /\ hs'[h].pc = "reserve" => hs'[h].kind = "delete"
           /\ hs'[h].kind = "submit" => hs'[h].pc = "load" /\ hs'[h].conv = Target[hs'[h].pay]
           /\ UNCHANGED <<epoch, rows, convs, messages, guards, inflight, calls, events, told>>
    PROVE  KeptInv'
<1>1. ~Committing(h)' /\ \A k \in Handlers : k # h => (Committing(k)' <=> Committing(k))
  BY DEF Committing
<1>2. ~Working(h)' /\ \A k \in Handlers : k # h => (Working(k)' <=> Working(k))
  BY DEF Working, Undispatched, Dispatched, Ending
<1>3. Pending' = Pending BY DEF Pending
<1>4. CarriedConvs' BY <1>1, <1>3 DEF KeptInv, CarriedConvs, Ready
<1>5. MintedOnce' BY <1>1, <1>3 DEF KeptInv, MintedOnce
<1>6. RowsHoused' BY <1>2 DEF KeptInv, RowsHoused
<1>7. ConversationIsKept' BY DEF KeptInv, ConversationIsKept, PromptKept, CompletedIsStored
<1>. QED BY <1>4, <1>5, <1>6, <1>7 DEF KeptInv

\* A transaction commits after its caller stopped waiting.
LEMMA KeptLate ==
    ASSUME IndInv, KeptInv, NEW w \in inflight, LateCommit(w)
    PROVE  KeptInv'
<1>. USE DEF KeptInv
<1>1. UNCHANGED <<epoch, guards, hs, events>> /\ inflight' = inflight \ {w} BY DEF LateCommit
<1>2. Pending' \subseteq Pending /\ w \notin Pending' BY <1>1 DEF Pending
<1>3. \A h \in Handlers : (Committing(h)' <=> Committing(h)) /\ (Working(h)' <=> Working(h))
  BY <1>1 DEF Committing, Working
<1>4. \A v \in Pending : v.conv \in Convs /\ v.pay \in Payloads /\ v.req \in Requests
  BY DEF IndInv, TypeOK, Pending, Reservation, Deletion
<1>5. \A h \in Handlers : Committing(h) => hs[h].conv \in Convs /\ hs[h].pay \in Payloads
  BY DEF IndInv, HandlersShaped, Shaped, Committing
<1>6. \A q \in Requests : rows[q] # None => rows[q].conv \in Convs BY DEF IndInv, TypeOK, Row
<1>7. \A h \in Handlers : hs[h].kind = "submit" /\ Working(h) => hs[h].req \in Requests /\ rows[hs[h].req] # None
  BY DEF IndInv, HandlersShaped, Shaped, Working, Undispatched, Dispatched, Ending
<1>8. MintedOnce' BY <1>1, <1>2, <1>3 DEF MintedOnce
<1>9. \A h \in Handlers : hs[h].pc = "spawn" => Working(h) BY DEF Working, Undispatched
<1>10. convs \in [Convs -> {"unused", "taken", "live", "deleted"}] /\ rows \in [Requests -> Row \cup {None}]
  BY DEF IndInv, TypeOK
<1>11. CASE UNCHANGED <<rows, convs, messages>>
  <2>1. CarriedConvs' BY <1>1, <1>2, <1>3, <1>11 DEF CarriedConvs, Ready
  <2>2. RowsHoused' BY <1>1, <1>3, <1>11 DEF RowsHoused
  <2>3. ConversationIsKept' BY <1>1, <1>11 DEF ConversationIsKept, PromptKept, CompletedIsStored
  <2>. QED BY <1>8, <2>1, <2>2, <2>3
<1>12. CASE /\ UNCHANGED rows
            /\ convs' = IF Titled(w.user, w.conv) THEN [convs EXCEPT ![w.conv] = "deleted"] ELSE convs
            /\ messages' = IF Owner[w.conv] = w.user THEN {m \in messages : m.conv # w.conv} ELSE messages
  <2>1. \A c \in Convs : convs'[c] = convs[c] \/ (convs[c] = "live" /\ convs'[c] = "deleted")
    BY <1>10, <1>12 DEF Titled
  <2>2. \A c \in Convs, m \in messages : convs'[c] = "live" /\ m.conv = c => m \in messages'
    BY <1>10, <1>12 DEF Titled
  <2>3. CarriedConvs' BY <1>1, <1>2, <1>3, <1>4, <1>5, <2>1 DEF CarriedConvs, Ready
  <2>4. RowsHoused' BY <1>1, <1>3, <1>6, <1>12, <2>1 DEF RowsHoused
  <2>5. \A q \in Requests : rows[q] # None /\ convs'[rows[q].conv] = "live" => convs[rows[q].conv] = "live"
    BY <1>6, <2>1
  <2>6. PromptKept' BY <1>6, <1>12, <2>2, <2>5 DEF ConversationIsKept, PromptKept, Prompt
  <2>7. CompletedIsStored'
    BY <1>1, <1>6, <1>12, <2>2, <2>5 DEF ConversationIsKept, CompletedIsStored, RowsHoused, Reply
  <2>. QED BY <1>8, <2>3, <2>4, <2>6, <2>7 DEF ConversationIsKept
<1>13. CASE w.op = "reserve" /\ rows[w.req] = None /\ CommitReserve(w)
  <2>. DEFINE row == [pay |-> w.pay, conv |-> w.conv, epoch |-> w.epoch, state |-> "running"]
  <2>1. w \in Pending BY <1>13 DEF Pending
  <2>2. /\ rows' = [rows EXCEPT ![w.req] = row] /\ messages \subseteq messages'
        /\ Prompt(w.conv, w.req) \in messages'
        /\ convs' = IF Target[w.pay] = None THEN [convs EXCEPT ![w.conv] = "live"] ELSE convs
    BY <1>13 DEF CommitReserve
  <2>3. convs[w.conv] \in Ready(w.pay) BY <2>1 DEF CarriedConvs
  <2>4. \A c \in Convs : convs'[c] = convs[c] \/ (c = w.conv /\ convs[c] = "taken" /\ convs'[c] = "live"
                                                  /\ Target[w.pay] = None)
    BY <1>10, <2>2, <2>3 DEF Ready
  <2>5. convs'[w.conv] \in {"live", "deleted"} BY <1>4, <1>10, <2>1, <2>2, <2>3 DEF Ready
  <2>6. \A q \in Requests : q # w.req => rows'[q] = rows[q] BY <1>10, <2>2
  <2>7. rows'[w.req] = row /\ row.conv = w.conv BY <1>4, <1>10, <2>1, <2>2
  <2>8. CarriedConvs'
    <3>1. \A h \in Handlers : Committing(h) => convs'[hs[h].conv] \in Ready(hs[h].pay)
      BY <1>5, <2>1, <2>4 DEF CarriedConvs, MintedOnce, Ready
    <3>2. \A v \in Pending' : convs'[v.conv] \in Ready(v.pay)
      BY <1>2, <1>4, <2>1, <2>4 DEF CarriedConvs, MintedOnce, Ready
    <3>. QED BY <1>1, <1>3, <3>1, <3>2 DEF CarriedConvs, Ready
  <2>9. RowsHoused'
    <3>1. \A q \in Requests : rows'[q] # None => convs'[rows'[q].conv] \in {"live", "deleted"}
      BY <1>6, <2>4, <2>5, <2>6, <2>7 DEF RowsHoused
    <3>2. \A h \in Handlers : hs[h].kind = "submit" /\ Working(h) => rows'[hs[h].req] = rows[hs[h].req]
      BY <1>7, <1>13, <2>6
    <3>3. \A q \in Requests : <<"completed", q>> \in events => rows'[q] # None
      BY <1>13, <2>6 DEF RowsHoused
    <3>. QED BY <1>1, <1>3, <1>9, <3>1, <3>2, <3>3 DEF RowsHoused
  <2>10. \A q \in Requests : rows[q] # None =>
            rows'[q] = rows[q] /\ (convs'[rows[q].conv] = "live" => convs[rows[q].conv] = "live")
    BY <1>6, <1>13, <2>4, <2>6 DEF RowsHoused
  <2>11. PromptKept'
    BY <2>2, <2>6, <2>7, <2>10 DEF ConversationIsKept, PromptKept, Prompt
  <2>12. CompletedIsStored'
    BY <1>1, <2>2, <2>10 DEF ConversationIsKept, CompletedIsStored, RowsHoused, Reply
  <2>. QED BY <1>8, <2>8, <2>9, <2>11, <2>12 DEF ConversationIsKept
<1>. QED BY <1>11, <1>12, <1>13 DEF LateCommit

\* The Core starts again: every transaction under way may still commit.
LEMMA KeptCrash ==
    ASSUME IndInv, KeptInv, Crash
    PROVE  KeptInv'
<1>. USE DEF KeptInv
<1>1. /\ UNCHANGED <<rows, convs, messages, events>> /\ \A h \in Handlers : hs'[h] = Idle
      /\ inflight' = inflight \cup {WriteOf(h) : h \in {k \in Handlers : At(k, "tx")}}
           \cup {[op |-> "delete", user |-> hs[h].user, conv |-> hs[h].conv] :
                    h \in {k \in Handlers : At(k, "delete")}}
  BY DEF Crash
<1>2. \A h \in Handlers : ~Committing(h)' /\ ~Working(h)'
  BY <1>1 DEF Committing, Working, Idle, Undispatched, Dispatched, Ending
<1>3. ASSUME NEW w \in Pending'
      PROVE  w \in Pending \/ \E h \in Handlers : Committing(h) /\ w = WriteOf(h)
  <2>1. \A h \in Handlers : At(h, "tx") => Committing(h)
    BY DEF IndInv, HandlersShaped, Shaped, At, Committing
  <2>. QED BY <1>1, <1>3, <2>1 DEF Pending
<1>4. CarriedConvs'
  <2>1. \A h \in Handlers : WriteOf(h).conv = hs[h].conv /\ WriteOf(h).pay = hs[h].pay BY DEF WriteOf
  <2>. QED BY <1>1, <1>2, <1>3, <2>1 DEF CarriedConvs, Ready, Idle
<1>5. MintedOnce'
  <2>1. \A h \in Handlers : WriteOf(h).conv = hs[h].conv /\ WriteOf(h).pay = hs[h].pay BY DEF WriteOf
  <2>2. ASSUME NEW v \in Pending', NEW w \in Pending', v # w, Target[v.pay] = None
        PROVE  v.conv # w.conv
    BY <1>3, <2>1, <2>2 DEF MintedOnce
  <2>. QED BY <1>2, <2>2 DEF MintedOnce
<1>6. RowsHoused' BY <1>1, <1>2 DEF RowsHoused, Idle
<1>7. ConversationIsKept' BY <1>1 DEF ConversationIsKept, PromptKept, CompletedIsStored
<1>. QED BY <1>4, <1>5, <1>6, <1>7

LEMMA KeptAlways == Spec => []KeptInv
<1>1. Init => KeptInv
  BY DEF Init, KeptInv, CarriedConvs, MintedOnce, RowsHoused, ConversationIsKept, PromptKept,
         CompletedIsStored, Committing, Pending, Working, Undispatched, Dispatched, Ending, Idle
<1>2. IndInv /\ KeptInv /\ [Next]_vars => KeptInv'
  <2>. SUFFICES ASSUME IndInv, KeptInv, [Next]_vars PROVE KeptInv' OBVIOUS
  <2>1. ASSUME NEW h \in Handlers, Step(h) \/ GiveUp(h) PROVE KeptInv'
    BY <2>1, CarriedStep, HousedStep, KeptStep DEF KeptInv
  <2>2. CASE UNCHANGED vars
    BY <2>2 DEF vars, KeptInv, CarriedConvs, Ready, MintedOnce, RowsHoused, ConversationIsKept,
                PromptKept, CompletedIsStored, Committing, Pending, Working
  <2>3. ASSUME NEW h \in Handlers,
               \/ \E q \in Requests, p \in Payloads : Submit(h, q, p)
               \/ \E q \in Requests : Status(h, q)
               \/ \E u \in Users, p \in Payloads : Chat(h, u, p)
               \/ \E u \in Users, c \in Convs : Delete(h, u, c)
        PROVE  KeptInv'
    BY <2>3, Arriving, KeptArrive
  <2>. QED BY <2>1, <2>2, <2>3, KeptLate, KeptCrash DEF Next
<1>. QED BY <1>1, <1>2, Inductive, PTL DEF Spec

\* What a client was promised is in the conversation as long as it exists: the prompt
\* of every stored run and the reply of every run announced as completed, whatever
\* was retried, lost, committed late, deleted or cut off by a restart (runs.rs).
THEOREM ConversationIsKeptAlways == Spec => []ConversationIsKept
<1>1. KeptInv => ConversationIsKept BY DEF KeptInv
<1>. QED BY <1>1, KeptAlways, PTL

\* response() and submit (runs.rs): a run stored by an earlier start of the Core is
\* never reported as running.
THEOREM OldEpochNeverRunsAlways == Spec => OldEpochNeverRuns
<1>1. ASSUME IndInv, KeptInv, [Next]_vars, NEW q \in Requests, ToldRunning(q)
      PROVE  rows'[q].epoch = epoch'
  <2>1. ~UNCHANGED told BY <1>1 DEF ToldRunning
  <2>2. PICK h \in Handlers : Answer(h) \/ Spawn(h)
    <3>1. ASSUME NEW h \in Handlers, Step(h), ~Answer(h), ~Spawn(h) PROVE UNCHANGED told
      BY <3>1 DEF Step, Load, Title, Reserve, Busy, Poll, Transact, Reload, StartWork, Dispatch,
           ProviderEnds, AppendReply, FailRun, SaveOutcome, DeleteRows
    <3>2. ASSUME NEW h \in Handlers, GiveUp(h) PROVE UNCHANGED told BY <3>2 DEF GiveUp
    <3>. QED BY <1>1, <2>1, <3>1, <3>2 DEF Next, vars, Submit, Status, Chat, Delete, LateCommit, Crash
  <2>3. told \in [Requests -> {"none", "running", "completed", "failed", "interrupted"}]
    BY <1>1 DEF IndInv, TypeOK
  <2>4. CASE Answer(h)
    <3>1. hs[h].req = q /\ Reported(q, hs[h].seen) = "running" /\ UNCHANGED <<rows, epoch>>
      BY <1>1, <2>3, <2>4 DEF Answer, ToldRunning
    <3>. QED BY <3>1 DEF Reported
  <2>5. CASE Spawn(h)
    <3>1. hs[h].req = q /\ hs[h].pc = "spawn" /\ UNCHANGED <<rows, epoch>>
      BY <1>1, <2>3, <2>5 DEF Spawn, ToldRunning, At
    <3>2. hs[h].kind = "submit"
      BY <1>1, <3>1, NoneAssumption DEF IndInv, HandlersShaped, Shaped, Undispatched
    <3>. QED BY <1>1, <3>1, <3>2 DEF KeptInv, RowsHoused
  <2>. QED BY <2>2, <2>4, <2>5
<1>2. IndInv /\ KeptInv /\ [Next]_vars => EpochStep BY <1>1 DEF EpochStep
<1>. QED BY <1>2, Inductive, KeptAlways, PTL DEF Spec, OldEpochNeverRuns

-----------------------------------------------------------------------------
\* The reservations: a handler takes one for the conversation it is in, no second one
\* is given for the same user and conversation, and none but its own is dropped.
LEMMA GuardsStep ==
    ASSUME IndInv, NEW h \in Handlers, Step(h) \/ GiveUp(h)
    PROVE  \/ guards' = guards
           \/ guards' = Free(h) /\ hs'[h] = Idle
           \/ /\ guards' = guards \cup {Held(h, hs[h].req)} /\ Room(hs[h].user, hs[h].conv)
              /\ hs[h].pc = "reserve"
<1>1. hs \in [Handlers -> Handler] BY DEF IndInv, TypeOK
<1>2. Return(h) => guards' = Free(h) /\ hs'[h] = Idle BY <1>1 DEF Return
<1>3. CASE Reserve(h) BY <1>2, <1>3 DEF Reserve, At
<1>. QED BY <1>2, <1>3 DEF Step, GiveUp, Load, Title, Busy, Poll, Transact, Reload, Answer, Spawn,
       StartWork, Dispatch, ProviderEnds, AppendReply, FailRun, SaveOutcome, DeleteRows

\* Where a handler comes to hold a conversation.
LEMMA HoldingStep ==
    ASSUME IndInv, NEW h \in Handlers, Step(h) \/ GiveUp(h), Holding(h)'
    PROVE  /\ hs'[h].user = hs[h].user /\ hs'[h].conv = hs[h].conv
           /\ \/ Holding(h) /\ guards' = guards
              \/ guards' = guards \cup {Held(h, hs[h].req)}
<1>. USE DEF At, Goto, Return, Idle, Handler, Holding, Working, Undispatched, Dispatched, Ending
<1>1. hs[h] \in Handler /\ hs \in [Handlers -> Handler] /\ Shaped(hs[h]) BY Moving DEF IndInv, TypeOK
<1>2. CASE Reserve(h)
  <2>1. hs[h].kind \in {"submit", "chat", "delete"} BY <1>1, <1>2 DEF Reserve, Shaped
  <2>2. \/ Return(h) \/ Goto(h, "busy")
        \/ /\ \E pc \in {"tx", "spawn", "delete"} : Goto(h, pc)
           /\ guards' = guards \cup {Held(h, hs[h].req)}
    <3>. HIDE DEF Return, Goto
    <3>. QED BY <1>2, <2>1 DEF Reserve
  <2>. QED BY <1>1, <2>2
<1>3. CASE Transact(h)
  BY <1>1, <1>3 DEF Transact
<1>4. CASE Load(h) \/ Title(h)
  BY <1>1, <1>4 DEF Load, Title
<1>5. CASE Busy(h) \/ Poll(h) \/ Reload(h) \/ Answer(h) \/ GiveUp(h) \/ DeleteRows(h) \/ SaveOutcome(h)
  BY <1>1, <1>5 DEF Busy, Poll, Reload, Answer, GiveUp, DeleteRows, SaveOutcome
<1>6. CASE Spawn(h) \/ StartWork(h) \/ Dispatch(h)
  BY <1>1, <1>6 DEF Spawn, StartWork, Dispatch
<1>7. CASE ProviderEnds(h) \/ AppendReply(h) \/ FailRun(h)
  BY <1>1, <1>7 DEF ProviderEnds, AppendReply, FailRun
<1>. QED BY <1>2, <1>3, <1>4, <1>5, <1>6, <1>7 DEF Step

\* A handler that works, or goes to, does so in a conversation of its user: the one it
\* found there, or the one it made.
OwnPlace(h) == Working(h) \/ Committing(h) \/ (hs[h].kind = "chat" /\ hs[h].pc = "reserve")

LEMMA OwnStep ==
    ASSUME IndInv, HoldInv, NEW h \in Handlers, Step(h) \/ GiveUp(h), OwnPlace(h)'
    PROVE  hs'[h].conv \in Convs /\ Owner[hs'[h].conv] = hs'[h].user
<1>. USE DEF At, Goto, Return, Idle, Handler, OwnPlace, Committing, Working, Undispatched, Dispatched, Ending
<1>1. hs[h] \in Handler /\ hs \in [Handlers -> Handler] /\ Shaped(hs[h]) BY Moving DEF IndInv, TypeOK
<1>2. CASE Load(h)
  BY <1>1, <1>2 DEF Load
<1>3. CASE Title(h)
  BY <1>1, <1>3, NoneAssumption DEF Title, Titled
<1>4. CASE OwnPlace(h) /\ hs'[h].user = hs[h].user /\ hs'[h].conv = hs[h].conv
  BY <1>4 DEF HoldInv
<1>5. CASE Reserve(h)
  <2>1. hs'[h].pc = "idle" \/ (hs'[h].user = hs[h].user /\ hs'[h].conv = hs[h].conv /\ hs'[h].kind = hs[h].kind)
    BY <1>1, <1>5 DEF Reserve
  <2>2. hs[h].pc = "reserve" /\ hs[h].kind \in {"submit", "chat", "delete"} BY <1>1, <1>5 DEF Reserve, Shaped
  <2>3. hs[h].kind = "delete" => hs'[h].pc \in {"idle", "delete"} BY <1>1, <1>5, <2>2 DEF Reserve
  <2>. QED BY <1>4, <2>1, <2>2, <2>3
<1>6. CASE Transact(h)
  BY <1>1, <1>4, <1>6 DEF Transact, Shaped
<1>7. CASE Busy(h) \/ Poll(h) \/ Reload(h) \/ Answer(h) \/ GiveUp(h) \/ DeleteRows(h) \/ SaveOutcome(h)
  BY <1>1, <1>7 DEF Busy, Poll, Reload, Answer, GiveUp, DeleteRows, SaveOutcome
<1>8. CASE Spawn(h) \/ StartWork(h) \/ Dispatch(h)
  BY <1>1, <1>4, <1>8 DEF Spawn, StartWork, Dispatch
<1>9. CASE ProviderEnds(h) \/ AppendReply(h) \/ FailRun(h)
  BY <1>1, <1>4, <1>9 DEF ProviderEnds, AppendReply, FailRun
<1>. QED BY <1>2, <1>3, <1>5, <1>6, <1>7, <1>8, <1>9 DEF Step

LEMMA HoldStep ==
    ASSUME IndInv, HoldInv, NEW h \in Handlers, Step(h) \/ GiveUp(h)
    PROVE  HoldInv'
<1>1. \A k \in Handlers : k # h => hs'[k] = hs[k] BY OthersStep DEF IndInv
<1>2. \A k \in Handlers : k # h => (Holding(k)' <=> Holding(k)) /\ (OwnPlace(k)' <=> OwnPlace(k))
  BY <1>1 DEF Holding, Working, OwnPlace, Committing
<1>3. ASSUME NEW k \in Handlers, Holding(k)'
      PROVE  \E g \in guards' : g.by = k /\ g.user = hs'[k].user /\ g.conv = hs'[k].conv
  <2>1. CASE k # h
    <3>1. PICK g \in guards : g.by = k /\ g.user = hs[k].user /\ g.conv = hs[k].conv
      BY <1>2, <1>3, <2>1 DEF HoldInv
    <3>2. g \in guards' BY <2>1, <3>1, GuardsStep DEF Free
    <3>. QED BY <1>1, <2>1, <3>1, <3>2
  <2>2. CASE k = h
    <3>1. Held(h, hs[h].req).by = h /\ Held(h, hs[h].req).user = hs[h].user
            /\ Held(h, hs[h].req).conv = hs[h].conv BY DEF Held
    <3>. QED BY <1>3, <2>2, <3>1, HoldingStep DEF HoldInv
  <2>. QED BY <2>1, <2>2
<1>4. ASSUME NEW f \in guards', NEW g \in guards', f.user = g.user, f.conv = g.conv PROVE f = g
  <2>1. CASE guards' \subseteq guards BY <1>4, <2>1 DEF HoldInv
  <2>2. CASE guards' = guards \cup {Held(h, hs[h].req)} /\ Room(hs[h].user, hs[h].conv)
    <3>1. Held(h, hs[h].req).user = hs[h].user /\ Held(h, hs[h].req).conv = hs[h].conv BY DEF Held
    <3>2. \A x \in guards : ~(x.user = hs[h].user /\ x.conv = hs[h].conv) BY <2>2 DEF Room
    <3>. QED BY <1>4, <2>2, <3>1, <3>2 DEF HoldInv
  <2>. QED BY <2>1, <2>2, GuardsStep DEF Free
<1>5. \A k \in Handlers : OwnPlace(k)' => hs'[k].conv \in Convs /\ Owner[hs'[k].conv] = hs'[k].user
  BY <1>1, <1>2, OwnStep DEF HoldInv, OwnPlace
<1>. QED BY <1>3, <1>4, <1>5 DEF HoldInv, OwnPlace

LEMMA HoldAlways == Spec => []HoldInv
<1>1. Init => HoldInv
  BY DEF Init, HoldInv, Holding, Working, Committing, Undispatched, Dispatched, Ending, Idle
<1>2. IndInv /\ HoldInv /\ [Next]_vars => HoldInv'
  <2>. SUFFICES ASSUME IndInv, HoldInv, [Next]_vars PROVE HoldInv' OBVIOUS
  <2>1. ASSUME NEW h \in Handlers,
               \/ \E q \in Requests, p \in Payloads : Submit(h, q, p)
               \/ \E q \in Requests : Status(h, q)
               \/ \E u \in Users, p \in Payloads : Chat(h, u, p)
               \/ \E u \in Users, c \in Convs : Delete(h, u, c)
        PROVE  HoldInv'
    <3>1. UNCHANGED guards /\ \A k \in Handlers : k # h => hs'[k] = hs[k] BY <2>1, Arriving
    <3>2. ~Holding(h)' /\ ~OwnPlace(h)'
      BY <2>1, Arriving DEF Holding, OwnPlace, Working, Committing, Undispatched, Dispatched, Ending
    <3>3. \A k \in Handlers : k # h => (Holding(k)' <=> Holding(k)) /\ (OwnPlace(k)' <=> OwnPlace(k))
      BY <3>1 DEF Holding, Working, OwnPlace, Committing
    <3>. QED BY <3>1, <3>2, <3>3 DEF HoldInv, OwnPlace
  <2>2. CASE Crash
    <3>1. guards' = {} /\ \A k \in Handlers : hs'[k] = Idle BY <2>2 DEF Crash
    <3>2. \A k \in Handlers : ~Holding(k)' /\ ~OwnPlace(k)'
      BY <3>1 DEF Holding, OwnPlace, Working, Committing, Undispatched, Dispatched, Ending, Idle
    <3>. QED BY <3>1, <3>2 DEF HoldInv, OwnPlace
  <2>3. CASE UNCHANGED <<hs, guards>>
    BY <2>3 DEF HoldInv, Holding, Working, Committing
  <2>. QED BY <2>1, <2>2, <2>3, HoldStep DEF Next, vars, LateCommit
<1>. QED BY <1>1, <1>2, Inductive, PTL DEF Spec

\* The run reservations (hub.rs) keep workers apart: no two, of runs or of chats, ever
\* work in one conversation, under every fault.
THEOREM OneRunPerConversationAlways == Spec => []OneRunPerConversation
<1>1. IndInv /\ HoldInv => OneRunPerConversation
  <2>. SUFFICES ASSUME HoldInv, NEW h \in Handlers, NEW k \in Handlers, Working(h), Working(k),
                       hs[h].conv = hs[k].conv
                PROVE  h = k
    BY DEF OneRunPerConversation
  <2>1. hs[h].user = hs[k].user BY DEF HoldInv
  <2>2. PICK f \in guards : f.by = h /\ f.user = hs[h].user /\ f.conv = hs[h].conv
    BY DEF HoldInv, Holding
  <2>3. PICK g \in guards : g.by = k /\ g.user = hs[k].user /\ g.conv = hs[k].conv
    BY DEF HoldInv, Holding
  <2>. QED BY <2>1, <2>2, <2>3 DEF HoldInv
<1>. QED BY <1>1, Inductive, HoldAlways, PTL

\* Without transactions that outlive their caller, nobody deletes a conversation whose
\* reservation a run holds.
LEMMA HeldStep ==
    ASSUME Kinds \cap {"lost", "crash"} = {}, IndInv, KeptInv, HoldInv, HeldInv, [Next]_vars
    PROVE  HeldInv'
<1>1. inflight' = {}
  <2>1. ASSUME NEW h \in Handlers, Step(h) PROVE UNCHANGED inflight
    BY <2>1 DEF Step, Load, Title, Reserve, Busy, Poll, Transact, Reload, Answer, Spawn, StartWork,
         Dispatch, ProviderEnds, AppendReply, FailRun, SaveOutcome, DeleteRows
  <2>2. ASSUME NEW h \in Handlers, GiveUp(h) PROVE UNCHANGED inflight BY <2>2 DEF GiveUp
  <2>. QED BY <2>1, <2>2 DEF HeldInv, Next, vars, Submit, Status, Chat, Delete, LateCommit, Crash
<1>. DEFINE Needs(h) == hs[h].pc \in {"provider"} \cup Dispatched
<1>2. \A h \in Handlers : Needs(h) => Working(h) /\ hs[h].conv \in Convs
  BY DEF HoldInv, Working, Undispatched
<1>3. ASSUME NEW h \in Handlers, Step(h) \/ GiveUp(h) PROVE RunHasConversation'
  <2>1. \A k \in Handlers : k # h => hs'[k] = hs[k] BY <1>3, OthersStep DEF IndInv
  <2>2. ASSUME NEW c \in Convs, convs[c] = "live" PROVE convs'[c] = "live" \/ DeleteRows(h)
    <3>1. convs'[c] \in {"live", "deleted"} BY <1>3, <2>2, ConvsStep DEF KeptInv
    <3>. QED BY <1>3, <2>2 DEF IndInv, TypeOK, Step, GiveUp, Load, Title, Reserve, Busy, Poll, Transact,
         CommitReserve, Reload, Answer, Spawn, StartWork, Dispatch, ProviderEnds, AppendReply, FailRun,
         SaveOutcome
  <2>3. CASE DeleteRows(h)
    <3>1. ~Needs(h)' /\ hs[h].pc = "delete"
      BY <2>3 DEF DeleteRows, Return, Idle, At, Dispatched, IndInv, TypeOK
    <3>2. ASSUME NEW k \in Handlers, Needs(k), k # h, hs[h].conv = hs[k].conv
          PROVE  hs[h].user # Owner[hs[h].conv]
      <4>1. PICK f \in guards : f.by = h /\ f.user = hs[h].user /\ f.conv = hs[h].conv
        BY <3>1 DEF HoldInv, Holding
      <4>2. PICK g \in guards : g.by = k /\ g.user = hs[k].user /\ g.conv = hs[k].conv
        BY <1>2, <3>2 DEF HoldInv, Holding
      <4>3. Owner[hs[k].conv] = hs[k].user BY <1>2, <3>2 DEF HoldInv
      <4>. QED BY <3>2, <4>1, <4>2, <4>3 DEF HoldInv
    <3>3. \A k \in Handlers : Needs(k) /\ k # h => convs'[hs[k].conv] = convs[hs[k].conv]
      BY <1>2, <2>3, <3>2 DEF DeleteRows, Titled, IndInv, TypeOK
    <3>. QED BY <2>1, <3>1, <3>3 DEF HeldInv, RunHasConversation
  <2>4. CASE ~DeleteRows(h)
    <3>1. ASSUME Needs(h)' PROVE convs'[hs'[h].conv] = "live"
      <4>1. hs[h] \in Handler /\ hs \in [Handlers -> Handler] BY <1>3, Moving DEF IndInv, TypeOK
      <4>2. CASE StartWork(h)
        BY <3>1, <4>1, <4>2 DEF StartWork, Titled, Goto, Dispatched, Handler
      <4>3. CASE Dispatch(h) \/ ProviderEnds(h)
        BY <3>1, <4>1, <4>3 DEF Dispatch, ProviderEnds, At, Goto, Dispatched, HeldInv, RunHasConversation, Handler
      <4>4. CASE Load(h) \/ Title(h) \/ Transact(h) \/ Spawn(h)
        BY <3>1, <4>1, <4>4 DEF Load, Title, Transact, Spawn, Goto, Return, Idle, Dispatched, Handler
      <4>5. CASE Busy(h) \/ Poll(h) \/ Reload(h) \/ Answer(h) \/ GiveUp(h) \/ SaveOutcome(h)
        BY <3>1, <4>1, <4>5 DEF Busy, Poll, Reload, Answer, GiveUp, SaveOutcome, Goto, Return, Idle, Dispatched, Handler
      <4>6. CASE AppendReply(h) \/ FailRun(h)
        BY <3>1, <4>1, <4>6 DEF AppendReply, FailRun, Goto, Dispatched, Handler
      <4>7. CASE Reserve(h)
        <5>1. hs[h].kind \in {"submit", "chat", "delete"}
          BY <1>3, <4>1, <4>7, Moving DEF Reserve, At, Shaped, Handler
        <5>. QED BY <3>1, <4>1, <4>7, <5>1 DEF Reserve, Goto, Return, Idle, Dispatched, Handler
      <4>. QED BY <1>3, <2>4, <4>2, <4>3, <4>4, <4>5, <4>6, <4>7 DEF Step
    <3>2. ASSUME NEW k \in Handlers, k # h, Needs(k)' PROVE convs'[hs'[k].conv] = "live"
      BY <1>2, <2>1, <2>2, <2>4, <3>2 DEF HeldInv, RunHasConversation
    <3>. QED BY <3>1, <3>2 DEF RunHasConversation
  <2>. QED BY <2>3, <2>4
<1>4. ASSUME NEW h \in Handlers,
             \/ \E q \in Requests, p \in Payloads : Submit(h, q, p)
             \/ \E q \in Requests : Status(h, q)
             \/ \E u \in Users, p \in Payloads : Chat(h, u, p)
             \/ \E u \in Users, c \in Convs : Delete(h, u, c)
      PROVE  RunHasConversation'
  <2>1. /\ \A k \in Handlers : k # h => hs'[k] = hs[k] /\ UNCHANGED convs
        /\ ~Needs(h)'
    BY <1>4, Arriving DEF Dispatched
  <2>. QED BY <2>1 DEF HeldInv, RunHasConversation
<1>5. CASE UNCHANGED vars BY <1>5 DEF vars, HeldInv, RunHasConversation
<1>6. ~Crash /\ ~\E w \in inflight : LateCommit(w) BY DEF HeldInv, Crash
<1>. QED BY <1>1, <1>3, <1>4, <1>5, <1>6 DEF Next, HeldInv

\* While no transaction outlives its caller, a worker has its conversation to itself
\* from its reservation on, and it exists while the provider is asked and the reply
\* stored: neither another run or chat nor a deletion gets in.
THEOREM ConversationIsHeldAlways ==
    ASSUME Kinds \cap {"lost", "crash"} = {}
    PROVE  Spec => []ConversationIsHeld
<1>1. Init => HeldInv BY DEF Init, HeldInv, RunHasConversation, Idle, Dispatched
<1>2. IndInv /\ KeptInv /\ HoldInv /\ HeldInv /\ [Next]_vars => HeldInv' BY HeldStep
<1>3. Spec => []HeldInv BY <1>1, <1>2, Inductive, KeptAlways, HoldAlways, PTL DEF Spec
<1>4. OneRunPerConversation /\ HeldInv => ConversationIsHeld BY DEF HeldInv, ConversationIsHeld
<1>. QED BY <1>3, <1>4, OneRunPerConversationAlways, PTL

=============================================================================
