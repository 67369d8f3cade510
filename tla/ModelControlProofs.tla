------------------------- MODULE ModelControlProofs -------------------------
(***************************************************************************)
(* Proofs about ModelControl, for any models, documents, requests,         *)
(* connections and edits: its types, that a signed approval is applied at  *)
(* most once, that the owner is never told of a success the broker did not *)
(* commit, that the broker and the command line tool never undo each       *)
(* other, and that the Core grants nothing the files do not.  Then about   *)
(* Identity, on which the owner's say rests, for any devices, challenges,  *)
(* logins and transactions in flight.                                      *)
(***************************************************************************)
EXTENDS ModelControl, Identity, FiniteInduction, SequenceTheorems, FiniteSetTheorems, TLAPS

-----------------------------------------------------------------------------
\* What the two kinds of operations and the three kinds of edits carry.
LEMMA OperationFields ==
    \A o \in Operations :
        IF o.kind = "toggle"
        THEN o.model \in Models /\ o.on \in BOOLEAN /\ o.expected \in Policy
        ELSE o.doc \in Documents /\ o.expected \in Documents \cup {None}
BY DEF Operations

LEMMA EditFields ==
    \A e \in Edits :
        IF e.kind = "route" THEN e.doc \in Documents ELSE e.model \in Models /\ e.on \in BOOLEAN
BY EditsAssumption DEF EditType

LEMMA SetType == \A p \in Policy, m \in Models, b \in BOOLEAN : Set(p, m, b) \in Policy
BY DEF Set, Policy, Entry

\* A running connection carries an approved operation.
LEMMA CarriesOperation ==
    ASSUME IndInv, NEW j \in Jobs, jobs[j].req # None
    PROVE  jobs[j].req \in Requests /\ approval[jobs[j].req] \in Operations
BY DEF IndInv, TypeOK, RelayInv, JobType

-----------------------------------------------------------------------------
LEMMA IndInit == Init => IndInv
<1>. SUFFICES ASSUME Init PROVE IndInv OBVIOUS
<1>. USE DEF Init, Job
<1>1. boots \in 1..MaxBoots BY BootsAssumption
<1>2. TypeOK BY <1>1, PolicyAssumption DEF TypeOK, JobType, Policy, Entry
<1>3. MarkerInv /\ RelayInv /\ LockInv /\ ActiveIsCommitted
  BY DEF MarkerInv, Marked, RelayInv, LockInv, ActiveIsCommitted
<1>4. ToldInv /\ CurrentInv
  BY DEF ToldInv, CurrentInv, Grants
<1>. QED BY <1>2, <1>3, <1>4 DEF IndInv

-----------------------------------------------------------------------------
\* Every action keeps the types; a write of the policy needs the content it read.
LEMMA TypeStep ==
    ASSUME IndInv, [Next]_vars
    PROVE  TypeOK'
<1>. DEFINE Goal == TypeOK'
<1>. USE DistinctAssumption, BootsAssumption DEF IndInv, TypeOK, files, core, broker, tool
<1>1. CASE View
  BY <1>1 DEF View, Refreshed
<1>2. ASSUME NEW r \in Requests, Approve(r) PROVE Goal
  <2>1. live' \in Policy \cup {Suspended} BY <1>2 DEF Approve, Refreshed
  <2>2. approval' \in [Requests -> Operations \cup {None}]
    BY <1>2 DEF Approve, Operations
  <2>. QED BY <1>2, <2>1, <2>2 DEF Approve
<1>3. ASSUME NEW r \in Requests, NEW j \in Jobs, Post(r, j) PROVE Goal
  BY <1>3 DEF Post, HandlerType, JobType
<1>4. CASE Connect
  <2>1. jobs' \in [Jobs -> JobType] BY <1>4 DEF Connect, HandlerType, JobType
  <2>2. handler' \in HandlerType BY <1>4 DEF Connect, HandlerType
  <2>. QED BY <1>4, <2>1, <2>2 DEF Connect
<1>5. CASE Answered
  BY <1>5 DEF Answered, Withdraw, Suspend, FailClosed, Finish, HandlerType
<1>6. CASE Unanswered
  BY <1>6 DEF Unanswered, Withdraw, Suspend, FailClosed, Finish, HandlerType
<1>7. CASE Drop
  BY <1>7 DEF Drop, HandlerType, JobType
<1>8. ASSUME NEW j \in Jobs, Authorise(j) PROVE Goal
  <2>1. jobs[j].req \in Requests
    BY <1>8, CarriesOperation DEF Authorise, RelayInv
  <2>. QED BY <1>8, <2>1 DEF Authorise, JobType
<1>9. ASSUME NEW j \in Jobs, Refuse(j) PROVE Goal
  BY <1>9 DEF Refuse, Fail, JobType
<1>10. ASSUME NEW j \in Jobs, Apply(j) PROVE Goal
  <2>1. jobs' \in [Jobs -> JobType] BY <1>10 DEF Apply, Fail, JobType
  <2>. QED BY <1>10, <2>1 DEF Apply, Fail
<1>11. ASSUME NEW j \in Jobs, Write(j) PROVE Goal
  <2>1. jobs[j].pc = "locked" BY <1>11 DEF Write
  <2>2. approval[jobs[j].req] \in Operations
    BY <2>1, CarriesOperation DEF RelayInv
  <2>3. jobs' \in [Jobs -> JobType] BY <1>11 DEF Write, Fail, JobType
  <2>4. policyFile' \in Policy
    BY <1>11, <2>1, <2>2, OperationFields, SetType DEF Write, LockInv
  <2>5. routingFile' \in Documents \cup {None}
    BY <1>11, <2>2, OperationFields DEF Write
  <2>6. unwatched' \in BOOLEAN BY <1>11 DEF Write
  <2>. QED BY <1>11, <2>3, <2>4, <2>5, <2>6 DEF Write
<1>12. CASE BrokerCrash
  BY <1>12 DEF BrokerCrash, JobType
<1>13. CASE CoreRestart
  <2>1. boots' \in 1..MaxBoots BY <1>13 DEF CoreRestart, Boot
  <2>2. jobs' \in [Jobs -> JobType] BY <1>13 DEF CoreRestart, Boot, HandlerType, JobType
  <2>. QED BY <1>13, <2>1, <2>2 DEF CoreRestart, Boot
<1>14. ASSUME NEW e \in Edits, CliLock(e) PROVE Goal
  BY <1>14 DEF CliLock, CliType
<1>15. CASE CliWrite
  <2>1. cli \in CliType BY <1>15 DEF CliWrite
  <2>2. policyFile' \in Policy
    BY <1>15, <2>1, EditFields, SetType DEF CliWrite, CliType
  <2>3. routingFile' \in Documents \cup {None}
    BY <1>15, <2>1, EditFields DEF CliWrite, CliType
  <2>4. cli' \in CliType \cup {None} BY <1>15, <2>1 DEF CliWrite, CliType
  <2>. QED BY <1>15, <2>2, <2>3, <2>4 DEF CliWrite
<1>16. CASE CliRestart
  <2>1. boots' \in 1..MaxBoots BY <1>16 DEF CliRestart, Boot
  <2>2. jobs' \in [Jobs -> JobType] BY <1>16 DEF CliRestart, Boot, HandlerType, JobType
  <2>. QED BY <1>16, <2>1, <2>2 DEF CliRestart, Boot
<1>17. CASE UNCHANGED vars
  BY <1>17 DEF vars, files, core, broker, tool
<1>. QED BY <1>1, <1>2, <1>3, <1>4, <1>5, <1>6, <1>7, <1>8, <1>9, <1>10, <1>11, <1>12, <1>13, <1>14, <1>15, <1>16, <1>17 DEF Next

-----------------------------------------------------------------------------
\* Only Authorise takes a connection past the marker, and only without one.
LEMMA MarkerStep ==
    ASSUME IndInv, [Next]_vars
    PROVE  MarkerInv'
<1>. DEFINE Goal == MarkerInv'
<1>. USE DEF IndInv, TypeOK, MarkerInv, Marked, RelayInv, files, core, broker, tool
<1>1. CASE View
  BY <1>1 DEF View, Refreshed, HandlerType, JobType
<1>2. ASSUME NEW r \in Requests, Approve(r) PROVE Goal
  BY <1>2 DEF Approve, Refreshed, HandlerType, JobType
<1>3. ASSUME NEW r \in Requests, NEW j \in Jobs, Post(r, j) PROVE Goal
  BY <1>3 DEF Post, HandlerType, JobType
<1>4. CASE Connect
  BY <1>4 DEF Connect, HandlerType, JobType
<1>5. CASE Answered
  BY <1>5 DEF Answered, Withdraw, Suspend, FailClosed, Finish, Asked, SaysApplied, HandlerType, JobType
<1>6. CASE Unanswered
  BY <1>6 DEF Unanswered, Withdraw, Suspend, FailClosed, Finish, Asked, HandlerType, JobType
<1>7. CASE Drop
  BY <1>7 DEF Drop, HandlerType, JobType
<1>8. ASSUME NEW j \in Jobs, Authorise(j) PROVE Goal
  BY <1>8 DEF Authorise, Unused, HandlerType, JobType
<1>9. ASSUME NEW j \in Jobs, Refuse(j) PROVE Goal
  BY <1>9 DEF Refuse, Fail, HandlerType, JobType
<1>10. ASSUME NEW j \in Jobs, Apply(j) PROVE Goal
  BY <1>10 DEF Apply, Fail, LockFree, HandlerType, JobType
<1>11. ASSUME NEW j \in Jobs, Write(j) PROVE Goal
  BY <1>11 DEF Write, Fail, HandlerType, JobType
<1>12. CASE BrokerCrash
  BY <1>12 DEF BrokerCrash, Running, HandlerType, JobType
<1>13. CASE CoreRestart
  BY <1>13 DEF CoreRestart, Boot, HandlerType, JobType
<1>14. ASSUME NEW e \in Edits, CliLock(e) PROVE Goal
  BY <1>14 DEF CliLock, HandlerType, JobType
<1>15. CASE CliWrite
  BY <1>15 DEF CliWrite, HandlerType, JobType
<1>16. CASE CliRestart
  BY <1>16 DEF CliRestart, Boot, HandlerType, JobType
<1>17. CASE UNCHANGED vars
  BY <1>17 DEF vars, files, core, broker, tool
<1>. QED BY <1>1, <1>2, <1>3, <1>4, <1>5, <1>6, <1>7, <1>8, <1>9, <1>10, <1>11, <1>12, <1>13, <1>14, <1>15, <1>16, <1>17 DEF Next

-----------------------------------------------------------------------------
LEMMA RelayStep ==
    ASSUME IndInv, [Next]_vars
    PROVE  RelayInv'
<1>. DEFINE Goal == RelayInv'
<1>. USE DistinctAssumption DEF IndInv, TypeOK, RelayInv, files, core, broker, tool
<1>1. CASE View
  BY <1>1 DEF View, Refreshed, HandlerType, JobType
<1>2. ASSUME NEW r \in Requests, Approve(r) PROVE Goal
  <2>1. approval'[r] # None BY <1>2 DEF Approve, Operations
  <2>. QED BY <1>2, <2>1 DEF Approve, JobType, HandlerType
<1>3. ASSUME NEW r \in Requests, NEW j \in Jobs, Post(r, j) PROVE Goal
  BY <1>3 DEF Post, HandlerType, JobType
<1>4. CASE Connect
  BY <1>4 DEF Connect, HandlerType, JobType
<1>5. CASE Answered
  BY <1>5 DEF Answered, Withdraw, Suspend, FailClosed, Finish, Asked, SaysApplied, HandlerType, JobType
<1>6. CASE Unanswered
  BY <1>6 DEF Unanswered, Withdraw, Suspend, FailClosed, Finish, Asked, HandlerType, JobType
<1>7. CASE Drop
  BY <1>7 DEF Drop, HandlerType, JobType
<1>8. ASSUME NEW j \in Jobs, Authorise(j) PROVE Goal
  BY <1>8 DEF Authorise, Unused, HandlerType, JobType
<1>9. ASSUME NEW j \in Jobs, Refuse(j) PROVE Goal
  BY <1>9 DEF Refuse, Fail, HandlerType, JobType
<1>10. ASSUME NEW j \in Jobs, Apply(j) PROVE Goal
  <2>1. UNCHANGED <<approval, handler>> /\ jobs[j].pc = "authorised" BY <1>10 DEF Apply
  <2>2. \A k \in Jobs : jobs'[k].req = jobs[k].req /\ (k # j => jobs'[k].pc = jobs[k].pc)
    BY <1>10 DEF Apply, Fail, JobType
  <2>. QED BY <2>1, <2>2 DEF HandlerType
<1>11. ASSUME NEW j \in Jobs, Write(j) PROVE Goal
  <2>1. UNCHANGED <<approval, handler>> /\ jobs[j].pc = "locked" BY <1>11 DEF Write
  <2>2. \A k \in Jobs : jobs'[k].req = jobs[k].req /\ (k # j => jobs'[k].pc = jobs[k].pc)
    BY <1>11 DEF Write, Fail, JobType
  <2>. QED BY <2>1, <2>2 DEF HandlerType
<1>12. CASE BrokerCrash
  BY <1>12 DEF BrokerCrash, Running, HandlerType, JobType
<1>13. CASE CoreRestart
  BY <1>13 DEF CoreRestart, Boot, HandlerType, JobType
<1>14. ASSUME NEW e \in Edits, CliLock(e) PROVE Goal
  BY <1>14 DEF CliLock, HandlerType, JobType
<1>15. CASE CliWrite
  BY <1>15 DEF CliWrite, HandlerType, JobType
<1>16. CASE CliRestart
  BY <1>16 DEF CliRestart, Boot, HandlerType, JobType
<1>17. CASE UNCHANGED vars
  BY <1>17 DEF vars, files, core, broker, tool
<1>. QED BY <1>1, <1>2, <1>3, <1>4, <1>5, <1>6, <1>7, <1>8, <1>9, <1>10, <1>11, <1>12, <1>13, <1>14, <1>15, <1>16, <1>17 DEF Next

-----------------------------------------------------------------------------
\* A file changes only under the lock.
LEMMA LockStep ==
    ASSUME IndInv, [Next]_vars
    PROVE  LockInv'
<1>. DEFINE Goal == LockInv'
<1>. USE DistinctAssumption DEF IndInv, TypeOK, RelayInv, LockInv, files, core, broker, tool
<1>1. CASE View
  BY <1>1 DEF View, Refreshed, HandlerType, JobType, CliType
<1>2. ASSUME NEW r \in Requests, Approve(r) PROVE Goal
  BY <1>2 DEF Approve, Refreshed, HandlerType, JobType, CliType
<1>3. ASSUME NEW r \in Requests, NEW j \in Jobs, Post(r, j) PROVE Goal
  BY <1>3 DEF Post, HandlerType, JobType, CliType
<1>4. CASE Connect
  BY <1>4 DEF Connect, HandlerType, JobType, CliType
<1>5. CASE Answered
  BY <1>5 DEF Answered, Withdraw, Suspend, FailClosed, Finish, Asked, SaysApplied, HandlerType, JobType, CliType
<1>6. CASE Unanswered
  BY <1>6 DEF Unanswered, Withdraw, Suspend, FailClosed, Finish, Asked, HandlerType, JobType, CliType
<1>7. CASE Drop
  BY <1>7 DEF Drop, HandlerType, JobType, CliType
<1>8. ASSUME NEW j \in Jobs, Authorise(j) PROVE Goal
  BY <1>8 DEF Authorise, Unused, HandlerType, JobType, CliType
<1>9. ASSUME NEW j \in Jobs, Refuse(j) PROVE Goal
  BY <1>9 DEF Refuse, Fail, HandlerType, JobType, CliType
<1>10. ASSUME NEW j \in Jobs, Apply(j) PROVE Goal
  <2>1. CASE LockFree /\ Fits(approval[jobs[j].req])
    <3>1. dirLock = None /\ dirLock' = j /\ cli = None BY <1>10, <2>1 DEF Apply, LockFree
    <3>2. \A k \in Jobs \ {j} : jobs'[k] = jobs[k] /\ jobs[k].pc # "locked"
      BY <1>10, <2>1, <3>1 DEF Apply
    <3>3. approval[jobs[j].req].kind = "toggle" => jobs'[j].base = policyFile
      BY <1>10, <2>1 DEF Apply, JobType
    <3>4. jobs'[j].req = jobs[j].req /\ UNCHANGED <<approval, policyFile, cli>>
      BY <1>10, <2>1 DEF Apply, JobType
    <3>. QED BY <3>1, <3>2, <3>3, <3>4
  <2>2. CASE ~(LockFree /\ Fits(approval[jobs[j].req]))
    BY <1>10, <2>2 DEF Apply, Fail, JobType
  <2>. QED BY <2>1, <2>2
<1>11. ASSUME NEW j \in Jobs, Write(j) PROVE Goal
  BY <1>11 DEF Write, Fail, HandlerType, JobType, CliType
<1>12. CASE BrokerCrash
  BY <1>12 DEF BrokerCrash, Running, HandlerType, JobType, CliType
<1>13. CASE CoreRestart
  BY <1>13 DEF CoreRestart, Boot, HandlerType, JobType, CliType
<1>14. ASSUME NEW e \in Edits, CliLock(e) PROVE Goal
  BY <1>14 DEF CliLock, HandlerType, JobType, CliType
<1>15. CASE CliWrite
  BY <1>15 DEF CliWrite, HandlerType, JobType, CliType
<1>16. CASE CliRestart
  BY <1>16 DEF CliRestart, Boot, HandlerType, JobType, CliType
<1>17. CASE UNCHANGED vars
  BY <1>17 DEF vars, files, core, broker, tool
<1>. QED BY <1>1, <1>2, <1>3, <1>4, <1>5, <1>6, <1>7, <1>8, <1>9, <1>10, <1>11, <1>12, <1>13, <1>14, <1>15, <1>16, <1>17 DEF Next

-----------------------------------------------------------------------------
LEMMA ActiveStep ==
    ASSUME IndInv, [Next]_vars
    PROVE  ActiveIsCommitted'
<1>. DEFINE Goal == ActiveIsCommitted'
<1>. USE DEF IndInv, TypeOK, RelayInv, ActiveIsCommitted, files, core, broker, tool
<1>1. CASE View
  BY <1>1 DEF View, Refreshed, HandlerType, JobType
<1>2. ASSUME NEW r \in Requests, Approve(r) PROVE Goal
  BY <1>2 DEF Approve, Refreshed, HandlerType, JobType
<1>3. ASSUME NEW r \in Requests, NEW j \in Jobs, Post(r, j) PROVE Goal
  BY <1>3 DEF Post, HandlerType, JobType
<1>4. CASE Connect
  BY <1>4 DEF Connect, HandlerType, JobType
<1>5. CASE Answered
  BY <1>5 DEF Answered, Withdraw, Suspend, FailClosed, Finish, Asked, SaysApplied, HandlerType, JobType
<1>6. CASE Unanswered
  BY <1>6 DEF Unanswered, Withdraw, Suspend, FailClosed, Finish, Asked, HandlerType, JobType
<1>7. CASE Drop
  BY <1>7 DEF Drop, HandlerType, JobType
<1>8. ASSUME NEW j \in Jobs, Authorise(j) PROVE Goal
  BY <1>8 DEF Authorise, Unused, HandlerType, JobType
<1>9. ASSUME NEW j \in Jobs, Refuse(j) PROVE Goal
  BY <1>9 DEF Refuse, Fail, HandlerType, JobType
<1>10. ASSUME NEW j \in Jobs, Apply(j) PROVE Goal
  BY <1>10 DEF Apply, Fail, LockFree, HandlerType, JobType
<1>11. ASSUME NEW j \in Jobs, Write(j) PROVE Goal
  BY <1>11 DEF Write, Fail, HandlerType, JobType
<1>12. CASE BrokerCrash
  BY <1>12 DEF BrokerCrash, Running, HandlerType, JobType
<1>13. CASE CoreRestart
  BY <1>13 DEF CoreRestart, Boot, HandlerType, JobType
<1>14. ASSUME NEW e \in Edits, CliLock(e) PROVE Goal
  BY <1>14 DEF CliLock, HandlerType, JobType
<1>15. CASE CliWrite
  BY <1>15 DEF CliWrite, HandlerType, JobType
<1>16. CASE CliRestart
  BY <1>16 DEF CliRestart, Boot, HandlerType, JobType
<1>17. CASE UNCHANGED vars
  BY <1>17 DEF vars, files, core, broker, tool
<1>. QED BY <1>1, <1>2, <1>3, <1>4, <1>5, <1>6, <1>7, <1>8, <1>9, <1>10, <1>11, <1>12, <1>13, <1>14, <1>15, <1>16, <1>17 DEF Next

-----------------------------------------------------------------------------
\* Only the end of a handler answers the owner, and a connection is used once.
LEMMA ToldStep ==
    ASSUME IndInv, [Next]_vars
    PROVE  ToldInv'
<1>. DEFINE Goal == ToldInv'
<1>. USE DistinctAssumption DEF IndInv, TypeOK, RelayInv, ToldInv, files, core, broker, tool
<1>1. ASSUME NEW r \in Requests, NEW j \in Jobs, Post(r, j) PROVE Goal
  BY <1>1 DEF Post, HandlerType, JobType
<1>2. CASE Connect
  BY <1>2 DEF Connect, HandlerType, JobType
<1>3. CASE Answered \/ Unanswered
  BY <1>3 DEF Answered, Unanswered, Finish, HandlerType, JobType
<1>4. CASE Drop
  BY <1>4 DEF Drop, HandlerType, JobType
<1>5. ASSUME NEW j \in Jobs, Authorise(j) \/ Refuse(j) \/ Apply(j) \/ Write(j) PROVE Goal
  BY <1>5 DEF Authorise, Refuse, Apply, Write, Fail, JobType
<1>6. CASE BrokerCrash
  BY <1>6 DEF BrokerCrash, JobType
<1>7. CASE CoreRestart \/ CliRestart
  BY <1>7 DEF CoreRestart, CliRestart, Boot, HandlerType, JobType
<1>8. CASE View \/ (\E r \in Requests : Approve(r)) \/ (\E e \in Edits : CliLock(e)) \/ CliWrite
  BY <1>8 DEF View, Approve, CliLock, CliWrite
<1>9. CASE UNCHANGED vars
  BY <1>9 DEF vars
<1>. QED BY <1>1, <1>2, <1>3, <1>4, <1>5, <1>6, <1>7, <1>8, <1>9 DEF Next

-----------------------------------------------------------------------------
\* Grants in the live policy are never more than in the policy a view refreshes it to.
LEMMA RefreshedGrants ==
    ASSUME live \in Policy \cup {Suspended}, policyFile \in Policy
    PROVE  /\ Grants(Refreshed) \subseteq Grants(live)
           /\ Grants(live) \subseteq Grants(policyFile) => Grants(Refreshed) \subseteq Grants(policyFile)
           /\ live = Suspended => Refreshed = Suspended
BY DEF Refreshed, RefreshAllowed, Grants, Policy, Entry

\* A discovery withdraws no grant.
LEMMA DiscoveryKeepsGrants ==
    ASSUME NEW p \in Policy, NEW m \in Models, NEW b \in BOOLEAN, p[m] = "absent"
    PROVE  Grants(p) \subseteq Grants(Set(p, m, b))
BY DistinctAssumption, SetType DEF Grants, Set, Policy

\* Every step keeps the live copies within the files, or leaves somebody who will
\* read the file back: the watching handler, the restart of the tool, or unwatched.
LEMMA CurrentStep ==
    ASSUME IndInv, [Next]_vars
    PROVE  CurrentInv'
<1>. DEFINE Goal == CurrentInv'
<1>. USE DistinctAssumption DEF IndInv, TypeOK, CurrentInv, Watched, Restarting, SignedFor, Asked,
                                files, core, broker, tool
<1>1. CASE View
  BY <1>1, RefreshedGrants DEF View
<1>2. ASSUME NEW r \in Requests, Approve(r) PROVE Goal
  BY <1>2, RefreshedGrants DEF Approve
<1>3. ASSUME NEW r \in Requests, NEW j \in Jobs, Post(r, j) PROVE Goal
  <2>1. handler'.job = j /\ jobs'[j].req = r /\ handler = None
    BY <1>3 DEF Post, JobType, HandlerType
  <2>2. Asked' = approval[r] BY <1>3, <2>1 DEF Post
  <2>3. approval[r].kind = "toggle" => live = approval[r].expected
    BY <1>3 DEF Post, Relayable
  <2>4. approval[r].kind # "toggle" => routingFile = approval[r].expected
    BY <1>3 DEF Post, Relayable, RelayableRouting
  <2>. QED BY <1>3, <2>1, <2>2, <2>3, <2>4 DEF Post
<1>4. CASE Connect
  <2>1. handler'.job = handler.job /\ jobs[handler.job].pc = "idle"
    BY <1>4 DEF Connect, HandlerType, RelayInv
  <2>2. jobs'[handler.job].req = jobs[handler.job].req BY <1>4 DEF Connect, HandlerType, JobType
  <2>. QED BY <1>4, <2>1, <2>2 DEF Connect
<1>5. CASE Answered
  <2>1. handler' = None /\ handler # None /\ Asked \in Operations
    BY <1>5, CarriesOperation DEF Answered, Finish, HandlerType, RelayInv
  <2>2. CASE Withdraw(Asked)
    BY <1>5, <2>1, <2>2 DEF Answered, Withdraw, Suspend, FailClosed, Grants
  <2>3. CASE ~Withdraw(Asked)
    BY <1>5, <2>1, <2>3 DEF Answered
  <2>. QED BY <2>2, <2>3
<1>6. CASE Unanswered
  <2>1. handler' = None /\ handler # None
    BY <1>6 DEF Unanswered, Finish
  <2>2. CASE Withdraw(Asked)
    BY <1>6, <2>1, <2>2 DEF Unanswered, Withdraw, Suspend, FailClosed, Grants
  <2>3. CASE ~Withdraw(Asked)
    BY <1>6, <2>1, <2>3 DEF Unanswered, Untouched, UntouchedRouting
  <2>. QED BY <2>2, <2>3
<1>7. CASE Drop
  BY <1>7 DEF Drop
<1>8. ASSUME NEW j \in Jobs, Authorise(j) \/ Refuse(j) \/ Apply(j) PROVE Goal
  <2>1. jobs[j].pc # "applied" /\ UNCHANGED <<files, core, approval, handler, unwatched>>
    BY <1>8 DEF Authorise, Refuse, Apply
  <2>2. \A k \in Jobs : jobs'[k].req = jobs[k].req /\ (k # j => jobs'[k].pc = jobs[k].pc)
    BY <1>8 DEF Authorise, Refuse, Apply, Fail, JobType
  <2>3. UNCHANGED cli BY <1>8 DEF Authorise, Refuse, Apply
  <2>. QED BY <2>1, <2>2, <2>3 DEF HandlerType
<1>9. ASSUME NEW j \in Jobs, Write(j) PROVE Goal
  <2>1. UNCHANGED <<core, approval, handler, cli>> /\ jobs[j].pc = "locked" BY <1>9 DEF Write
  <2>2. \A k \in Jobs : jobs'[k].req = jobs[k].req /\ (k # j => jobs'[k].pc = jobs[k].pc)
    BY <1>9 DEF Write, Fail, JobType
  <2>3. CASE UNCHANGED <<files, unwatched>>
    BY <2>1, <2>2, <2>3 DEF HandlerType
  <2>4. CASE ~UNCHANGED <<files, unwatched>>
    <3>0. /\ jobs' = [jobs EXCEPT ![j].pc = "applied"]
          /\ unwatched' = (unwatched \/ handler = None \/ (handler # None /\ handler.job # j))
      BY <1>9, <2>4 DEF Write
    <3>1. unwatched' \/ (handler # None /\ handler.job = j /\ jobs'[j].pc = "applied" /\ ~unwatched)
      <4>1. jobs'[j].pc = "applied" BY <3>0 DEF JobType
      <4>. QED BY <3>0, <4>1, Zenon
    <3>2. approval[jobs[j].req].kind = "toggle" => UNCHANGED routingFile BY <1>9 DEF Write
    <3>3. approval[jobs[j].req].kind # "toggle" => UNCHANGED policyFile BY <1>9 DEF Write
    <3>4. approval[jobs[j].req] \in Operations BY <2>1, CarriesOperation DEF RelayInv
    <3>5. approval[jobs[j].req].kind \in {"toggle", "route"} BY <3>4 DEF Operations
    <3>. QED BY <2>1, <2>2, <3>1, <3>2, <3>3, <3>5 DEF HandlerType
  <2>. QED BY <2>3, <2>4
<1>10. CASE BrokerCrash
  <2>1. \A k \in Jobs : /\ jobs'[k].req = jobs[k].req
                         /\ jobs[k].pc = "applied" => jobs'[k].pc = "applied"
    BY <1>10 DEF BrokerCrash, Running, JobType
  <2>. QED BY <1>10, <2>1 DEF BrokerCrash, HandlerType
<1>11. CASE CoreRestart
  BY <1>11 DEF CoreRestart, Boot
<1>12. ASSUME NEW e \in Edits, CliLock(e) PROVE Goal
  <2>1. e.kind = "discover" => policyFile[e.model] = "absent"
    BY <1>12, EditFields, PolicyAssumption DEF CliLock, Editable, Discovered, Policy, Entry
  <2>. QED BY <1>12, <2>1 DEF CliLock
<1>13. CASE CliWrite
  <2>1. cli \in CliType /\ cli.base = policyFile BY <1>13 DEF CliWrite, LockInv
  <2>2. CASE cli.edit.kind = "discover"
    <3>1. policyFile' = Set(policyFile, cli.edit.model, cli.edit.on) /\ cli' = None
      BY <1>13, <2>1, <2>2 DEF CliWrite
    <3>2. cli # None /\ cli.pc = "edit" BY <1>13 DEF CliWrite
    <3>3. policyFile[cli.edit.model] = "absent" BY <2>1, <2>2, <3>2
    <3>4. cli.edit.model \in Models /\ cli.edit.on \in BOOLEAN
      BY <2>1, <2>2, EditFields DEF CliType
    <3>5. Grants(policyFile) \subseteq Grants(policyFile')
      BY <3>1, <3>3, <3>4, DiscoveryKeepsGrants
    <3>. QED BY <1>13, <2>2, <3>1, <3>2, <3>5 DEF CliWrite
  <2>3. CASE cli.edit.kind # "discover"
    <3>1. cli' \in CliType /\ cli'.pc = "restart" /\ cli'.edit = cli.edit
      BY <1>13, <2>1, <2>3 DEF CliWrite, CliType
    <3>2. Restarting' BY <3>1
    <3>. QED BY <2>3, <3>1, <3>2
  <2>. QED BY <2>2, <2>3
<1>14. CASE CliRestart
  BY <1>14 DEF CliRestart, Boot
<1>15. CASE UNCHANGED vars
  BY <1>15 DEF vars
<1>. QED BY <1>1, <1>2, <1>3, <1>4, <1>5, <1>6, <1>7, <1>8, <1>9, <1>10, <1>11, <1>12, <1>13, <1>14, <1>15 DEF Next

-----------------------------------------------------------------------------
LEMMA Inductive == Spec => []IndInv
<1>1. IndInv /\ [Next]_vars => IndInv'
  BY TypeStep, MarkerStep, RelayStep, LockStep, ActiveStep, ToldStep, CurrentStep DEF IndInv
<1>. QED BY IndInit, <1>1, PTL DEF Spec

\* The files, the live copies, the connections and the locks keep their types.
THEOREM TypeCorrect == Spec => []TypeOK
<1>1. IndInv => TypeOK BY DEF IndInv
<1>. QED BY <1>1, Inductive, PTL

\* However often a signed request is relayed, retried or overtaken, and however the
\* broker and the Core restart, the broker commits it at most once.
THEOREM ApprovalOnceAlways == Spec => []ApprovalOnce
<1>1. IndInv => ApprovalOnce BY DEF IndInv, MarkerInv, Marked, ApprovalOnce
<1>. QED BY <1>1, Inductive, PTL

\* The owner is never told that a change is active that the broker did not commit.
THEOREM ActiveIsCommittedAlways == Spec => []ActiveIsCommitted
<1>1. IndInv => ActiveIsCommitted BY DEF IndInv
<1>. QED BY <1>1, Inductive, PTL

\* No write of the policy, by the broker or by the command line tool, undoes another:
\* it changes no entry but the one it was asked to change.
THEOREM NoLostEditAlways == Spec => NoLostEdit
<1>1. ASSUME IndInv, [Next]_vars, NEW m \in Models, policyFile'[m] # policyFile[m] PROVE Asks(m)
  <2>. USE DEF IndInv, TypeOK, LockInv, RelayInv, files, core, broker, tool
  <2>1. CASE \E j \in Jobs : Write(j)
    <3>1. PICK j \in Jobs : Write(j) BY <2>1
    <3>2. approval[jobs[j].req] \in Operations /\ jobs[j].pc = "locked"
      BY <3>1, <1>1, CarriesOperation DEF Write
    <3>3. approval[jobs[j].req].kind = "toggle" /\ jobs'[j].pc = "applied"
      BY <3>1, <1>1 DEF Write, Fail, JobType
    <3>4. policyFile' = Set(policyFile, approval[jobs[j].req].model, approval[jobs[j].req].on)
      BY <3>1, <3>2, <3>3, <1>1 DEF Write, Fail
    <3>5. approval[jobs[j].req].model = m BY <3>4, <1>1 DEF Set, Policy
    <3>. QED BY <3>2, <3>3, <3>5 DEF Asks
  <2>2. CASE CliWrite
    <3>1. cli # None /\ cli.pc = "edit" /\ cli.edit.kind # "route" /\ cli' # cli
      BY <2>2, <1>1 DEF CliWrite, CliType
    <3>2. policyFile' = Set(policyFile, cli.edit.model, cli.edit.on) BY <2>2, <3>1, <1>1 DEF CliWrite
    <3>3. cli.edit.model = m BY <3>2, <1>1 DEF Set, Policy
    <3>. QED BY <3>1, <3>3 DEF Asks
  <2>3. CASE ~CliWrite /\ ~\E j \in Jobs : Write(j)
    BY <2>3, <1>1
       DEF Next, vars, View, Approve, Post, Connect, Answered, Unanswered, Drop, Authorise, Refuse,
           Apply, BrokerCrash, CoreRestart, CliLock, CliRestart
  <2>. QED BY <2>1, <2>2, <2>3
<1>2. IndInv /\ [Next]_vars => [\A m \in Models : policyFile'[m] # policyFile[m] => Asks(m)]_vars
  BY <1>1
<1>. QED BY <1>2, Inductive, PTL DEF Spec, NoLostEdit

\* Once nobody is changing anything, the Core grants and routes nothing that the
\* protected files do not, however replies were lost, handlers dropped, the broker
\* killed or the tool used, unless a commit came after the Core stopped looking.
THEOREM LiveIsCurrentAlways == Spec => []LiveIsCurrent
<1>1. IndInv => LiveIsCurrent
  BY DEF IndInv, CurrentInv, Watched, Restarting, LiveIsCurrent, Quiescent, Current
<1>. QED BY <1>1, Inductive, PTL

\* Without a restart the live policy gains a grant only in the step that tells the
\* owner so, the live routing gains only the signed document, and a suspended policy
\* stays suspended.
THEOREM NoPiggybackAlways == Spec => NoPiggyback
<1>1. ASSUME IndInv, [Next]_vars PROVE Piggyback
  <2>. USE DistinctAssumption DEF IndInv, TypeOK, files, core, broker, tool
  <2>1. CASE View
    BY <2>1, <1>1, RefreshedGrants DEF View, Piggyback
  <2>2. CASE \E r \in Requests : Approve(r)
    BY <2>2, <1>1, RefreshedGrants DEF Approve, Piggyback
  <2>3. CASE Answered
    <3>1. handler # None /\ handler.job \in Jobs /\ Asked \in Operations /\ told[handler.job] # "active"
      BY <2>3, <1>1, CarriesOperation DEF Answered, HandlerType, RelayInv, Asked, ToldInv
    <3>2. CASE Withdraw(Asked)
      BY <2>3, <3>2, <1>1 DEF Answered, Withdraw, Suspend, FailClosed, Grants, Piggyback
    <3>3. CASE ~Withdraw(Asked)
      <4>1. Verified(Asked) /\ NowActive(Asked)
        BY <2>3, <3>1, <3>3, <1>1 DEF Answered, Finish, NowActive, Asked
      <4>2. CASE Asked.kind = "toggle"
        <5>1. /\ live = Asked.expected /\ live # Suspended
              /\ live' = Set(live, Asked.model, Asked.on) /\ UNCHANGED liveRouting
          BY <2>3, <3>3, <4>1, <4>2 DEF Answered, Verified, VerifiedToggle, Discovered
        <5>2. \A m \in Grants(live') \ Grants(live) : m = Asked.model /\ Asked.on
          BY <3>1, <4>2, <5>1, <1>1 DEF Grants, Set, Policy
        <5>. QED BY <3>1, <4>1, <4>2, <5>1, <5>2 DEF Piggyback
      <4>3. CASE Asked.kind # "toggle"
        <5>1. UNCHANGED live /\ liveRouting' = Asked.doc /\ Asked.kind = "route"
          BY <2>3, <3>1, <3>3, <4>1, <4>3 DEF Answered, Verified, VerifiedRouting, Operations
        <5>. QED BY <3>1, <4>1, <5>1 DEF Piggyback
      <4>. QED BY <4>2, <4>3
    <3>. QED BY <3>2, <3>3
  <2>4. CASE Unanswered
    BY <2>4, <1>1 DEF Unanswered, Withdraw, Suspend, FailClosed, Grants, Piggyback
  <2>5. CASE CoreRestart \/ CliRestart
    BY <2>5, <1>1, BootsAssumption DEF CoreRestart, CliRestart, Boot, Piggyback
  <2>6. CASE UNCHANGED core
    BY <2>6 DEF Piggyback
  <2>. QED
    BY <1>1, <2>1, <2>2, <2>3, <2>4, <2>5, <2>6
       DEF Next, vars, Post, Connect, Drop, Authorise, Refuse, Apply, Write, BrokerCrash, CliLock, CliWrite
<1>. QED BY <1>1, Inductive, PTL DEF Spec, NoPiggyback

-----------------------------------------------------------------------------
(* The owner's account.  What a transaction checked when it began still     *)
(* holds when it commits, because whoever changes it writes a row that the  *)
(* transaction writes too: TxnOK says what each kind may rely on,           *)
(* Disciplined what every step must write to change it.                     *)

SomeDevice == Devices \cup {NoDevice}
RowTables == {"password", "owner", "recovery", "session", "action", "pairing", "device"}
Rows == RowTables \X SomeDevice \X Nat
TxnKinds == {"none", "mint", "renew", "pair", "set", "revoke", "reset", "root", "confirm"}
Minting == {"mint", "renew"}
Past == {"verify", "mint", "renew", "commit"}

SessionType == [live : BOOLEAN, revision : Nat, challenge : Challenges, beside : BOOLEAN]
ChallengeType == [device : SomeDevice, status : {"none", "open", "closed"}]
LoginType ==
  [at : {"idle", "claim"} \cup Past, challenge : Challenges \cup {NoDevice}, device : SomeDevice,
   password : Nat, revision : Nat]
TxnType ==
  [kind : TxnKinds, device : SomeDevice, target : SomeDevice, login : Logins \cup {NoDevice},
   anchor : Nat, writes : SUBSET Rows, doomed : BOOLEAN]

IdTypes ==
  /\ device \in [Devices -> {"none", "active", "revoked"}]
  /\ session \in [Devices -> Seq(SessionType)]
  /\ challenge \in [Challenges -> ChallengeType]
  /\ login \in [Logins -> LoginType]
  /\ action \in [Devices -> [kind : {"none", "set", "reset", "revoke"}, target : SomeDevice]]
  /\ recovery \in [status : {"none", "pending", "confirmed", "closed"}, device : SomeDevice, since : Nat]
  /\ pairing \in [Devices -> {"none", "pending", "approved", "closed"}]
  /\ txn \in [Callers -> TxnType]
  /\ password \in Nat /\ asked \in Nat

\* The requests name devices.
NamedBy ==
  /\ \A h \in Challenges : challenge[h].status = "open" => challenge[h].device \in Devices
  /\ \A d \in Devices : action[d].kind = "revoke" => action[d].target \in Devices
  /\ recovery.status = "pending" => recovery.device \in Devices
  /\ asked <= RecoveriesPerDay

\* The rows hold every live session of d that was made before their transaction began.
SeesAll(d, rows) ==
  \A n \in 1..Len(session[d]) :
    session[d][n].live /\ ~session[d][n].beside => Row("session", d, n) \in rows

\* The anchor of a renewal, and what was read with it.
AnchorHolds(t) ==
  /\ t.anchor \in 1..Len(session[t.device]) /\ Row("session", t.device, t.anchor) \in t.writes
  /\ session[t.device][t.anchor].live
  /\ \/ session[t.device][t.anchor].beside
     \/ device[t.device] = "active" /\ login[t.login].revision = password

\* What a transaction that no other has doomed still has right.
RowsHold(t) ==
  /\ \A d \in Devices : Row("pairing", d, 0) \in t.writes => pairing[d] = "pending"
  /\ t.kind = "pair" => Row("pairing", t.target, 0) \in t.writes
  /\ t.kind = "renew" => AnchorHolds(t)
  /\ t.kind = "revoke" => Owner \in t.writes /\ (~rooted => OtherApprover(t.target))
  /\ t.kind \in {"revoke", "root"} => Row("device", t.target, 0) \in t.writes /\ SeesAll(t.target, t.writes)
  /\ t.kind \in {"set", "confirm"} => Password \in t.writes /\ \A d \in Devices : SeesAll(d, t.writes)
  /\ t.kind = "reset" => Recovery \in t.writes /\ asked < RecoveriesPerDay
  /\ t.kind = "confirm" =>
       /\ Recovery \in t.writes /\ Row("device", recovery.device, 0) \in t.writes
       /\ recovery.status = "pending" /\ device[recovery.device] = "active" /\ password = recovery.since

TxnOK(t) ==
  /\ t.kind \in {"pair", "revoke", "root"} => t.target \in Devices
  /\ t.kind \in {"mint", "renew", "set", "reset"} => t.device \in Devices
  /\ IF t.kind \in Minting THEN t.login \in Logins /\ login[t.login].at = "commit" ELSE t.login = NoDevice
  /\ ~t.doomed => RowsHold(t)

\* A challenge is one login's once claimed, and then one session's.
LoginInv ==
  /\ \A l \in Logins : login[l].at # "idle" => login[l].device \in Devices /\ login[l].challenge \in Challenges
  /\ \A l \in Logins : login[l].at \in Past => challenge[login[l].challenge].status = "closed"
  /\ \A l, m \in Logins : login[l].at \in Past /\ login[m].at \in Past /\ login[l].challenge = login[m].challenge => l = m
  /\ \A c, o \in Callers : txn[c].kind \in Minting /\ txn[o].kind \in Minting /\ txn[c].login = txn[o].login => c = o

SessionInv ==
  /\ \A d \in Devices : \A n \in 1..Len(session[d]) :
       /\ challenge[session[d][n].challenge].status = "closed"
       /\ \A l \in Logins : login[l].at \in Past => login[l].challenge # session[d][n].challenge
  /\ \A d, e \in Devices : \A n \in 1..Len(session[d]), m \in 1..Len(session[e]) :
       session[d][n].challenge = session[e][m].challenge => d = e /\ n = m

IdInv ==
  /\ IdTypes /\ NamedBy
  /\ \A c \in Callers : TxnOK(txn[c])
  /\ LoginInv /\ SessionInv

-----------------------------------------------------------------------------
(* The operators on rows.                                                   *)

LEMMA TruthValues == TRUE \in BOOLEAN /\ FALSE \in BOOLEAN
BY Zenon

\* Revoking sessions only ends them, and only the ones of the given rows.
LEMMA RevokedShape ==
  ASSUME IdTypes, NEW rows
  PROVE  /\ Revoked(rows) \in [Devices -> Seq(SessionType)]
         /\ \A d \in Devices : Len(Revoked(rows)[d]) = Len(session[d])
         /\ \A d \in Devices : \A n \in 1..Len(session[d]) :
              /\ Revoked(rows)[d][n].challenge = session[d][n].challenge
              /\ Revoked(rows)[d][n].beside = session[d][n].beside
              /\ Revoked(rows)[d][n].live => session[d][n].live
              /\ Row("session", d, n) \notin rows => Revoked(rows)[d][n] = session[d][n]
<1>1. ASSUME NEW d \in Devices
      PROVE  /\ Revoked(rows)[d] \in Seq(SessionType) /\ Len(Revoked(rows)[d]) = Len(session[d])
             /\ \A n \in 1..Len(session[d]) :
                  /\ Revoked(rows)[d][n] \in SessionType
                  /\ Revoked(rows)[d][n].challenge = session[d][n].challenge
                  /\ Revoked(rows)[d][n].beside = session[d][n].beside
                  /\ Revoked(rows)[d][n].live => session[d][n].live
                  /\ Row("session", d, n) \notin rows => Revoked(rows)[d][n] = session[d][n]
  <2>0. session[d] \in Seq(SessionType) BY DEF IdTypes
  <2>1. Len(session[d]) \in Nat /\ \A n \in 1..Len(session[d]) : session[d][n] \in SessionType BY <2>0
  <2>2. Revoked(rows)[d] = [n \in 1..Len(session[d]) |->
           IF Row("session", d, n) \in rows THEN [session[d][n] EXCEPT !.live = FALSE] ELSE session[d][n]]
    BY DEF Revoked
  <2>3. ASSUME NEW n \in 1..Len(session[d])
        PROVE  /\ Revoked(rows)[d][n] \in SessionType
               /\ Revoked(rows)[d][n].challenge = session[d][n].challenge
               /\ Revoked(rows)[d][n].beside = session[d][n].beside
               /\ Revoked(rows)[d][n].live => session[d][n].live
               /\ Row("session", d, n) \notin rows => Revoked(rows)[d][n] = session[d][n]
    <3>1. session[d][n] \in SessionType BY <2>1
    <3>2. CASE Row("session", d, n) \in rows
      <4>1. Revoked(rows)[d][n] = [session[d][n] EXCEPT !.live = FALSE] BY <2>2, <3>2
      <4>. QED BY <3>1, <3>2, <4>1, TruthValues DEF SessionType
    <3>3. CASE Row("session", d, n) \notin rows BY <2>2, <3>1, <3>3
    <3>. QED BY <3>2, <3>3
  <2>4. Revoked(rows)[d] \in Seq(SessionType) /\ Len(Revoked(rows)[d]) = Len(session[d])
    <3>. DEFINE s == Revoked(rows)[d]
    <3>1. s = [n \in 1..Len(session[d]) |-> s[n]] BY <2>2
    <3>2. \A n \in 1..Len(session[d]) : s[n] \in SessionType BY <2>3
    <3>. HIDE DEF s
    <3>3. s \in [1..Len(session[d]) -> SessionType] BY <3>1, <3>2
    <3>4. s \in Seq(SessionType) BY <2>1, <3>3, SeqDef
    <3>. QED BY <2>1, <3>3, <3>4 DEF s
  <2>. QED BY <2>3, <2>4
<1>2. Revoked(rows) = [d \in Devices |-> Revoked(rows)[d]] BY DEF Revoked
<1>. QED BY <1>1, <1>2

\* Dooming changes nothing else of a transaction.
LEMMA DoomShape ==
  ASSUME NEW t \in [Callers -> TxnType], NEW rows
  PROVE  /\ Doom(t, rows) \in [Callers -> TxnType]
         /\ \A c \in Callers :
              /\ Doom(t, rows)[c].kind = t[c].kind /\ Doom(t, rows)[c].device = t[c].device
              /\ Doom(t, rows)[c].target = t[c].target /\ Doom(t, rows)[c].login = t[c].login
              /\ Doom(t, rows)[c].anchor = t[c].anchor /\ Doom(t, rows)[c].writes = t[c].writes
              /\ ~Doom(t, rows)[c].doomed => ~t[c].doomed /\ t[c].writes \cap rows = {}
<1>1. ASSUME NEW c \in Callers
      PROVE  /\ Doom(t, rows)[c] \in TxnType
             /\ Doom(t, rows)[c].kind = t[c].kind /\ Doom(t, rows)[c].device = t[c].device
             /\ Doom(t, rows)[c].target = t[c].target /\ Doom(t, rows)[c].login = t[c].login
             /\ Doom(t, rows)[c].anchor = t[c].anchor /\ Doom(t, rows)[c].writes = t[c].writes
             /\ ~Doom(t, rows)[c].doomed => ~t[c].doomed /\ t[c].writes \cap rows = {}
  <2>1. t[c] \in TxnType OBVIOUS
  <2>2. CASE t[c].writes \cap rows # {}
    <3>1. Doom(t, rows)[c] = [t[c] EXCEPT !.doomed = TRUE] BY <2>2 DEF Doom
    <3>. QED BY <2>1, <3>1, TruthValues DEF TxnType
  <2>3. CASE t[c].writes \cap rows = {}
    <3>1. Doom(t, rows)[c] = t[c] BY <2>3 DEF Doom
    <3>. QED BY <2>1, <2>3, <3>1
  <2>. QED BY <2>2, <2>3
<1>2. Doom(t, rows) = [c \in Callers |-> Doom(t, rows)[c]] BY DEF Doom
<1>. QED BY <1>1, <1>2

-----------------------------------------------------------------------------
(* What one step may do to the transactions of the others.                  *)

Ending == {"set", "revoke", "root", "confirm"}

\* The sessions that were there keep their place, and end only with their row.
SessionsStay(rows) ==
  \A d \in Devices :
    /\ Len(session'[d]) >= Len(session[d])
    /\ \A n \in 1..Len(session[d]) :
         /\ session'[d][n].beside = session[d][n].beside
         /\ session'[d][n].live => session[d][n].live
         /\ Row("session", d, n) \notin rows => session'[d][n] = session[d][n]

\* A step that writes these rows changes nothing that others rely on but by them.
Disciplined(rows) ==
  /\ SessionsStay(rows)
  /\ \A d \in Devices : pairing'[d] = pairing[d] \/ pairing[d] = "none" \/ Row("pairing", d, 0) \in rows
  /\ \A d \in Devices : device[d] = "active" /\ device'[d] # "active" =>
       Row("device", d, 0) \in rows /\ SeesAll(d, rows)
  /\ password' # password => Password \in rows /\ \A d \in Devices : SeesAll(d, rows)
  /\ ~rooted' => ~rooted /\ (Owner \in rows \/ \A d \in Devices : device[d] = "active" => device'[d] = "active")
  /\ asked' > asked => Recovery \in rows
  /\ recovery' # recovery => Recovery \in rows

\* Sessions that are new have been told that t was open.
NewAreBeside(t) ==
  ~t.doomed /\ t.kind \in Ending =>
    \A d \in Devices : \A n \in 1..Len(session'[d]) : n > Len(session[d]) => session'[d][n].beside

LEMMA SeesAllKeeps ==
  ASSUME IdTypes, IdTypes', NEW rows, SessionsStay(rows), NEW t \in TxnType, ~t.doomed, t.kind \in Ending,
         NewAreBeside(t), NEW d \in Devices, SeesAll(d, t.writes)
  PROVE  SeesAll(d, t.writes)'
<1>1. Len(session[d]) \in Nat /\ Len(session'[d]) \in Nat BY DEF IdTypes
<1>2. ASSUME NEW n \in 1..Len(session'[d]), session'[d][n].live, ~session'[d][n].beside
      PROVE  Row("session", d, n) \in t.writes
  <2>1. n \in 1..Len(session[d]) BY <1>1, <1>2 DEF NewAreBeside
  <2>2. session[d][n].live /\ ~session[d][n].beside BY <1>2, <2>1 DEF SessionsStay
  <2>. QED BY <2>1, <2>2 DEF SeesAll
<1>. QED BY <1>2 DEF SeesAll, Row

LEMMA AnchorKeeps ==
  ASSUME IdTypes, IdTypes', NEW rows, Disciplined(rows), NEW t \in TxnType, t.device \in Devices,
         t.writes \cap rows = {}, AnchorHolds(t), login'[t.login] = login[t.login]
  PROVE  AnchorHolds(t)'
<1>. DEFINE d == t.device
            n == t.anchor
<1>1. n \in 1..Len(session[d]) /\ Row("session", d, n) \in t.writes /\ session[d][n].live BY DEF AnchorHolds
<1>2. Row("session", d, n) \notin rows BY <1>1
<1>3. session'[d][n] = session[d][n] /\ Len(session'[d]) >= Len(session[d]) BY <1>1, <1>2 DEF Disciplined, SessionsStay
<1>4. Len(session[d]) \in Nat /\ Len(session'[d]) \in Nat BY DEF IdTypes
<1>5. n \in 1..Len(session'[d]) BY <1>1, <1>3, <1>4
<1>6. ~session[d][n].beside => device'[d] = "active" /\ password' = password
  <2>1. ~session[d][n].beside => ~SeesAll(d, rows) BY <1>1, <1>2 DEF SeesAll
  <2>2. ~session[d][n].beside => device[d] = "active" BY DEF AnchorHolds
  <2>. QED BY <2>1, <2>2 DEF Disciplined
<1>. QED BY <1>1, <1>3, <1>5, <1>6 DEF AnchorHolds, Row

LEMMA OthersKeep ==
  ASSUME IdTypes, IdTypes', NamedBy, NEW rows, Disciplined(rows), NEW t \in TxnType, TxnOK(t),
         ~t.doomed => t.writes \cap rows = {}, NewAreBeside(t),
         t.kind \in Minting => login'[t.login] = login[t.login]
  PROVE  TxnOK(t)'
<1>1. SUFFICES ASSUME ~t.doomed PROVE RowsHold(t)' BY DEF TxnOK
<1>2. RowsHold(t) /\ t.writes \cap rows = {} /\ SessionsStay(rows) BY <1>1 DEF TxnOK, Disciplined
<1>3. \A d \in Devices : Row("pairing", d, 0) \in t.writes => pairing'[d] = "pending"
  BY <1>2 DEF RowsHold, Disciplined
<1>4. t.kind = "renew" => AnchorHolds(t)'
  BY <1>2, AnchorKeeps DEF RowsHold, TxnOK, Minting
<1>5. t.kind = "revoke" => Owner \in t.writes /\ (~rooted' => OtherApprover(t.target)')
  <2>1. SUFFICES ASSUME t.kind = "revoke", ~rooted' PROVE OtherApprover(t.target)' BY <1>2 DEF RowsHold, Owner, Row
  <2>2. Owner \in t.writes /\ ~rooted /\ OtherApprover(t.target) BY <1>2, <2>1 DEF RowsHold, Disciplined
  <2>3. \A d \in Devices : device[d] = "active" => device'[d] = "active" BY <1>2, <2>1, <2>2 DEF Disciplined
  <2>. QED BY <2>2, <2>3 DEF OtherApprover, ActiveApprovers, Active
<1>6. t.kind \in Ending => \A d \in Devices : SeesAll(d, t.writes) => SeesAll(d, t.writes)'
  BY <1>1, <1>2, SeesAllKeeps
<1>7. t.kind = "reset" => asked' < RecoveriesPerDay
  <2>1. asked \in Nat /\ asked' \in Nat /\ RecoveriesPerDay \in Nat BY IdentityAssumption DEF IdTypes
  <2>. QED BY <1>2, <2>1 DEF RowsHold, Disciplined
<1>8. t.kind = "confirm" => recovery' = recovery /\ password' = password /\ device'[recovery.device] = "active"
  <2>1. SUFFICES ASSUME t.kind = "confirm"
                 PROVE  recovery' = recovery /\ password' = password /\ device'[recovery.device] = "active"
    OBVIOUS
  <2>2. /\ Recovery \notin rows /\ Password \notin rows /\ Row("device", recovery.device, 0) \notin rows
        /\ device[recovery.device] = "active" /\ recovery.device \in Devices
    BY <1>2, <2>1 DEF RowsHold, NamedBy
  <2>. QED BY <2>2 DEF Disciplined
<1>9. t.kind \in {"revoke", "root"} => Row("device", t.target, 0) \in t.writes /\ SeesAll(t.target, t.writes)'
  BY <1>2, <1>6 DEF RowsHold, TxnOK, Ending
<1>10. t.kind \in {"set", "confirm"} => Password \in t.writes /\ \A d \in Devices : SeesAll(d, t.writes)'
  BY <1>2, <1>6 DEF RowsHold, Ending
<1>11. t.kind = "confirm" => /\ Recovery \in t.writes /\ Row("device", recovery'.device, 0) \in t.writes
                             /\ recovery'.status = "pending" /\ device'[recovery'.device] = "active"
                             /\ password' = recovery'.since
  BY <1>2, <1>8 DEF RowsHold
<1>12. /\ t.kind = "pair" => Row("pairing", t.target, 0) \in t.writes
       /\ t.kind = "reset" => Recovery \in t.writes
  BY <1>2 DEF RowsHold
<1>. QED BY <1>3, <1>4, <1>5, <1>7, <1>9, <1>10, <1>11, <1>12 DEF RowsHold, Row, Owner, Password, Recovery

LEMMA TxnsKeep ==
  ASSUME IdInv, IdTypes', NEW rows, Disciplined(rows), NEW b \in [Callers -> TxnType], txn' = b,
         \A c \in Callers : /\ TxnOK(b[c]) /\ NewAreBeside(b[c])
                            /\ ~b[c].doomed => b[c].writes \cap rows = {}
                            /\ b[c].kind \in Minting => login'[b[c].login] = login[b[c].login]
  PROVE  \A c \in Callers : TxnOK(txn[c])'
<1>0. IdTypes /\ NamedBy BY DEF IdInv
<1>1. ASSUME NEW c \in Callers PROVE TxnOK(txn[c])'
  <2>1. PICK t \in TxnType : t = b[c] OBVIOUS
  <2>2. TxnOK(t)' BY <1>0, <2>1, OthersKeep
  <2>. QED BY <2>1, <2>2
<1>. QED BY <1>1

LEMMA NoTxnIsOK == NoTxn \in TxnType /\ TxnOK(NoTxn) /\ TxnOK(NoTxn)' /\ NoTxn.kind = "none" /\ NoTxn.writes = {}
<1>1. /\ NoTxn.kind = "none" /\ NoTxn.writes = {} /\ NoTxn.login = NoDevice
  BY DEF NoTxn
<1>2. NoTxn \in TxnType BY TruthValues DEF NoTxn, TxnType, TxnKinds, SomeDevice, Rows
<1>3. RowsHold(NoTxn) /\ RowsHold(NoTxn)' BY <1>1 DEF RowsHold
<1>. QED BY <1>1, <1>2, <1>3 DEF TxnOK, Minting

\* No session is made.
NoneIsNew == \A d \in Devices : Len(session'[d]) = Len(session[d])

LEMMA NoneIsBeside ==
  ASSUME IdTypes, NoneIsNew, NEW t
  PROVE  NewAreBeside(t)
<1>1. \A d \in Devices : Len(session[d]) \in Nat BY DEF IdTypes
<1>. QED BY <1>1 DEF NewAreBeside, NoneIsNew

\* Statements of their own: everyone's rows are looked at.
LEMMA DoomKeeps ==
  ASSUME IdInv, IdTypes', NEW rows, Disciplined(rows), NoneIsNew, txn' = Doom(txn, rows), UNCHANGED login
  PROVE  \A c \in Callers : TxnOK(txn[c])'
<1>0. IdTypes /\ txn \in [Callers -> TxnType] /\ \A c \in Callers : TxnOK(txn[c]) BY DEF IdInv, IdTypes
<1>1. PICK b : b = Doom(txn, rows) OBVIOUS
<1>2. b \in [Callers -> TxnType] BY <1>0, <1>1, DoomShape
<1>3. ASSUME NEW c \in Callers
      PROVE  /\ TxnOK(b[c]) /\ NewAreBeside(b[c])
             /\ ~b[c].doomed => b[c].writes \cap rows = {}
             /\ b[c].kind \in Minting => login'[b[c].login] = login[b[c].login]
  <2>1. /\ b[c].kind = txn[c].kind /\ b[c].device = txn[c].device
        /\ b[c].target = txn[c].target /\ b[c].login = txn[c].login
        /\ b[c].anchor = txn[c].anchor /\ b[c].writes = txn[c].writes
        /\ ~b[c].doomed => ~txn[c].doomed /\ txn[c].writes \cap rows = {}
    BY <1>0, <1>1, DoomShape
  <2>2. TxnOK(b[c]) BY <1>0, <2>1 DEF TxnOK, RowsHold, AnchorHolds
  <2>. QED BY <1>0, <2>1, <2>2, NoneIsBeside
<1>. QED BY <1>1, <1>2, <1>3, TxnsKeep

\* Commits: the one that commits is gone, and who writes one of its rows is doomed.
LEMMA CommitKeeps ==
  ASSUME IdInv, IdTypes', NEW c \in Callers, Committed(c), Disciplined(txn[c].writes),
         \A o \in Callers \ {c} : NewAreBeside(txn[o]),
         \A o \in Callers \ {c} : txn[o].kind \in Minting => login'[txn[o].login] = login[txn[o].login]
  PROVE  \A o \in Callers : TxnOK(txn[o])'
<1>0. IdTypes /\ txn \in [Callers -> TxnType] /\ \A o \in Callers : TxnOK(txn[o]) BY DEF IdInv, IdTypes
<1>1. PICK a : a = [txn EXCEPT ![c] = NoTxn] OBVIOUS
<1>2. a \in [Callers -> TxnType] /\ a[c] = NoTxn /\ \A o \in Callers \ {c} : a[o] = txn[o] BY <1>0, <1>1, NoTxnIsOK
<1>3. PICK rows : rows = txn[c].writes OBVIOUS
<1>4. PICK b : b = Doom(a, rows) OBVIOUS
<1>5. b \in [Callers -> TxnType] /\ txn' = b BY <1>1, <1>2, <1>3, <1>4, DoomShape DEF Committed
<1>6. ASSUME NEW o \in Callers
      PROVE  /\ TxnOK(b[o]) /\ NewAreBeside(b[o])
             /\ ~b[o].doomed => b[o].writes \cap rows = {}
             /\ b[o].kind \in Minting => login'[b[o].login] = login[b[o].login]
  <2>1. /\ b[o].kind = a[o].kind /\ b[o].device = a[o].device
        /\ b[o].target = a[o].target /\ b[o].login = a[o].login
        /\ b[o].anchor = a[o].anchor /\ b[o].writes = a[o].writes
        /\ ~b[o].doomed => ~a[o].doomed /\ a[o].writes \cap rows = {}
    BY <1>2, <1>4, DoomShape
  <2>2. TxnOK(a[o]) BY <1>0, <1>2, NoTxnIsOK
  <2>3. TxnOK(b[o]) BY <2>1, <2>2 DEF TxnOK, RowsHold, AnchorHolds
  <2>4. NewAreBeside(a[o]) /\ (a[o].kind \in Minting => login'[a[o].login] = login[a[o].login])
    <3>1. CASE o = c BY <1>2, <3>1, NoTxnIsOK DEF NewAreBeside, Ending, Minting
    <3>2. CASE o # c BY <1>2, <3>2
    <3>. QED BY <3>1, <3>2
  <2>5. NewAreBeside(b[o]) BY <2>1, <2>4 DEF NewAreBeside
  <2>. QED BY <2>1, <2>3, <2>4, <2>5
<1>. QED BY <1>3, <1>5, <1>6, TxnsKeep

\* Steps that write no row of a transaction: those that read, and the calls' own.
TablesStay == UNCHANGED <<device, password, session, recovery, asked, pairing, rooted>>

LEMMA StayIsDisciplined ==
  ASSUME IdTypes, TablesStay
  PROVE  Disciplined({}) /\ NoneIsNew
<1>1. \A d \in Devices : Len(session[d]) \in Nat BY DEF IdTypes
<1>. QED BY <1>1 DEF IdTypes, TablesStay, Disciplined, SessionsStay, NoneIsNew

LEMMA StayKeeps ==
  ASSUME IdInv, IdTypes', TablesStay, UNCHANGED txn,
         \A c \in Callers : txn[c].kind \in Minting => login'[txn[c].login] = login[txn[c].login]
  PROVE  \A c \in Callers : TxnOK(txn[c])'
<1>0. IdTypes /\ txn \in [Callers -> TxnType] /\ \A c \in Callers : TxnOK(txn[c]) BY DEF IdInv, IdTypes
<1>1. Disciplined({}) /\ NoneIsNew BY <1>0, StayIsDisciplined
<1>2. \A c \in Callers : NewAreBeside(txn[c]) BY <1>0, <1>1, NoneIsBeside
<1>. QED BY <1>0, <1>1, <1>2, TxnsKeep

LEMMA BeginKeeps ==
  ASSUME IdInv, IdTypes', TablesStay, NEW c \in Callers, NEW t \in TxnType, Begin(c, t), TxnOK(t)',
         \A o \in Callers \ {c} : txn[o].kind \in Minting => login'[txn[o].login] = login[txn[o].login]
  PROVE  \A o \in Callers : TxnOK(txn[o])'
<1>0. IdTypes /\ NamedBy /\ txn \in [Callers -> TxnType] /\ \A o \in Callers : TxnOK(txn[o]) BY DEF IdInv, IdTypes
<1>1. Disciplined({}) /\ NoneIsNew BY <1>0, StayIsDisciplined
<1>2. txn'[c] = t /\ \A o \in Callers \ {c} : txn'[o] = txn[o] BY <1>0 DEF Begin
<1>3. ASSUME NEW o \in Callers \ {c} PROVE TxnOK(txn[o])'
  <2>1. PICK u \in TxnType : u = txn[o] BY <1>0
  <2>2. NewAreBeside(u) BY <1>0, <1>1, NoneIsBeside
  <2>3. TxnOK(u)' BY <1>0, <1>1, <2>1, <2>2, OthersKeep
  <2>. QED BY <1>2, <2>1, <2>3
<1>. QED BY <1>2, <1>3

\* Steps that are no login's leave the challenges spent and the transactions their login's.
LEMMA LoginsRest ==
  ASSUME IdInv, UNCHANGED login, NoneIsNew,
         \A h \in Challenges : challenge[h].status = "closed" => challenge'[h].status = "closed",
         \A c \in Callers : txn'[c].kind \in Minting => txn'[c].kind = txn[c].kind /\ txn'[c].login = txn[c].login,
         \A d \in Devices : \A n \in 1..Len(session[d]) : session'[d][n].challenge = session[d][n].challenge
  PROVE  LoginInv' /\ SessionInv'
<1>1. IdTypes /\ LoginInv /\ SessionInv BY DEF IdInv
<1>2. \A d \in Devices : \A n \in 1..Len(session[d]) : session[d][n].challenge \in Challenges
  <2>1. ASSUME NEW d \in Devices, NEW n \in 1..Len(session[d]) PROVE session[d][n].challenge \in Challenges
    <3>1. session[d][n] \in SessionType BY <1>1 DEF IdTypes
    <3>. QED BY <3>1 DEF SessionType
  <2>. QED BY <2>1
<1>3. LoginInv' BY <1>1 DEF LoginInv, Past
<1>4. SessionInv'
  <2>1. \A d \in Devices : Len(session'[d]) = Len(session[d]) BY DEF NoneIsNew
  <2>2. ASSUME NEW d \in Devices, NEW n \in 1..Len(session'[d])
        PROVE  /\ challenge'[session'[d][n].challenge].status = "closed"
               /\ \A l \in Logins : login'[l].at \in Past => login'[l].challenge # session'[d][n].challenge
    <3>1. n \in 1..Len(session[d]) /\ session'[d][n].challenge = session[d][n].challenge BY <2>1
    <3>2. challenge[session[d][n].challenge].status = "closed" /\ session[d][n].challenge \in Challenges
      BY <1>1, <1>2, <3>1 DEF SessionInv
    <3>. QED BY <1>1, <3>1, <3>2 DEF SessionInv
  <2>3. ASSUME NEW d \in Devices, NEW e \in Devices, NEW n \in 1..Len(session'[d]),
               NEW m \in 1..Len(session'[e]), session'[d][n].challenge = session'[e][m].challenge
        PROVE  d = e /\ n = m
    <3>1. n \in 1..Len(session[d]) /\ m \in 1..Len(session[e]) BY <2>1
    <3>2. session[d][n].challenge = session[e][m].challenge BY <2>3, <3>1
    <3>. QED BY <1>1, <3>1, <3>2 DEF SessionInv
  <2>. QED BY <2>2, <2>3 DEF SessionInv
<1>. QED BY <1>3, <1>4

LEMMA DoomedLogins ==
  ASSUME NEW t \in [Callers -> TxnType], NEW rows, txn' = Doom(t, rows), NEW c \in Callers
  PROVE  txn'[c].kind = t[c].kind /\ txn'[c].login = t[c].login /\ txn'[c] \in TxnType
BY DoomShape

LEMMA CommittedLogins ==
  ASSUME IdTypes, NEW c \in Callers, Committed(c)
  PROVE  /\ txn' \in [Callers -> TxnType]
         /\ \A o \in Callers \ {c} : txn'[o].kind = txn[o].kind /\ txn'[o].login = txn[o].login
         /\ txn'[c].kind = "none"
<1>1. PICK a : a = [txn EXCEPT ![c] = NoTxn] OBVIOUS
<1>2. a \in [Callers -> TxnType] /\ a[c] = NoTxn /\ \A o \in Callers \ {c} : a[o] = txn[o]
  BY <1>1, NoTxnIsOK DEF IdTypes
<1>3. PICK rows : rows = txn[c].writes OBVIOUS
<1>4. txn' = Doom(a, rows) BY <1>1, <1>3 DEF Committed
<1>. QED BY <1>2, <1>4, DoomShape, NoTxnIsOK

-----------------------------------------------------------------------------
(* One lemma for each group of steps.                                       *)

LEMMA BootstrapStep ==
  ASSUME IdInv, NEW e \in Devices, Bootstrap(e)
  PROVE  IdInv'
<1>1. /\ Active = {} /\ device' = [device EXCEPT ![e] = "active"] /\ password' = 1
      /\ UNCHANGED <<session, challenge, login, action, recovery, asked, pairing, txn, rooted>>
  BY DEF Bootstrap
<1>2. IdTypes /\ NamedBy BY DEF IdInv
<1>3. IdTypes' BY <1>1, <1>2 DEF IdTypes
<1>4. NamedBy' BY <1>1, <1>2 DEF NamedBy
<1>5. LoginInv' /\ SessionInv' BY <1>1, LoginsRest DEF NoneIsNew
<1>6. ASSUME NEW c \in Callers PROVE TxnOK(txn[c])'
  <2>1. PICK t \in TxnType : t = txn[c] /\ TxnOK(t) BY <1>2 DEF IdInv, IdTypes
  <2>2. \A d \in Devices : device[d] # "active" BY <1>1 DEF Active
  <2>3. SUFFICES ASSUME ~t.doomed PROVE RowsHold(t)' BY <1>1, <2>1 DEF TxnOK
  <2>4. RowsHold(t) BY <2>1, <2>3 DEF TxnOK
  <2>5. t.kind = "renew" => AnchorHolds(t)'
    <3>1. t.kind = "renew" => t.device \in Devices BY <2>1 DEF TxnOK
    <3>. QED BY <1>1, <2>2, <2>4, <3>1 DEF RowsHold, AnchorHolds, Row
  <2>6. t.kind # "confirm" BY <1>2, <2>2, <2>4 DEF RowsHold, NamedBy
  <2>7. OtherApprover(t.target) => OtherApprover(t.target)' BY <1>1, <2>2 DEF OtherApprover, ActiveApprovers, Active
  <2>8. \A d \in Devices : SeesAll(d, t.writes) => SeesAll(d, t.writes)' BY <1>1 DEF SeesAll, Row
  <2>9. t.kind \in {"revoke", "root"} => t.target \in Devices BY <2>1 DEF TxnOK
  <2>. QED BY <1>1, <2>4, <2>5, <2>6, <2>7, <2>8, <2>9 DEF RowsHold, Row, Owner, Password, Recovery
<1>. QED BY <1>3, <1>4, <1>5, <1>6 DEF IdInv

LEMMA PairingSteps ==
  ASSUME IdInv, NEW e \in Devices, CreatePairing(e) \/ ClosePairing(e)
  PROVE  IdInv'
<1>0. IdTypes /\ NamedBy /\ txn \in [Callers -> TxnType] BY DEF IdInv, IdTypes
<1>1. /\ UNCHANGED <<device, password, session, challenge, login, action, recovery, asked, rooted>>
      /\ \E s \in {"pending", "closed"} : pairing' = [pairing EXCEPT ![e] = s]
  BY DEF CreatePairing, ClosePairing
<1>2. NamedBy' BY <1>0, <1>1 DEF NamedBy
<1>3. NoneIsNew BY <1>1 DEF NoneIsNew
<1>4. CASE CreatePairing(e)
  <2>1. UNCHANGED txn /\ pairing[e] = "none" BY <1>4 DEF CreatePairing
  <2>2. IdTypes' BY <1>0, <1>1, <2>1 DEF IdTypes
  <2>3. Disciplined({}) BY <1>0, <1>1, <2>1 DEF Disciplined, SessionsStay, IdTypes
  <2>4. \A c \in Callers : TxnOK(txn[c])'
    <3>1. \A c \in Callers : NewAreBeside(txn[c]) BY <1>0, <1>3, NoneIsBeside
    <3>2. \A c \in Callers : TxnOK(txn[c]) BY DEF IdInv
    <3>. QED BY <1>0, <1>1, <2>1, <2>2, <2>3, <3>1, <3>2, TxnsKeep
  <2>5. LoginInv' /\ SessionInv' BY <1>1, <1>3, <2>1, LoginsRest
  <2>. QED BY <1>2, <2>2, <2>4, <2>5 DEF IdInv
<1>5. CASE ClosePairing(e)
  <2>0. PICK rows : rows = {Row("pairing", e, 0)} OBVIOUS
  <2>1. txn' = Doom(txn, rows) BY <1>5, <2>0 DEF ClosePairing
  <2>2. txn' \in [Callers -> TxnType] BY <1>0, <2>1, DoomShape
  <2>3. IdTypes' BY <1>0, <1>1, <2>2 DEF IdTypes
  <2>4. Disciplined(rows) BY <1>0, <1>1, <2>0 DEF Disciplined, SessionsStay, IdTypes
  <2>5. \A c \in Callers : TxnOK(txn[c])' BY <1>1, <1>3, <2>1, <2>3, <2>4, DoomKeeps
  <2>6. LoginInv' /\ SessionInv' BY <1>0, <1>1, <1>3, <2>1, DoomedLogins, LoginsRest
  <2>. QED BY <1>2, <2>3, <2>5, <2>6 DEF IdInv
<1>. QED BY <1>4, <1>5

LEMMA LogoutStep ==
  ASSUME IdInv, NEW e \in Devices, Logout(e)
  PROVE  IdInv'
<1>0. IdTypes /\ NamedBy /\ txn \in [Callers -> TxnType] BY DEF IdInv, IdTypes
<1>1. PICK rows : rows = LiveRows({e}) OBVIOUS
<1>2. /\ UNCHANGED <<device, password, challenge, login, action, recovery, asked, pairing, rooted>>
      /\ session' = Revoked(rows) /\ txn' = Doom(txn, rows)
  BY <1>1 DEF Logout
<1>3. IdTypes' BY <1>0, <1>2, RevokedShape, DoomShape DEF IdTypes
<1>4. NamedBy' BY <1>0, <1>2 DEF NamedBy
<1>5. NoneIsNew BY <1>0, <1>2, RevokedShape DEF NoneIsNew
<1>6. SessionsStay(rows)
  <2>1. \A d \in Devices : Len(session[d]) \in Nat BY <1>0 DEF IdTypes
  <2>. QED BY <1>0, <1>2, <2>1, RevokedShape DEF SessionsStay
<1>7. Disciplined(rows) BY <1>0, <1>2, <1>6 DEF Disciplined, IdTypes
<1>8. \A c \in Callers : TxnOK(txn[c])' BY <1>2, <1>3, <1>5, <1>7, DoomKeeps
<1>9. LoginInv' /\ SessionInv'
  <2>1. \A c \in Callers : txn'[c].kind = txn[c].kind /\ txn'[c].login = txn[c].login
    BY <1>0, <1>2, DoomedLogins
  <2>2. \A d \in Devices : \A n \in 1..Len(session[d]) : session'[d][n].challenge = session[d][n].challenge
    BY <1>0, <1>2, RevokedShape
  <2>. QED BY <1>2, <1>5, <2>1, <2>2, LoginsRest
<1>. QED BY <1>3, <1>4, <1>8, <1>9 DEF IdInv

LEMMA StoreActionStep ==
  ASSUME IdInv, NEW d \in Devices,
         NEW a \in [kind : {"none", "set", "reset", "revoke"}, target : SomeDevice],
         a.kind = "revoke" => a.target \in Devices, StoreAction(d, a)
  PROVE  IdInv'
<1>0. IdTypes /\ NamedBy /\ txn \in [Callers -> TxnType] BY DEF IdInv, IdTypes
<1>1. PICK rows : rows = {Row("action", d, 0)} OBVIOUS
<1>2. /\ UNCHANGED <<device, password, session, challenge, login, recovery, asked, pairing, rooted>>
      /\ action' = [action EXCEPT ![d] = a] /\ txn' = Doom(txn, rows)
  BY <1>1 DEF StoreAction
<1>3. IdTypes' BY <1>0, <1>2, DoomShape DEF IdTypes
<1>4. NamedBy' BY <1>0, <1>2 DEF NamedBy, IdTypes
<1>5. NoneIsNew BY <1>2 DEF NoneIsNew
<1>6. Disciplined(rows) BY <1>0, <1>2 DEF Disciplined, SessionsStay, IdTypes
<1>7. \A c \in Callers : TxnOK(txn[c])' BY <1>2, <1>3, <1>5, <1>6, DoomKeeps
<1>8. LoginInv' /\ SessionInv' BY <1>0, <1>2, <1>5, DoomedLogins, LoginsRest
<1>. QED BY <1>3, <1>4, <1>7, <1>8 DEF IdInv

LEMMA RequestSteps ==
  ASSUME IdInv, NEW d \in Devices,
         \/ \E kind \in {"set", "reset"} : RequestPassword(d, kind)
         \/ \E e \in Devices : RequestRevoke(d, e)
  PROVE  IdInv'
<1>1. ASSUME NEW kind \in {"set", "reset"}, RequestPassword(d, kind) PROVE IdInv'
  <2>1. PICK a : a = [kind |-> kind, target |-> NoDevice] OBVIOUS
  <2>2. /\ a \in [kind : {"none", "set", "reset", "revoke"}, target : SomeDevice] /\ a.kind # "revoke"
        /\ StoreAction(d, a)
    BY <1>1, <2>1 DEF RequestPassword, SomeDevice
  <2>. QED BY <2>2, StoreActionStep
<1>2. ASSUME NEW e \in Devices, RequestRevoke(d, e) PROVE IdInv'
  <2>1. PICK a : a = [kind |-> "revoke", target |-> e] OBVIOUS
  <2>2. /\ a \in [kind : {"none", "set", "reset", "revoke"}, target : SomeDevice] /\ a.target \in Devices
        /\ StoreAction(d, a)
    BY <1>2, <2>1 DEF RequestRevoke, SomeDevice
  <2>. QED BY <2>2, StoreActionStep
<1>. QED BY <1>1, <1>2

\* A challenge that is open is no login's past its claim and no session's.
LEMMA ChallengeStep ==
  ASSUME IdInv, NEW h \in Challenges, NEW d \in Devices, CreateChallenge(h, d)
  PROVE  IdInv'
<1>0. IdTypes /\ NamedBy /\ txn \in [Callers -> TxnType] BY DEF IdInv, IdTypes
<1>1. /\ challenge[h].status = "none" /\ challenge' = [challenge EXCEPT ![h] = [device |-> d, status |-> "open"]]
      /\ UNCHANGED <<device, password, session, login, action, recovery, asked, pairing, rooted, txn>>
  BY DEF CreateChallenge
<1>2. [device |-> d, status |-> "open"] \in ChallengeType BY DEF ChallengeType, SomeDevice
<1>3. IdTypes' BY <1>0, <1>1, <1>2 DEF IdTypes
<1>4. NamedBy' BY <1>0, <1>1 DEF NamedBy, IdTypes
<1>5. \A c \in Callers : TxnOK(txn[c])' BY <1>1, <1>3, StayKeeps DEF TablesStay
<1>6. \A g \in Challenges : challenge[g].status = "closed" => challenge'[g].status = "closed"
  BY <1>0, <1>1 DEF IdTypes
<1>7. LoginInv' /\ SessionInv' BY <1>1, <1>6, LoginsRest DEF NoneIsNew
<1>. QED BY <1>3, <1>4, <1>5, <1>7 DEF IdInv

\* A login's own record becomes r; a claim closes the challenge it is for.
LEMMA LoginMoves ==
  ASSUME IdInv, NEW l \in Logins, login[l].at # "commit", NEW r \in LoginType, r.at # "commit",
         login' = [login EXCEPT ![l] = r],
         UNCHANGED <<device, password, session, action, recovery, asked, pairing, rooted, txn>>,
         challenge' \in [Challenges -> ChallengeType],
         \A h \in Challenges : challenge[h].status = "closed" => challenge'[h].status = "closed",
         \A h \in Challenges : challenge'[h].status = "open" => challenge[h].status = "open" /\ challenge'[h].device = challenge[h].device,
         r.at # "idle" => r.device \in Devices /\ r.challenge \in Challenges,
         r.at \in Past => \/ login[l].at \in Past /\ r.challenge = login[l].challenge
                          \/ challenge[r.challenge].status = "open" /\ challenge'[r.challenge].status = "closed"
  PROVE  IdInv'
<1>0. IdTypes /\ NamedBy /\ LoginInv /\ SessionInv /\ login \in [Logins -> LoginType] BY DEF IdInv, IdTypes
<1>1. login'[l] = r /\ \A m \in Logins \ {l} : login'[m] = login[m] BY <1>0
<1>2. IdTypes' BY <1>0 DEF IdTypes
<1>3. NamedBy' BY <1>0 DEF NamedBy
<1>4. \A c \in Callers : TxnOK(txn[c])'
  <2>1. \A c \in Callers : txn[c].kind \in Minting => txn[c].login \in Logins \ {l}
    BY DEF IdInv, TxnOK
  <2>. QED BY <1>1, <1>2, <2>1, StayKeeps DEF TablesStay
<1>5. LoginInv'
  <2>1. \A m \in Logins \ {l} : login[m].at \in Past => login[m].challenge \in Challenges /\ challenge[login[m].challenge].status = "closed"
    BY <1>0 DEF LoginInv, Past
  <2>2. r.at \in Past => \A m \in Logins \ {l} : login[m].at \in Past => login[m].challenge # r.challenge
    BY <1>0, <2>1 DEF LoginInv, Past
  <2>3. r.at \in Past => challenge'[r.challenge].status = "closed" BY <1>0 DEF LoginInv, Past
  <2>. QED BY <1>0, <1>1, <2>1, <2>2, <2>3 DEF LoginInv
<1>6. SessionInv'
  <2>1. ASSUME NEW d \in Devices, NEW n \in 1..Len(session[d])
        PROVE  /\ challenge'[session[d][n].challenge].status = "closed"
               /\ \A m \in Logins : login'[m].at \in Past => login'[m].challenge # session[d][n].challenge
    <3>1. session[d][n] \in SessionType BY <1>0 DEF IdTypes
    <3>2. session[d][n].challenge \in Challenges BY <3>1 DEF SessionType
    <3>3. challenge[session[d][n].challenge].status = "closed" BY <1>0 DEF SessionInv
    <3>. QED BY <1>0, <1>1, <3>2, <3>3 DEF SessionInv
  <2>. QED BY <1>0, <2>1 DEF SessionInv
<1>. QED BY <1>2, <1>3, <1>4, <1>5, <1>6 DEF IdInv

LEMMA NoLoginType == NoLogin \in LoginType /\ NoLogin.at = "idle"
BY DEF NoLogin, LoginType, SomeDevice

LEMMA LoginSteps ==
  ASSUME IdInv, NEW l \in Logins,
         \/ \E h \in Challenges, pw \in {0, password} : LoginStart(l, h, pw)
         \/ LoginClaim(l) \/ VerifyPassword(l) \/ LoginFails(l)
  PROVE  IdInv'
<1>0. IdTypes /\ NamedBy /\ LoginInv /\ login \in [Logins -> LoginType] /\ login[l] \in LoginType
      /\ challenge \in [Challenges -> ChallengeType] /\ password \in Nat
  BY DEF IdInv, IdTypes
<1>1. UNCHANGED <<device, password, session, action, recovery, asked, pairing, rooted, txn>>
  BY DEF LoginStart, LoginClaim, VerifyPassword, LoginFails, tables
<1>2. ASSUME NEW h \in Challenges, NEW pw \in {0, password}, LoginStart(l, h, pw) PROVE IdInv'
  <2>1. PICK r : r = [NoLogin EXCEPT !.at = "claim", !.challenge = h, !.device = challenge[h].device, !.password = pw]
    OBVIOUS
  <2>2. UNCHANGED challenge /\ login' = [login EXCEPT ![l] = r] /\ login[l] = NoLogin
        /\ challenge[h].status = "open"
    BY <1>2, <2>1 DEF LoginStart, tables
  <2>3. challenge[h].device \in Devices BY <1>0, <2>2 DEF NamedBy
  <2>4. pw \in Nat BY <1>0
  <2>5. r = [at |-> "claim", challenge |-> h, device |-> challenge[h].device, password |-> pw, revision |-> 0]
    BY <2>1 DEF NoLogin
  <2>6. r \in LoginType /\ r.at = "claim" /\ r.device \in Devices /\ r.challenge = h
    BY <2>3, <2>4, <2>5 DEF LoginType, SomeDevice
  <2>. QED BY <1>0, <1>1, <2>2, <2>6, NoLoginType, LoginMoves DEF Past
<1>3. CASE login' = [login EXCEPT ![l] = NoLogin] /\ UNCHANGED challenge /\ login[l].at # "commit"
  BY <1>0, <1>1, <1>3, NoLoginType, LoginMoves DEF Past
<1>4. CASE LoginClaim(l)
  <2>1. PICK h \in Challenges : h = login[l].challenge /\ login[l].at = "claim" BY <1>0, <1>4 DEF LoginClaim, LoginInv
  <2>2. CASE challenge[h].status = "open"
    <3>1. PICK w \in {"renew", "verify"} : login' = [login EXCEPT ![l].at = w]
      BY <1>4, <2>1, <2>2 DEF LoginClaim
    <3>2. PICK r : r = [login[l] EXCEPT !.at = w] OBVIOUS
    <3>3. r \in LoginType /\ r.at = w /\ r.challenge = h /\ r.device = login[l].device /\ login' = [login EXCEPT ![l] = r]
      BY <1>0, <2>1, <3>1, <3>2 DEF LoginType, Past
    <3>4. challenge' = [challenge EXCEPT ![h].status = "closed"] BY <1>4, <2>1, <2>2 DEF LoginClaim
    <3>5. PICK q : q = [challenge[h] EXCEPT !.status = "closed"] OBVIOUS
    <3>6. challenge' = [challenge EXCEPT ![h] = q] /\ q \in ChallengeType /\ q.status = "closed" /\ q.device = challenge[h].device
      BY <1>0, <3>4, <3>5 DEF ChallengeType
    <3>7. challenge' \in [Challenges -> ChallengeType] /\ challenge'[h].status = "closed"
          /\ \A g \in Challenges \ {h} : challenge'[g] = challenge[g]
      BY <1>0, <3>6
    <3>8. login[l].device \in Devices BY <1>0, <2>1 DEF LoginInv
    <3>. QED BY <1>1, <2>1, <2>2, <3>3, <3>7, <3>8, LoginMoves
  <2>3. CASE challenge[h].status # "open" BY <1>3, <1>4, <2>1, <2>3 DEF LoginClaim
  <2>. QED BY <2>2, <2>3
<1>5. CASE VerifyPassword(l)
  <2>1. login[l].at = "verify" /\ UNCHANGED challenge BY <1>5 DEF VerifyPassword, tables
  <2>2. CASE password = login[l].password
    <3>1. PICK r : r = [login[l] EXCEPT !.at = "mint", !.revision = password] OBVIOUS
    <3>2. login' = [login EXCEPT ![l] = r] BY <1>0, <1>5, <2>2, <3>1 DEF VerifyPassword
    <3>3. r \in LoginType /\ r.at = "mint" /\ r.challenge = login[l].challenge /\ r.device = login[l].device
      BY <1>0, <3>1 DEF LoginType, Past
    <3>4. login[l].device \in Devices /\ login[l].challenge \in Challenges /\ login[l].at \in Past
      BY <1>0, <2>1 DEF LoginInv, Past
    <3>. QED BY <1>0, <1>1, <2>1, <3>2, <3>3, <3>4, LoginMoves
  <2>3. CASE password # login[l].password
    <3>1. login' = [login EXCEPT ![l] = NoLogin] BY <1>0, <1>5, <2>3 DEF VerifyPassword
    <3>. QED BY <1>3, <2>1, <3>1
  <2>. QED BY <2>2, <2>3
<1>6. CASE LoginFails(l) BY <1>3, <1>6 DEF LoginFails, tables
<1>. QED BY <1>2, <1>4, <1>5, <1>6

LEMMA RollbackStep ==
  ASSUME IdInv, NEW c \in Callers, Rollback(c)
  PROVE  IdInv'
<1>0. /\ IdTypes /\ NamedBy /\ LoginInv /\ SessionInv /\ \A o \in Callers : TxnOK(txn[o])
      /\ txn \in [Callers -> TxnType] /\ login \in [Logins -> LoginType]
  BY DEF IdInv, IdTypes
<1>1. /\ UNCHANGED <<device, password, session, challenge, action, recovery, asked, pairing, rooted>>
      /\ txn' = [txn EXCEPT ![c] = NoTxn]
      /\ login' = IF txn[c].login \in Logins THEN [login EXCEPT ![txn[c].login] = NoLogin] ELSE login
  BY DEF Rollback, tables
<1>2. txn' \in [Callers -> TxnType] /\ login' \in [Logins -> LoginType] BY <1>0, <1>1, NoTxnIsOK, NoLoginType
<1>3. IdTypes' BY <1>0, <1>1, <1>2 DEF IdTypes
<1>4. NamedBy' BY <1>0, <1>1 DEF NamedBy
<1>5. PICK b \in [Callers -> TxnType] : txn' = b /\ b[c] = NoTxn /\ \A o \in Callers \ {c} : b[o] = txn[o]
  BY <1>0, <1>1, NoTxnIsOK
<1>6. TablesStay BY <1>1 DEF TablesStay
<1>7. Disciplined({}) /\ NoneIsNew BY <1>0, <1>6, StayIsDisciplined
<1>8. ASSUME NEW o \in Callers
      PROVE  /\ TxnOK(b[o]) /\ NewAreBeside(b[o])
             /\ b[o].kind \in Minting => login'[b[o].login] = login[b[o].login]
  <2>1. NewAreBeside(b[o]) BY <1>0, <1>7, NoneIsBeside
  <2>2. CASE o = c BY <1>5, <2>1, <2>2, NoTxnIsOK DEF Minting
  <2>3. CASE o # c
    <3>1. b[o] = txn[o] /\ TxnOK(b[o]) BY <1>0, <1>5, <2>3
    <3>2. txn[o].kind \in Minting => txn[o].login \in Logins BY <1>0 DEF TxnOK
    <3>3. txn[c].login \in Logins => txn[c].kind \in Minting BY <1>0, IdentityAssumption DEF TxnOK
    <3>4. txn[o].kind \in Minting /\ txn[c].login \in Logins => txn[o].login # txn[c].login
      BY <1>0, <2>3, <3>3 DEF LoginInv
    <3>5. txn[o].kind \in Minting => login'[txn[o].login] = login[txn[o].login] BY <1>0, <1>1, <3>2, <3>4
    <3>. QED BY <2>1, <3>1, <3>5
  <2>. QED BY <2>2, <2>3
<1>9. \A o \in Callers : TxnOK(txn[o])' BY <1>3, <1>5, <1>7, <1>8, TxnsKeep
<1>10. \A l \in Logins : login'[l] = login[l] \/ login'[l].at = "idle" BY <1>0, <1>1, NoLoginType
<1>11. LoginInv'
  <2>1. \A o \in Callers : b[o].kind \in Minting => b[o] = txn[o] BY <1>5, NoTxnIsOK DEF Minting
  <2>. QED BY <1>0, <1>1, <1>5, <1>10, <2>1 DEF LoginInv, Past
<1>12. SessionInv' BY <1>0, <1>1, <1>10 DEF SessionInv, Past
<1>. QED BY <1>3, <1>4, <1>9, <1>11, <1>12 DEF IdInv

LEMMA CloseRecoveryStep ==
  ASSUME IdInv, CloseRecovery
  PROVE  IdInv'
<1>0. IdTypes /\ NamedBy /\ txn \in [Callers -> TxnType] BY DEF IdInv, IdTypes
<1>1. PICK rows : rows = {Recovery} OBVIOUS
<1>2. /\ UNCHANGED <<device, password, session, challenge, login, action, asked, pairing, rooted>>
      /\ recovery' = [recovery EXCEPT !.status = "closed"] /\ txn' = Doom(txn, rows)
  BY <1>1 DEF CloseRecovery
<1>3. IdTypes' BY <1>0, <1>2, DoomShape DEF IdTypes
<1>4. recovery'.status = "closed" BY <1>0, <1>2 DEF IdTypes
<1>5. NamedBy' BY <1>0, <1>2, <1>4 DEF NamedBy
<1>6. NoneIsNew BY <1>2 DEF NoneIsNew
<1>7. Disciplined(rows) BY <1>0, <1>1, <1>2 DEF Disciplined, SessionsStay, IdTypes
<1>8. \A c \in Callers : TxnOK(txn[c])' BY <1>2, <1>3, <1>6, <1>7, DoomKeeps
<1>9. LoginInv' /\ SessionInv' BY <1>0, <1>2, <1>6, DoomedLogins, LoginsRest
<1>. QED BY <1>3, <1>5, <1>8, <1>9 DEF IdInv

LEMMA TimeStep ==
  ASSUME IdInv, TimePasses
  PROVE  IdInv'
<1>0. IdTypes /\ NamedBy /\ txn \in [Callers -> TxnType] /\ \A c \in Callers : TxnOK(txn[c]) BY DEF IdInv, IdTypes
<1>1. UNCHANGED <<device, password, session, login, recovery, pairing, txn, rooted>> BY DEF TimePasses
<1>2. /\ challenge' \in [Challenges -> ChallengeType]
      /\ \A h \in Challenges : challenge'[h] = challenge[h] \/ challenge'[h].status = "closed"
  <2>1. CASE UNCHANGED challenge BY <1>0, <2>1 DEF IdTypes
  <2>2. ASSUME NEW h \in Challenges, challenge' = [challenge EXCEPT ![h].status = "closed"]
        PROVE  /\ challenge' \in [Challenges -> ChallengeType]
               /\ \A g \in Challenges : challenge'[g] = challenge[g] \/ challenge'[g].status = "closed"
    <3>1. challenge \in [Challenges -> ChallengeType] /\ challenge[h] \in ChallengeType BY <1>0 DEF IdTypes
    <3>2. PICK q : q = [challenge[h] EXCEPT !.status = "closed"] OBVIOUS
    <3>3. challenge' = [challenge EXCEPT ![h] = q] /\ q \in ChallengeType /\ q.status = "closed"
      BY <2>2, <3>1, <3>2 DEF ChallengeType
    <3>. QED BY <3>1, <3>3
  <2>. QED BY <2>1, <2>2 DEF TimePasses
<1>3. action' \in [Devices -> [kind : {"none", "set", "reset", "revoke"}, target : SomeDevice]]
      /\ \A d \in Devices : action'[d] = action[d] \/ action'[d].kind = "none"
  <2>1. NoAction \in [kind : {"none", "set", "reset", "revoke"}, target : SomeDevice] /\ NoAction.kind = "none"
    BY DEF NoAction, SomeDevice
  <2>2. CASE UNCHANGED action BY <1>0, <2>2 DEF IdTypes
  <2>3. ASSUME NEW d \in Devices, action' = [action EXCEPT ![d] = NoAction]
        PROVE  /\ action' \in [Devices -> [kind : {"none", "set", "reset", "revoke"}, target : SomeDevice]]
               /\ \A e \in Devices : action'[e] = action[e] \/ action'[e].kind = "none"
    BY <1>0, <2>1, <2>3 DEF IdTypes
  <2>. QED BY <2>2, <2>3 DEF TimePasses
<1>4. asked' \in Nat /\ asked' <= asked BY <1>0 DEF TimePasses, IdTypes
<1>5. IdTypes' BY <1>0, <1>1, <1>2, <1>3, <1>4 DEF IdTypes
<1>6. NamedBy'
  <2>1. asked' <= RecoveriesPerDay BY <1>0, <1>4, IdentityAssumption DEF NamedBy, IdTypes
  <2>. QED BY <1>0, <1>1, <1>2, <1>3, <2>1 DEF NamedBy
<1>7. Disciplined({}) /\ NoneIsNew
  <2>1. ~(asked' > asked) BY <1>0, <1>4 DEF IdTypes
  <2>. QED BY <1>0, <1>1, <2>1 DEF Disciplined, SessionsStay, NoneIsNew, IdTypes
<1>8. \A c \in Callers : TxnOK(txn[c])'
  <2>1. \A c \in Callers : NewAreBeside(txn[c]) BY <1>0, <1>7, NoneIsBeside
  <2>. QED BY <1>0, <1>1, <1>5, <1>7, <2>1, TxnsKeep
<1>9. LoginInv' /\ SessionInv' BY <1>1, <1>2, <1>7, LoginsRest
<1>. QED BY <1>5, <1>6, <1>8, <1>9 DEF IdInv

-----------------------------------------------------------------------------
(* Transactions begin: what they checked, and the rows they will write.     *)

LEMMA RowSets ==
  ASSUME IdTypes, NEW ds \in SUBSET Devices
  PROVE  /\ LiveRows(ds) \subseteq Rows /\ ActionRows \subseteq Rows /\ PendingPairs \subseteq Rows
         /\ PendingRecovery(ds) \subseteq Rows /\ Password \in Rows /\ Owner \in Rows /\ Recovery \in Rows
         /\ \A d \in SomeDevice : Row("device", d, 0) \in Rows /\ Row("action", d, 0) \in Rows /\ Row("pairing", d, 0) \in Rows
<1>. USE DEF Row, Rows, RowTables, SomeDevice
<1>1. LiveRows(ds) \subseteq Rows
  <2>1. \A d \in ds : Len(session[d]) \in Nat BY DEF IdTypes
  <2>. QED BY <2>1 DEF LiveRows
<1>2. ActionRows \subseteq Rows /\ PendingPairs \subseteq Rows BY DEF ActionRows, PendingPairs
<1>3. Password \in Rows /\ Owner \in Rows /\ Recovery \in Rows BY DEF Password, Owner, Recovery
<1>4. PendingRecovery(ds) \subseteq Rows BY <1>3 DEF PendingRecovery
<1>. QED BY <1>1, <1>2, <1>3, <1>4

LEMMA PairRowsApart ==
  ASSUME NEW d \in Devices, NEW ds \in SUBSET Devices, NEW e
  PROVE  /\ Row("pairing", d, 0) \notin LiveRows(ds) \cup ActionRows \cup PendingRecovery(ds)
         /\ Row("pairing", d, 0) \notin {Password, Owner, Recovery, Row("device", e, 0), Row("action", e, 0)}
         /\ Row("pairing", d, 0) \in PendingPairs => pairing[d] = "pending"
         /\ Row("pairing", d, 0) = Row("pairing", e, 0) => d = e
<1>. USE DEF Row
<1>1. Row("pairing", d, 0) \notin LiveRows(ds) BY DEF LiveRows
<1>2. Row("pairing", d, 0) \notin ActionRows BY DEF ActionRows
<1>3. Row("pairing", d, 0) \notin PendingRecovery(ds) BY DEF PendingRecovery, Recovery
<1>4. Row("pairing", d, 0) \in PendingPairs => pairing[d] = "pending" BY DEF PendingPairs
<1>5. Row("pairing", d, 0) \notin {Password, Owner, Recovery, Row("device", e, 0), Row("action", e, 0)}
  BY DEF Password, Owner, Recovery
<1>. QED BY <1>1, <1>2, <1>3, <1>4, <1>5

LEMMA LiveRowsSee ==
  ASSUME NEW ds \in SUBSET Devices, NEW d \in ds, NEW rows, LiveRows(ds) \subseteq rows
  PROVE  SeesAll(d, rows)
BY DEF SeesAll, LiveRows

LEMMA BeginTypes ==
  ASSUME IdTypes, NEW c \in Callers, NEW t \in TxnType, Begin(c, t)
  PROVE  txn' \in [Callers -> TxnType] /\ txn'[c] = t /\ \A o \in Callers \ {c} : txn'[o] = txn[o]
BY DEF IdTypes, Begin

LEMMA BeginPlain ==
  ASSUME IdInv, NEW c \in Callers, NEW t \in TxnType, t.kind \notin Minting, TxnOK(t), Begin(c, t),
         UNCHANGED <<tables, login>>
  PROVE  IdInv'
<1>0. IdTypes /\ NamedBy BY DEF IdInv
<1>1. UNCHANGED <<device, password, session, challenge, action, recovery, asked, pairing, rooted, login>> BY DEF tables
<1>2. TablesStay BY <1>1 DEF TablesStay
<1>3. txn' \in [Callers -> TxnType] /\ txn'[c] = t /\ \A o \in Callers \ {c} : txn'[o] = txn[o]
  BY <1>0, BeginTypes
<1>4. IdTypes' BY <1>0, <1>1, <1>3 DEF IdTypes
<1>5. NamedBy' BY <1>0, <1>1 DEF NamedBy
<1>6. Disciplined({}) /\ NoneIsNew /\ NewAreBeside(t) BY <1>0, <1>2, StayIsDisciplined, NoneIsBeside
<1>7. TxnOK(t)' BY <1>0, <1>4, <1>6, OthersKeep
<1>8. \A o \in Callers : TxnOK(txn[o])' BY <1>1, <1>2, <1>4, <1>7, BeginKeeps
<1>9. LoginInv' /\ SessionInv' BY <1>1, <1>3, <1>6, LoginsRest
<1>. QED BY <1>4, <1>5, <1>8, <1>9 DEF IdInv

\* A transaction that has nothing but its rows.
Plain(kind, d, e, rows) ==
  [kind |-> kind, device |-> d, target |-> e, login |-> NoDevice, anchor |-> 0, writes |-> rows, doomed |-> FALSE]

LEMMA PlainTxn ==
  ASSUME NEW kind \in TxnKinds, NEW d \in SomeDevice, NEW e \in SomeDevice, NEW rows \in SUBSET Rows
  PROVE  /\ Plain(kind, d, e, rows) \in TxnType /\ Plain(kind, d, e, rows).kind = kind
         /\ Plain(kind, d, e, rows).device = d /\ Plain(kind, d, e, rows).target = e
         /\ Plain(kind, d, e, rows).writes = rows /\ Plain(kind, d, e, rows).login = NoDevice
<1>1. FALSE \in BOOLEAN BY TruthValues
<1>2. NoDevice \in Logins \cup {NoDevice} /\ 0 \in Nat OBVIOUS
<1>3. Plain(kind, d, e, rows) \in TxnType BY <1>1, <1>2, Zenon DEF Plain, TxnType
<1>. QED BY <1>3 DEF Plain

LEMMA NoneType == NoDevice \in SomeDevice /\ Devices \subseteq SomeDevice
BY DEF SomeDevice

LEMMA ApprovePairingStep ==
  ASSUME IdInv, NEW c \in Callers, NEW d \in Devices, ApprovePairing(c, d)
  PROVE  IdInv'
<1>0. IdTypes /\ d \in SomeDevice /\ NoDevice \in SomeDevice BY NoneType DEF IdInv
<1>1. PICK rows : rows = {Row("pairing", d, 0)} OBVIOUS
<1>2. rows \in SUBSET Rows BY <1>0, <1>1, RowSets
<1>3. PICK t : t = [NoTxn EXCEPT !.kind = "pair", !.target = d, !.writes = rows] OBVIOUS
<1>4. t = Plain("pair", NoDevice, d, rows) BY <1>3 DEF NoTxn, Plain
<1>5. "pair" \in TxnKinds BY DEF TxnKinds
<1>6. t \in TxnType /\ t.kind = "pair" /\ t.target = d /\ t.writes = rows /\ t.login = NoDevice
  BY <1>0, <1>2, <1>4, <1>5, PlainTxn
<1>7. /\ Begin(c, t) /\ UNCHANGED <<tables, login>> /\ pairing[d] = "pending" BY <1>1, <1>3 DEF ApprovePairing
<1>8. RowsHold(t) BY <1>1, <1>6, <1>7, PairRowsApart DEF RowsHold
<1>9. TxnOK(t) BY <1>6, <1>8 DEF TxnOK, Minting
<1>. QED BY <1>6, <1>7, <1>9, BeginPlain DEF Minting

LEMMA RootRevokeStep ==
  ASSUME IdInv, NEW c \in Callers, NEW d \in Devices, RootRevoke(c, d)
  PROVE  IdInv'
<1>0. IdTypes /\ d \in SomeDevice /\ NoDevice \in SomeDevice /\ {d} \in SUBSET Devices BY NoneType DEF IdInv
<1>1. PICK rows : rows = {Row("device", d, 0)} \cup LiveRows({d}) \cup PendingRecovery({d}) OBVIOUS
<1>2. rows \in SUBSET Rows BY <1>0, <1>1, RowSets
<1>3. PICK t : t = [NoTxn EXCEPT !.kind = "root", !.target = d, !.writes = rows] OBVIOUS
<1>4. t = Plain("root", NoDevice, d, rows) BY <1>3 DEF NoTxn, Plain
<1>5. "root" \in TxnKinds BY DEF TxnKinds
<1>6. t \in TxnType /\ t.kind = "root" /\ t.target = d /\ t.writes = rows /\ t.login = NoDevice
  BY <1>0, <1>2, <1>4, <1>5, PlainTxn
<1>7. /\ Begin(c, t) /\ UNCHANGED <<tables, login>> BY <1>1, <1>3 DEF RootRevoke
<1>8. SeesAll(d, rows) BY <1>0, <1>1, LiveRowsSee
<1>9. \A e \in Devices : Row("pairing", e, 0) \notin rows BY <1>0, <1>1, PairRowsApart
<1>10. RowsHold(t) BY <1>1, <1>6, <1>8, <1>9 DEF RowsHold
<1>11. TxnOK(t) BY <1>6, <1>10 DEF TxnOK, Minting
<1>. QED BY <1>6, <1>7, <1>11, BeginPlain DEF Minting

LEMMA ConfirmStep ==
  ASSUME IdInv, NEW c \in Callers, ConfirmRecovery(c)
  PROVE  IdInv'
<1>0. IdTypes /\ NamedBy /\ NoDevice \in SomeDevice /\ Devices \in SUBSET Devices BY NoneType DEF IdInv
<1>1. /\ recovery.status = "pending" /\ device[recovery.device] = "active" /\ password = recovery.since
      /\ UNCHANGED <<tables, login>>
  BY DEF ConfirmRecovery
<1>2. PICK d \in Devices : d = recovery.device BY <1>0, <1>1 DEF NamedBy
<1>3. d \in SomeDevice BY NoneType
<1>4. PICK rows : rows = ConfirmRows OBVIOUS
<1>5. rows = {Recovery, Password, Row("device", d, 0)} \cup LiveRows(Devices) \cup PendingPairs \cup ActionRows
  BY <1>2, <1>4 DEF ConfirmRows
<1>6. rows \in SUBSET Rows BY <1>0, <1>3, <1>5, RowSets
<1>7. PICK t : t = [NoTxn EXCEPT !.kind = "confirm", !.device = d, !.writes = rows] OBVIOUS
<1>8. t = Plain("confirm", d, NoDevice, rows) BY <1>7 DEF NoTxn, Plain
<1>9. "confirm" \in TxnKinds BY DEF TxnKinds
<1>10. t \in TxnType /\ t.kind = "confirm" /\ t.writes = rows /\ t.login = NoDevice
  BY <1>0, <1>3, <1>6, <1>8, <1>9, PlainTxn
<1>11. Begin(c, t) BY <1>2, <1>4, <1>7 DEF ConfirmRecovery
<1>12. \A e \in Devices : SeesAll(e, rows) BY <1>0, <1>5, LiveRowsSee
<1>13. \A e \in Devices : Row("pairing", e, 0) \in rows => pairing[e] = "pending"
  <2>1. ASSUME NEW e \in Devices, Row("pairing", e, 0) \in rows PROVE pairing[e] = "pending"
    BY <1>0, <1>5, <2>1, PairRowsApart
  <2>. QED BY <2>1
<1>14. RowsHold(t) BY <1>1, <1>2, <1>5, <1>10, <1>12, <1>13 DEF RowsHold
<1>15. TxnOK(t) BY <1>10, <1>14 DEF TxnOK, Minting
<1>. QED BY <1>1, <1>10, <1>11, <1>15, BeginPlain DEF Minting

LEMMA ApproveActionStep ==
  ASSUME IdInv, NEW c \in Callers, NEW d \in Devices, ApproveAction(c, d)
  PROVE  IdInv'
<1>0. IdTypes /\ NamedBy /\ d \in SomeDevice /\ NoDevice \in SomeDevice /\ Devices \in SUBSET Devices BY NoneType DEF IdInv
<1>1. UNCHANGED <<tables, login>> BY DEF ApproveAction
<1>2. /\ "set" \in TxnKinds /\ "revoke" \in TxnKinds /\ "reset" \in TxnKinds BY DEF TxnKinds
<1>3. CASE Begin(c, ApproveSet(d))
  <2>1. PICK rows : rows = {Password} \cup LiveRows(Devices) \cup ActionRows \cup PendingRecovery(Devices) OBVIOUS
  <2>2. rows \in SUBSET Rows BY <1>0, <2>1, RowSets
  <2>3. PICK t : t = ApproveSet(d) OBVIOUS
  <2>4. t = Plain("set", d, NoDevice, rows)
    BY <2>1, <2>3 DEF ApproveSet, NoTxn, Plain
  <2>5. t \in TxnType /\ t.kind = "set" /\ t.device = d /\ t.writes = rows /\ t.login = NoDevice
    BY <1>0, <1>2, <2>2, <2>4, PlainTxn
  <2>6. \A e \in Devices : SeesAll(e, rows) BY <1>0, <2>1, LiveRowsSee
  <2>7. \A e \in Devices : Row("pairing", e, 0) \notin rows BY <1>0, <2>1, PairRowsApart
  <2>8. RowsHold(t) BY <2>1, <2>5, <2>6, <2>7 DEF RowsHold
  <2>9. TxnOK(t) BY <2>5, <2>8 DEF TxnOK, Minting
  <2>. QED BY <1>1, <1>3, <2>3, <2>5, <2>9, BeginPlain DEF Minting
<1>4. ASSUME action[d].kind = "revoke", OtherApprover(action[d].target), Begin(c, ApproveRevoke(d, action[d].target))
      PROVE  IdInv'
  <2>0. PICK e \in Devices : e = action[d].target BY <1>0, <1>4 DEF NamedBy
  <2>1. PICK rows : rows = {Owner, Row("device", e, 0), Row("action", d, 0)} \cup LiveRows({e}) \cup PendingRecovery({e})
    OBVIOUS
  <2>2. e \in SomeDevice /\ {e} \in SUBSET Devices BY NoneType
  <2>3. rows \in SUBSET Rows BY <1>0, <2>1, <2>2, RowSets
  <2>4. PICK t : t = ApproveRevoke(d, e) OBVIOUS
  <2>5. t = Plain("revoke", d, e, rows)
    BY <2>1, <2>4 DEF ApproveRevoke, NoTxn, Plain
  <2>6. t \in TxnType /\ t.kind = "revoke" /\ t.target = e /\ t.writes = rows /\ t.login = NoDevice
    BY <1>0, <1>2, <2>2, <2>3, <2>5, PlainTxn
  <2>7. SeesAll(e, rows) BY <2>1, <2>2, LiveRowsSee
  <2>8. \A g \in Devices : Row("pairing", g, 0) \notin rows BY <2>1, <2>2, PairRowsApart
  <2>9. RowsHold(t) BY <1>4, <2>0, <2>1, <2>6, <2>7, <2>8 DEF RowsHold
  <2>10. TxnOK(t) BY <2>6, <2>9 DEF TxnOK, Minting
  <2>. QED BY <1>1, <1>4, <2>0, <2>4, <2>6, <2>10, BeginPlain DEF Minting
<1>5. CASE RecoveryOpen /\ Begin(c, ApproveReset(d))
  <2>1. PICK rows : rows = {Recovery, Row("action", d, 0)} OBVIOUS
  <2>2. rows \in SUBSET Rows BY <1>0, <2>1, RowSets
  <2>3. PICK t : t = ApproveReset(d) OBVIOUS
  <2>4. t = Plain("reset", d, NoDevice, rows)
    BY <2>1, <2>3 DEF ApproveReset, NoTxn, Plain
  <2>5. t \in TxnType /\ t.kind = "reset" /\ t.device = d /\ t.writes = rows /\ t.login = NoDevice
    BY <1>0, <1>2, <2>2, <2>4, PlainTxn
  <2>6. \A e \in Devices : Row("pairing", e, 0) \notin rows BY <1>0, <2>1, PairRowsApart
  <2>7. RowsHold(t) BY <1>5, <2>1, <2>5, <2>6 DEF RowsHold, RecoveryOpen
  <2>8. TxnOK(t) BY <2>5, <2>7 DEF TxnOK, Minting
  <2>. QED BY <1>1, <1>5, <2>3, <2>5, <2>8, BeginPlain DEF Minting
<1>. QED BY <1>3, <1>4, <1>5 DEF ApproveAction

\* A login opens the transaction of its session.
LEMMA MintKeeps ==
  ASSUME IdInv, NEW l \in Logins, NEW c \in Callers, NEW t \in TxnType, t.kind \in Minting, t.login = l,
         t.device \in Devices, login[l].at \in {"mint", "renew"}, NEW r \in LoginType, r.at = "commit",
         r.challenge = login[l].challenge, r.device = login[l].device,
         login' = [login EXCEPT ![l] = r], Begin(c, t), UNCHANGED tables, RowsHold(t)'
  PROVE  IdInv'
<1>0. /\ IdTypes /\ NamedBy /\ LoginInv /\ SessionInv /\ \A o \in Callers : TxnOK(txn[o])
      /\ login \in [Logins -> LoginType]
  BY DEF IdInv, IdTypes
<1>1. UNCHANGED <<device, password, session, challenge, action, recovery, asked, pairing, rooted>> BY DEF tables
<1>2. TablesStay BY <1>1 DEF TablesStay
<1>3. txn' \in [Callers -> TxnType] /\ txn'[c] = t /\ \A o \in Callers \ {c} : txn'[o] = txn[o]
  BY <1>0, BeginTypes
<1>4. login' \in [Logins -> LoginType] /\ login'[l] = r /\ \A m \in Logins \ {l} : login'[m] = login[m] BY <1>0
<1>5. IdTypes' BY <1>0, <1>1, <1>3, <1>4 DEF IdTypes
<1>6. NamedBy' BY <1>0, <1>1 DEF NamedBy
<1>7. \A o \in Callers : txn[o].kind \in Minting => txn[o].login \in Logins \ {l} BY <1>0 DEF TxnOK
<1>8. TxnOK(t)' BY <1>4 DEF TxnOK, Minting
<1>9. \A o \in Callers : TxnOK(txn[o])' BY <1>2, <1>4, <1>5, <1>7, <1>8, BeginKeeps
<1>10. LoginInv' BY <1>0, <1>1, <1>3, <1>4, <1>7 DEF LoginInv, Past
<1>11. SessionInv' BY <1>0, <1>1, <1>4 DEF SessionInv, Past
<1>. QED BY <1>5, <1>6, <1>9, <1>10, <1>11 DEF IdInv

LEMMA MintingTxn ==
  ASSUME NEW kind \in Minting, NEW d \in Devices, NEW l \in Logins, NEW n \in Nat, NEW rows \in SUBSET Rows, NEW t,
         t = [kind |-> kind, device |-> d, target |-> NoDevice, login |-> l, anchor |-> n, writes |-> rows, doomed |-> FALSE]
  PROVE  /\ t \in TxnType /\ t.kind = kind /\ t.device = d /\ t.login = l /\ t.anchor = n /\ t.writes = rows
<1>1. FALSE \in BOOLEAN BY TruthValues
<1>2. kind \in TxnKinds /\ d \in SomeDevice /\ NoDevice \in SomeDevice /\ l \in Logins \cup {NoDevice}
  BY DEF Minting, TxnKinds, SomeDevice
<1>3. t \in TxnType BY <1>1, <1>2, Zenon DEF TxnType
<1>. QED BY <1>3

LEMMA MintStep ==
  ASSUME IdInv, NEW l \in Logins, NEW c \in Callers, MintSession(l, c)
  PROVE  IdInv'
<1>0. IdTypes /\ LoginInv /\ login \in [Logins -> LoginType] /\ login[l] \in LoginType BY DEF IdInv, IdTypes
<1>1. login[l].at = "mint" /\ UNCHANGED tables BY DEF MintSession
<1>2. PICK d \in Devices : d = login[l].device BY <1>0, <1>1 DEF LoginInv
<1>3. PICK t : t = [NoTxn EXCEPT !.kind = "mint", !.device = d, !.login = l] OBVIOUS
<1>4. t = [kind |-> "mint", device |-> d, target |-> NoDevice, login |-> l, anchor |-> 0, writes |-> {}, doomed |-> FALSE]
  BY <1>3 DEF NoTxn
<1>5. "mint" \in Minting /\ {} \in SUBSET Rows /\ 0 \in Nat BY DEF Minting
<1>6. t \in TxnType /\ t.kind = "mint" /\ t.device = d /\ t.login = l /\ t.writes = {}
  BY <1>4, <1>5, MintingTxn
<1>7. PICK r : r = [login[l] EXCEPT !.at = "commit"] OBVIOUS
<1>8. r \in LoginType /\ r.at = "commit" /\ r.challenge = login[l].challenge /\ r.device = login[l].device
  BY <1>0, <1>7 DEF LoginType, Past
<1>9. login' = [login EXCEPT ![l] = r] /\ Begin(c, t) BY <1>0, <1>2, <1>3, <1>7 DEF MintSession
<1>10. RowsHold(t)' BY <1>6 DEF RowsHold
<1>. QED BY <1>1, <1>5, <1>6, <1>8, <1>9, <1>10, MintKeeps

LEMMA RenewStep ==
  ASSUME IdInv, NEW l \in Logins, NEW c \in Callers, RenewSession(l, c)
  PROVE  IdInv'
<1>0. IdTypes /\ LoginInv /\ login \in [Logins -> LoginType] /\ login[l] \in LoginType BY DEF IdInv, IdTypes
<1>1. login[l].at = "renew" /\ UNCHANGED tables BY DEF RenewSession
<1>2. PICK d \in Devices : d = login[l].device BY <1>0, <1>1 DEF LoginInv
<1>3. PICK n : n = Len(session[d]) OBVIOUS
<1>4. /\ device[d] = "active" /\ session[d] # <<>> /\ session[d][n].live /\ session[d][n].revision = password
  BY <1>2, <1>3 DEF RenewSession
<1>5. n \in 1..Len(session[d]) /\ n \in Nat BY <1>0, <1>3, <1>4 DEF IdTypes
<1>6. PICK rows : rows = LiveRows({d}) OBVIOUS
<1>7. {d} \in SUBSET Devices OBVIOUS
<1>8. rows \in SUBSET Rows BY <1>0, <1>6, <1>7, RowSets
<1>9. PICK t : t = [NoTxn EXCEPT !.kind = "renew", !.device = d, !.login = l, !.anchor = n, !.writes = rows] OBVIOUS
<1>10. t = [kind |-> "renew", device |-> d, target |-> NoDevice, login |-> l, anchor |-> n, writes |-> rows, doomed |-> FALSE]
  BY <1>9 DEF NoTxn
<1>11. "renew" \in Minting BY DEF Minting
<1>12. t \in TxnType /\ t.kind = "renew" /\ t.device = d /\ t.login = l /\ t.anchor = n /\ t.writes = rows
  BY <1>5, <1>8, <1>10, <1>11, MintingTxn
<1>13. PICK r : r = [login[l] EXCEPT !.at = "commit", !.revision = password] OBVIOUS
<1>14. r \in LoginType /\ r.at = "commit" /\ r.challenge = login[l].challenge /\ r.device = login[l].device /\ r.revision = password
  BY <1>0, <1>13 DEF LoginType, Past, IdTypes
<1>15. login' = [login EXCEPT ![l] = r] /\ Begin(c, t)
  <2>1. login' = [login EXCEPT ![l].at = "commit", ![l].revision = password]
    BY <1>2, <1>3, <1>4 DEF RenewSession
  <2>2. login' = [login EXCEPT ![l] = r] BY <1>0, <1>13, <2>1
  <2>3. Begin(c, t) BY <1>2, <1>3, <1>6, <1>9 DEF RenewSession
  <2>. QED BY <2>2, <2>3
<1>16. UNCHANGED <<session, device, password, pairing>> /\ login'[l] = r BY <1>0, <1>1, <1>15 DEF tables
<1>17. AnchorHolds(t)'
  <2>1. Row("session", d, n) \in rows BY <1>4, <1>5, <1>6 DEF LiveRows
  <2>. QED BY <1>4, <1>5, <1>12, <1>14, <1>16, <2>1 DEF AnchorHolds, Row
<1>18. \A e \in Devices : Row("pairing", e, 0) \notin rows BY <1>6, <1>7, PairRowsApart
<1>19. RowsHold(t)' BY <1>12, <1>17, <1>18 DEF RowsHold, Row
<1>. QED BY <1>1, <1>11, <1>12, <1>14, <1>15, <1>19, MintKeeps

-----------------------------------------------------------------------------
(* Transactions commit.                                                     *)

LEMMA ClearedShape ==
  ASSUME IdTypes, NamedBy, NEW rows
  PROVE  /\ Cleared(rows) \in [Devices -> [kind : {"none", "set", "reset", "revoke"}, target : SomeDevice]]
         /\ \A d \in Devices : Cleared(rows)[d].kind = "revoke" => Cleared(rows)[d].target \in Devices
<1>1. NoAction \in [kind : {"none", "set", "reset", "revoke"}, target : SomeDevice] /\ NoAction.kind = "none"
  BY DEF NoAction, SomeDevice
<1>. QED BY <1>1 DEF IdTypes, NamedBy, Cleared

LEMMA CommitLogins ==
  ASSUME IdInv, NEW c \in Callers, Committed(c), UNCHANGED <<login, challenge>>, NoneIsNew,
         \A d \in Devices : \A n \in 1..Len(session[d]) : session'[d][n].challenge = session[d][n].challenge
  PROVE  LoginInv' /\ SessionInv'
<1>1. \A o \in Callers : txn'[o].kind \in Minting => txn'[o].kind = txn[o].kind /\ txn'[o].login = txn[o].login
  BY CommittedLogins DEF IdInv, Minting
<1>. QED BY <1>1, LoginsRest

LEMMA CommitRests ==
  ASSUME IdInv, IdTypes', NamedBy', NEW c \in Callers, Committed(c), Disciplined(txn[c].writes), UNCHANGED <<login, challenge>>,
         NoneIsNew, \A d \in Devices : \A n \in 1..Len(session[d]) : session'[d][n].challenge = session[d][n].challenge
  PROVE  IdInv'
<1>1. IdTypes BY DEF IdInv
<1>2. \A o \in Callers : NewAreBeside(txn[o]) BY <1>1, NoneIsBeside
<1>3. \A o \in Callers : TxnOK(txn[o])' BY <1>2, CommitKeeps
<1>4. LoginInv' /\ SessionInv' BY CommitLogins
<1>. QED BY <1>3, <1>4 DEF IdInv

\* A transaction that commits has its rows right.
LEMMA CommittingHolds ==
  ASSUME IdInv, NEW c \in Callers, NEW kind, Committing(c, kind)
  PROVE  RowsHold(txn[c]) /\ TxnOK(txn[c]) /\ txn[c].kind = kind /\ txn[c] \in TxnType
BY DEF IdInv, IdTypes, TxnOK, Committing

LEMMA ActivatePairedStep ==
  ASSUME IdInv, NEW c \in Callers, ActivatePairing(c)
  PROVE  IdInv'
<1>0. IdTypes /\ NamedBy BY DEF IdInv
<1>1. RowsHold(txn[c]) /\ TxnOK(txn[c]) /\ txn[c].kind = "pair" BY CommittingHolds DEF ActivatePairing
<1>2. PICK d \in Devices : d = txn[c].target /\ Row("pairing", d, 0) \in txn[c].writes BY <1>1 DEF RowsHold, TxnOK
<1>3. /\ Committed(c) /\ pairing' = [pairing EXCEPT ![d] = "approved"] /\ device' = [device EXCEPT ![d] = "active"]
      /\ UNCHANGED <<password, session, challenge, login, action, recovery, asked, rooted>>
  BY <1>2 DEF ActivatePairing
<1>4. IdTypes' BY <1>0, <1>3, CommittedLogins DEF IdTypes
<1>5. NamedBy' BY <1>0, <1>3 DEF NamedBy
<1>6. NoneIsNew BY <1>3 DEF NoneIsNew
<1>7. SessionsStay(txn[c].writes) BY <1>0, <1>3 DEF SessionsStay, IdTypes
<1>8. Disciplined(txn[c].writes) BY <1>0, <1>2, <1>3, <1>7 DEF Disciplined, IdTypes
<1>. QED BY <1>3, <1>4, <1>5, <1>6, <1>8, CommitRests

\* The sessions a commit revokes, and the actions and the recovery it closes.
LEMMA RevokingCommit ==
  ASSUME IdInv, NEW c \in Callers, Committed(c), session' = Revoked(txn[c].writes)
  PROVE  /\ NoneIsNew /\ SessionsStay(txn[c].writes) /\ session' \in [Devices -> Seq(SessionType)]
         /\ \A d \in Devices : \A n \in 1..Len(session[d]) : session'[d][n].challenge = session[d][n].challenge
<1>0. IdTypes BY DEF IdInv
<1>1. PICK rows : rows = txn[c].writes OBVIOUS
<1>2. session' = Revoked(rows) BY <1>1
<1>3. \A d \in Devices : Len(session[d]) \in Nat BY <1>0 DEF IdTypes
<1>4. NoneIsNew BY <1>0, <1>2, RevokedShape DEF NoneIsNew
<1>5. SessionsStay(rows) BY <1>0, <1>2, <1>3, RevokedShape DEF SessionsStay
<1>. QED BY <1>0, <1>1, <1>2, <1>4, <1>5, RevokedShape

LEMMA ClosedRecovery ==
  ASSUME IdTypes, NamedBy, NEW s \in {"closed", "confirmed"},
         recovery' = recovery \/ recovery' = [recovery EXCEPT !.status = s]
  PROVE  /\ recovery' \in [status : {"none", "pending", "confirmed", "closed"}, device : SomeDevice, since : Nat]
         /\ recovery'.status = "pending" => recovery'.device \in Devices
BY DEF IdTypes, NamedBy

LEMMA SetPasswordStep ==
  ASSUME IdInv, NEW c \in Callers, SetPassword(c)
  PROVE  IdInv'
<1>0. IdTypes /\ NamedBy BY DEF IdInv
<1>1. RowsHold(txn[c]) /\ txn[c].kind = "set" BY CommittingHolds DEF SetPassword
<1>2. PICK rows : rows = txn[c].writes OBVIOUS
<1>3. /\ Committed(c) /\ password' = password + 1 /\ session' = Revoked(rows) /\ action' = Cleared(rows)
      /\ recovery' = IF Recovery \in rows THEN [recovery EXCEPT !.status = "closed"] ELSE recovery
      /\ UNCHANGED <<device, challenge, login, asked, pairing, rooted>>
  BY <1>2 DEF SetPassword
<1>4. /\ NoneIsNew /\ SessionsStay(rows) /\ session' \in [Devices -> Seq(SessionType)]
      /\ \A d \in Devices : \A n \in 1..Len(session[d]) : session'[d][n].challenge = session[d][n].challenge
  BY <1>2, <1>3, RevokingCommit
<1>5. /\ recovery' \in [status : {"none", "pending", "confirmed", "closed"}, device : SomeDevice, since : Nat]
      /\ recovery'.status = "pending" => recovery'.device \in Devices
  BY <1>0, <1>3, ClosedRecovery
<1>6. IdTypes' BY <1>0, <1>3, <1>4, <1>5, CommittedLogins, ClearedShape DEF IdTypes
<1>7. NamedBy' BY <1>0, <1>3, <1>5, ClearedShape DEF NamedBy
<1>8. Disciplined(rows) BY <1>0, <1>1, <1>2, <1>3, <1>4 DEF Disciplined, RowsHold, IdTypes
<1>. QED BY <1>2, <1>3, <1>4, <1>6, <1>7, <1>8, CommitRests

LEMMA RevokeDeviceStep ==
  ASSUME IdInv, NEW c \in Callers, RevokeDevice(c)
  PROVE  IdInv'
<1>0. IdTypes /\ NamedBy BY DEF IdInv
<1>1. RowsHold(txn[c]) /\ TxnOK(txn[c]) /\ txn[c].kind \in {"revoke", "root"} BY CommittingHolds DEF RevokeDevice
<1>2. PICK rows : rows = txn[c].writes OBVIOUS
<1>3. PICK d \in Devices : d = txn[c].target BY <1>1 DEF TxnOK
<1>4. /\ Committed(c) /\ device' = [device EXCEPT ![d] = "revoked"] /\ session' = Revoked(rows) /\ action' = Cleared(rows)
      /\ recovery' = IF Recovery \in rows THEN [recovery EXCEPT !.status = "closed"] ELSE recovery
      /\ rooted' = (rooted \/ txn[c].kind = "root")
      /\ UNCHANGED <<password, challenge, login, asked, pairing>>
  BY <1>2, <1>3 DEF RevokeDevice
<1>5. /\ NoneIsNew /\ SessionsStay(rows) /\ session' \in [Devices -> Seq(SessionType)]
      /\ \A e \in Devices : \A n \in 1..Len(session[e]) : session'[e][n].challenge = session[e][n].challenge
  BY <1>2, <1>4, RevokingCommit
<1>6. /\ recovery' \in [status : {"none", "pending", "confirmed", "closed"}, device : SomeDevice, since : Nat]
      /\ recovery'.status = "pending" => recovery'.device \in Devices
  BY <1>0, <1>4, ClosedRecovery
<1>7. IdTypes' BY <1>0, <1>4, <1>5, <1>6, CommittedLogins, ClearedShape DEF IdTypes
<1>8. NamedBy' BY <1>0, <1>4, <1>6, ClearedShape DEF NamedBy
<1>9. Row("device", d, 0) \in rows /\ SeesAll(d, rows) BY <1>1, <1>2, <1>3 DEF RowsHold
<1>10. ~rooted' => ~rooted /\ Owner \in rows BY <1>1, <1>2, <1>4 DEF RowsHold
<1>11. Disciplined(rows) BY <1>0, <1>4, <1>5, <1>9, <1>10 DEF Disciplined, IdTypes
<1>. QED BY <1>2, <1>4, <1>5, <1>7, <1>8, <1>11, CommitRests

LEMMA RecordRecoveryStep ==
  ASSUME IdInv, NEW c \in Callers, RecordRecovery(c)
  PROVE  IdInv'
<1>0. IdTypes /\ NamedBy BY DEF IdInv
<1>1. RowsHold(txn[c]) /\ TxnOK(txn[c]) /\ txn[c].kind = "reset" BY CommittingHolds DEF RecordRecovery
<1>2. PICK rows : rows = txn[c].writes OBVIOUS
<1>3. PICK d \in Devices : d = txn[c].device BY <1>1 DEF TxnOK
<1>4. /\ Committed(c) /\ recovery' = [status |-> "pending", device |-> d, since |-> password]
      /\ asked' = asked + 1 /\ action' = Cleared(rows)
      /\ UNCHANGED <<device, password, session, challenge, login, pairing, rooted>>
  BY <1>2, <1>3 DEF RecordRecovery
<1>5. Recovery \in rows /\ asked < RecoveriesPerDay BY <1>1, <1>2 DEF RowsHold
<1>6. IdTypes' BY <1>0, <1>4, CommittedLogins, ClearedShape, NoneType DEF IdTypes
<1>7. NamedBy'
  <2>1. asked' <= RecoveriesPerDay BY <1>0, <1>4, <1>5, IdentityAssumption DEF IdTypes
  <2>. QED BY <1>0, <1>4, <2>1, ClearedShape DEF NamedBy
<1>8. NoneIsNew BY <1>4 DEF NoneIsNew
<1>9. SessionsStay(rows) BY <1>0, <1>4 DEF SessionsStay, IdTypes
<1>10. Disciplined(rows) BY <1>0, <1>4, <1>5, <1>9 DEF Disciplined, IdTypes
<1>. QED BY <1>2, <1>4, <1>6, <1>7, <1>8, <1>10, CommitRests

LEMMA RecoveryCommitsStep ==
  ASSUME IdInv, NEW c \in Callers, RecoveryCommits(c)
  PROVE  IdInv'
<1>0. IdTypes /\ NamedBy BY DEF IdInv
<1>1. RowsHold(txn[c]) /\ txn[c].kind = "confirm" BY CommittingHolds DEF RecoveryCommits
<1>2. PICK rows : rows = txn[c].writes OBVIOUS
<1>3. /\ Committed(c) /\ password' = password + 1 /\ session' = Revoked(rows) /\ action' = Cleared(rows)
      /\ recovery' = [recovery EXCEPT !.status = "confirmed"]
      /\ pairing' = [d \in Devices |-> IF Row("pairing", d, 0) \in rows THEN "closed" ELSE pairing[d]]
      /\ UNCHANGED <<device, challenge, login, asked, rooted>>
  BY <1>2 DEF RecoveryCommits
<1>4. /\ NoneIsNew /\ SessionsStay(rows) /\ session' \in [Devices -> Seq(SessionType)]
      /\ \A d \in Devices : \A n \in 1..Len(session[d]) : session'[d][n].challenge = session[d][n].challenge
  BY <1>2, <1>3, RevokingCommit
<1>5. /\ recovery' \in [status : {"none", "pending", "confirmed", "closed"}, device : SomeDevice, since : Nat]
      /\ recovery'.status = "pending" => recovery'.device \in Devices
  BY <1>0, <1>3, ClosedRecovery
<1>6. IdTypes' BY <1>0, <1>3, <1>4, <1>5, CommittedLogins, ClearedShape DEF IdTypes
<1>7. NamedBy' BY <1>0, <1>3, <1>5, ClearedShape DEF NamedBy
<1>8. Disciplined(rows) BY <1>0, <1>1, <1>2, <1>3, <1>4 DEF Disciplined, RowsHold, IdTypes
<1>. QED BY <1>2, <1>3, <1>4, <1>6, <1>7, <1>8, CommitRests

\* The sessions after a login: one more, the others as the rows leave them.
LEMMA GrownSessions ==
  ASSUME IdTypes, NEW rows, NEW d \in Devices, NEW s \in SessionType,
         session' = [Revoked(rows) EXCEPT ![d] = Append(@, s)]
  PROVE  /\ session' \in [Devices -> Seq(SessionType)]
         /\ \A e \in Devices : Len(session'[e]) = IF e = d THEN Len(session[e]) + 1 ELSE Len(session[e])
         /\ session'[d][Len(session[d]) + 1] = s
         /\ \A e \in Devices : \A n \in 1..Len(session[e]) : session'[e][n] = Revoked(rows)[e][n]
<1>1. PICK kept : kept = Revoked(rows) OBVIOUS
<1>2. kept \in [Devices -> Seq(SessionType)] /\ \A e \in Devices : Len(kept[e]) = Len(session[e])
  BY <1>1, RevokedShape
<1>3. PICK q : q = Append(kept[d], s) OBVIOUS
<1>4. /\ q \in Seq(SessionType) /\ Len(q) = Len(kept[d]) + 1 /\ q[Len(kept[d]) + 1] = s
      /\ \A n \in 1..Len(kept[d]) : q[n] = kept[d][n]
  <2>1. kept[d] \in Seq(SessionType) BY <1>2
  <2>. QED BY <1>3, <2>1, AppendProperties
<1>5. session' = [kept EXCEPT ![d] = q] BY <1>1, <1>2, <1>3
<1>. QED BY <1>1, <1>2, <1>4, <1>5

LEMMA SessionStep ==
  ASSUME IdInv, NEW c \in Callers, SessionCommits(c)
  PROVE  IdInv'
<1>0. /\ IdTypes /\ NamedBy /\ LoginInv /\ SessionInv /\ login \in [Logins -> LoginType]
      /\ \A o \in Callers : TxnOK(txn[o])
  BY DEF IdInv, IdTypes
<1>1. TxnOK(txn[c]) /\ txn[c].kind \in Minting BY CommittingHolds DEF SessionCommits, Minting
<1>2. PICK d \in Devices : d = txn[c].device BY <1>1 DEF TxnOK, Minting
<1>3. PICK l \in Logins : l = txn[c].login /\ login[l].at = "commit" BY <1>1 DEF TxnOK
<1>4. PICK h \in Challenges : h = login[l].challenge BY <1>0, <1>3 DEF LoginInv
<1>5. PICK rows : rows = txn[c].writes OBVIOUS
<1>6. PICK s : s = [live |-> TRUE, revision |-> login[l].revision, challenge |-> h, beside |-> Beside(c)] OBVIOUS
<1>7. /\ Committed(c) /\ session' = [Revoked(rows) EXCEPT ![d] = Append(@, s)]
      /\ login' = [login EXCEPT ![l] = NoLogin]
      /\ UNCHANGED <<device, password, challenge, action, recovery, asked, pairing, rooted>>
  BY <1>2, <1>3, <1>4, <1>5, <1>6 DEF SessionCommits
<1>8. s \in SessionType /\ s.challenge = h /\ (Beside(c) => s.beside)
  <2>1. TRUE \in BOOLEAN /\ Beside(c) \in BOOLEAN BY Zenon DEF Beside
  <2>2. login[l].revision \in Nat BY <1>0 DEF LoginType
  <2>3. s \in SessionType BY <1>6, <2>1, <2>2, Zenon DEF SessionType
  <2>4. s.challenge = h BY <1>6
  <2>5. Beside(c) => s.beside BY <1>6
  <2>. QED BY <2>3, <2>4, <2>5
<1>9. /\ session' \in [Devices -> Seq(SessionType)]
      /\ \A e \in Devices : Len(session'[e]) = IF e = d THEN Len(session[e]) + 1 ELSE Len(session[e])
      /\ session'[d][Len(session[d]) + 1] = s
      /\ \A e \in Devices : \A n \in 1..Len(session[e]) : session'[e][n] = Revoked(rows)[e][n]
  BY <1>0, <1>7, <1>8, GrownSessions
<1>10. \A e \in Devices : Len(session[e]) \in Nat BY <1>0 DEF IdTypes
<1>11. SessionsStay(rows) BY <1>0, <1>9, <1>10, RevokedShape DEF SessionsStay
<1>12. IdTypes' BY <1>0, <1>7, <1>9, CommittedLogins, NoLoginType DEF IdTypes
<1>13. NamedBy' BY <1>0, <1>7 DEF NamedBy
<1>14. Disciplined(rows) BY <1>0, <1>7, <1>11 DEF Disciplined, IdTypes
<1>15. \A e \in Devices : \A n \in 1..Len(session'[e]) :
          n \in 1..Len(session[e]) \/ (e = d /\ n = Len(session[d]) + 1)
  BY <1>9, <1>10
<1>16. ASSUME NEW o \in Callers \ {c}
       PROVE  /\ NewAreBeside(txn[o])
              /\ txn[o].kind \in Minting => txn[o].login \in Logins \ {l}
  <2>1. ~txn[o].doomed /\ txn[o].kind \in Ending => Beside(c) BY DEF Beside, Ending
  <2>2. NewAreBeside(txn[o]) BY <1>8, <1>9, <1>10, <1>15, <2>1 DEF NewAreBeside
  <2>3. txn[o].kind \in Minting => txn[o].login \in Logins \ {l} BY <1>0, <1>1, <1>3 DEF TxnOK, LoginInv
  <2>. QED BY <2>2, <2>3
<1>17. login'[l] = NoLogin /\ \A m \in Logins \ {l} : login'[m] = login[m] BY <1>0, <1>7
<1>18. \A o \in Callers : TxnOK(txn[o])' BY <1>5, <1>7, <1>12, <1>14, <1>16, <1>17, CommitKeeps
<1>19. LoginInv'
  <2>1. \A o \in Callers : txn'[o].kind \in Minting => txn'[o].kind = txn[o].kind /\ txn'[o].login = txn[o].login
    BY <1>0, <1>7, CommittedLogins DEF Minting
  <2>. QED BY <1>0, <1>7, <1>17, <2>1, NoLoginType DEF LoginInv, Past
<1>20. SessionInv'
  <2>1. \A e \in Devices : \A n \in 1..Len(session[e]) :
          session'[e][n].challenge = session[e][n].challenge /\ session[e][n].challenge # h
    BY <1>0, <1>3, <1>4, <1>9, RevokedShape DEF SessionInv, Past
  <2>2. challenge'[h].status = "closed" /\ \A m \in Logins : login'[m].at \in Past => login'[m].challenge # h
    BY <1>0, <1>3, <1>4, <1>7, <1>17, NoLoginType DEF LoginInv, Past
  <2>3. ASSUME NEW e \in Devices, NEW n \in 1..Len(session'[e])
        PROVE  /\ challenge'[session'[e][n].challenge].status = "closed"
               /\ \A m \in Logins : login'[m].at \in Past => login'[m].challenge # session'[e][n].challenge
    <3>1. CASE n \in 1..Len(session[e]) BY <1>0, <1>7, <1>17, <2>1, <3>1, NoLoginType DEF SessionInv, Past
    <3>2. CASE e = d /\ n = Len(session[d]) + 1 BY <1>8, <1>9, <2>2, <3>2
    <3>. QED BY <1>15, <3>1, <3>2
  <2>4. ASSUME NEW e \in Devices, NEW g \in Devices, NEW n \in 1..Len(session'[e]), NEW m \in 1..Len(session'[g]),
               session'[e][n].challenge = session'[g][m].challenge
        PROVE  e = g /\ n = m
    <3>1. CASE n \in 1..Len(session[e]) /\ m \in 1..Len(session[g])
      BY <1>0, <2>1, <2>4, <3>1 DEF SessionInv
    <3>2. CASE n \in 1..Len(session[e]) /\ g = d /\ m = Len(session[d]) + 1 BY <1>8, <1>9, <2>1, <2>4, <3>2
    <3>3. CASE e = d /\ n = Len(session[d]) + 1 /\ m \in 1..Len(session[g]) BY <1>8, <1>9, <2>1, <2>4, <3>3
    <3>4. CASE e = d /\ n = Len(session[d]) + 1 /\ g = d /\ m = Len(session[d]) + 1 BY <3>4
    <3>. QED BY <1>15, <3>1, <3>2, <3>3, <3>4
  <2>. QED BY <2>3, <2>4 DEF SessionInv
<1>. QED BY <1>12, <1>13, <1>18, <1>19, <1>20 DEF IdInv

-----------------------------------------------------------------------------
(* The theorems.                                                            *)

LEMMA IdInvInit ==
  ASSUME IdentityInit
  PROVE  IdInv
<1>1. NoTxn \in TxnType /\ TxnOK(NoTxn) /\ NoTxn.kind = "none" BY NoTxnIsOK
<1>2. \A c \in Callers : txn[c] = NoTxn BY DEF IdentityInit
<1>3. \A l \in Logins : login[l].at = "idle" BY NoLoginType DEF IdentityInit
<1>4. \A d \in Devices : session[d] = <<>> /\ Len(session[d]) = 0 BY DEF IdentityInit
<1>5. session \in [Devices -> Seq(SessionType)] BY DEF IdentityInit
<1>6. recovery \in [status : {"none", "pending", "confirmed", "closed"}, device : SomeDevice, since : Nat]
      /\ recovery.status = "none"
  BY DEF IdentityInit, NoRecovery, SomeDevice
<1>7. action \in [Devices -> [kind : {"none", "set", "reset", "revoke"}, target : SomeDevice]]
      /\ \A d \in Devices : action[d].kind = "none"
  BY DEF IdentityInit, NoAction, SomeDevice
<1>8. challenge \in [Challenges -> ChallengeType] /\ \A h \in Challenges : challenge[h].status = "none"
  BY DEF IdentityInit, ChallengeType, SomeDevice
<1>9. IdTypes BY <1>1, <1>5, <1>6, <1>7, <1>8, NoLoginType DEF IdentityInit, IdTypes
<1>10. asked <= RecoveriesPerDay BY IdentityAssumption DEF IdentityInit
<1>11. NamedBy BY <1>6, <1>7, <1>8, <1>10 DEF NamedBy
<1>12. LoginInv BY <1>1, <1>2, <1>3 DEF LoginInv, Past, Minting
<1>13. SessionInv BY <1>4 DEF SessionInv
<1>. QED BY <1>1, <1>2, <1>9, <1>11, <1>12, <1>13 DEF IdInv

LEMMA IdInvStep ==
  ASSUME IdInv, [IdentityNext]_idVars
  PROVE  IdInv'
<1>1. CASE UNCHANGED idVars
  <2>1. /\ UNCHANGED <<device, password, session, challenge, action, recovery, asked, pairing, rooted>>
        /\ UNCHANGED <<login, txn>>
    BY <1>1 DEF idVars, tables
  <2>2. IdTypes /\ NamedBy BY DEF IdInv
  <2>3. IdTypes' BY <2>1, <2>2 DEF IdTypes
  <2>4. NamedBy' BY <2>1, <2>2 DEF NamedBy
  <2>5. \A c \in Callers : TxnOK(txn[c])' BY <2>1, <2>3, StayKeeps DEF TablesStay
  <2>6. LoginInv' /\ SessionInv' BY <2>1, LoginsRest DEF NoneIsNew
  <2>. QED BY <2>3, <2>4, <2>5, <2>6 DEF IdInv
<1>2. ASSUME NEW d \in Devices,
             \/ Bootstrap(d) \/ CreatePairing(d) \/ ClosePairing(d) \/ Logout(d)
             \/ \E h \in Challenges : CreateChallenge(h, d)
             \/ \E kind \in {"set", "reset"} : RequestPassword(d, kind)
             \/ \E e \in Devices : RequestRevoke(d, e)
      PROVE  IdInv'
  BY <1>2, BootstrapStep, PairingSteps, LogoutStep, ChallengeStep, RequestSteps
<1>3. ASSUME NEW l \in Logins,
             \/ \E h \in Challenges, pw \in {0, password} : LoginStart(l, h, pw)
             \/ LoginClaim(l) \/ VerifyPassword(l) \/ LoginFails(l)
      PROVE  IdInv'
  BY <1>3, LoginSteps
<1>4. ASSUME NEW l \in Logins, NEW c \in Callers, MintSession(l, c) \/ RenewSession(l, c) PROVE IdInv'
  BY <1>4, MintStep, RenewStep
<1>5. ASSUME NEW c \in Callers, NEW d \in Devices, ApprovePairing(c, d) \/ ApproveAction(c, d) \/ RootRevoke(c, d)
      PROVE  IdInv'
  BY <1>5, ApprovePairingStep, ApproveActionStep, RootRevokeStep
<1>6. ASSUME NEW c \in Callers,
             \/ ActivatePairing(c) \/ SessionCommits(c) \/ SetPassword(c) \/ RevokeDevice(c) \/ RecordRecovery(c)
             \/ ConfirmRecovery(c) \/ RecoveryCommits(c) \/ Rollback(c)
      PROVE  IdInv'
  BY <1>6, ActivatePairedStep, SessionStep, SetPasswordStep, RevokeDeviceStep, RecordRecoveryStep, ConfirmStep,
     RecoveryCommitsStep, RollbackStep
<1>7. CASE CloseRecovery \/ TimePasses BY <1>7, CloseRecoveryStep, TimeStep
<1>. QED BY <1>1, <1>2, <1>3, <1>4, <1>5, <1>6, <1>7 DEF IdentityNext

\* In every reachable state each challenge has minted at most one session, however many
\* logins presented it, and the recoveries recorded within a day are within the limit.
THEOREM CredentialsAreCountedAlways == IdentitySpec => []CredentialsAreCounted
<1>1. IdentityInit => IdInv BY IdInvInit
<1>2. IdInv /\ [IdentityNext]_idVars => IdInv' BY IdInvStep
<1>3. IdInv => CredentialsAreCounted
  <2>. SUFFICES ASSUME IdInv PROVE CredentialsAreCounted OBVIOUS
  <2>1. asked <= RecoveriesPerDay BY DEF IdInv, NamedBy
  <2>2. ASSUME NEW h \in Challenges
        PROVE  Cardinality({s \in Devices \X (1..MaxSessions) :
                  s[2] <= Len(session[s[1]]) /\ session[s[1]][s[2]].challenge = h}) <= 1
    <3>1. PICK madeBy : madeBy = {s \in Devices \X (1..MaxSessions) :
                  s[2] <= Len(session[s[1]]) /\ session[s[1]][s[2]].challenge = h} OBVIOUS
    <3>2. ASSUME NEW s \in madeBy, NEW t \in madeBy PROVE s = t
      <4>1. PICK d \in Devices, n \in 1..MaxSessions : s = <<d, n>> BY <3>1
      <4>2. PICK e \in Devices, m \in 1..MaxSessions : t = <<e, m>> BY <3>1
      <4>3. n \in 1..Len(session[d]) /\ session[d][n].challenge = h
        BY <3>1, <4>1, IdentityAssumption DEF IdInv, IdTypes
      <4>4. m \in 1..Len(session[e]) /\ session[e][m].challenge = h
        BY <3>1, <4>2, IdentityAssumption DEF IdInv, IdTypes
      <4>. QED BY <4>1, <4>2, <4>3, <4>4 DEF IdInv, SessionInv
    <3>3. madeBy = {} \/ \E s : madeBy = {s} BY <3>2
    <3>4. Cardinality(madeBy) <= 1
      <4>1. CASE madeBy = {} BY <4>1, FS_EmptySet
      <4>2. ASSUME NEW s, madeBy = {s} PROVE Cardinality(madeBy) = 1 BY <4>2, FS_Singleton
      <4>. QED BY <3>3, <4>1, <4>2
    <3>. QED BY <3>1, <3>4
  <2>. QED BY <2>1, <2>2 DEF CredentialsAreCounted
<1>. QED BY <1>1, <1>2, <1>3, PTL DEF IdentitySpec

LEMMA RenewalHolds ==
  ASSUME IdInv
  PROVE  RenewalIsCurrent
BY CommittingHolds DEF RenewalIsCurrent, RowsHold, AnchorHolds

\* What most steps leave alone.
Undecided ==
  /\ device' = device /\ pairing' = pairing
  /\ recovery' = recovery \/ recovery'.status \in {"pending", "closed"}

LEMMA UndecidedHolds ==
  ASSUME Undecided
  PROVE  ApproverRemains /\ DecisionIsFinal
<1>1. ApproverRemains BY DEF Undecided, ApproverRemains, ActiveApprovers, Active
<1>2. DecisionIsFinal BY DEF Undecided, DecisionIsFinal
<1>. QED BY <1>1, <1>2

\* Every step but six decides nothing.
LEMMA MostAreUndecided ==
  ASSUME IdInv, [IdentityNext]_idVars
  PROVE  \/ Undecided
         \/ \E d \in Devices : Bootstrap(d) \/ CreatePairing(d) \/ ClosePairing(d)
         \/ \E c \in Callers : ActivatePairing(c) \/ RevokeDevice(c) \/ RecoveryCommits(c)
<1>0. IdTypes BY DEF IdInv
<1>1. CASE UNCHANGED idVars BY <1>1 DEF idVars, tables, Undecided
<1>2. ASSUME NEW d \in Devices,
             \/ Logout(d) \/ \E h \in Challenges : CreateChallenge(h, d)
             \/ \E kind \in {"set", "reset"} : RequestPassword(d, kind)
             \/ \E e \in Devices : RequestRevoke(d, e)
      PROVE  Undecided
  BY <1>2 DEF Logout, CreateChallenge, RequestPassword, RequestRevoke, StoreAction, Undecided
<1>3. ASSUME NEW l \in Logins,
             \/ \E h \in Challenges, pw \in {0, password} : LoginStart(l, h, pw)
             \/ LoginClaim(l) \/ VerifyPassword(l) \/ LoginFails(l)
             \/ \E c \in Callers : MintSession(l, c) \/ RenewSession(l, c)
      PROVE  Undecided
  BY <1>3 DEF LoginStart, LoginClaim, VerifyPassword, LoginFails, MintSession, RenewSession, tables, Undecided
<1>4. ASSUME NEW c \in Callers,
             \/ \E d \in Devices : ApprovePairing(c, d) \/ ApproveAction(c, d) \/ RootRevoke(c, d)
             \/ SessionCommits(c) \/ ConfirmRecovery(c) \/ Rollback(c)
      PROVE  Undecided
  BY <1>4 DEF ApprovePairing, ApproveAction, RootRevoke, SessionCommits, ConfirmRecovery, Rollback, tables, Undecided
<1>5. ASSUME NEW c \in Callers, SetPassword(c) \/ RecordRecovery(c) PROVE Undecided
  BY <1>0, <1>5 DEF SetPassword, RecordRecovery, IdTypes, Undecided
<1>6. CASE CloseRecovery \/ TimePasses BY <1>0, <1>6 DEF CloseRecovery, TimePasses, IdTypes, Undecided
<1>. QED BY <1>1, <1>2, <1>3, <1>4, <1>5, <1>6 DEF IdentityNext

LEMMA PairingDecisions ==
  ASSUME IdInv, NEW d \in Devices, Bootstrap(d) \/ CreatePairing(d) \/ ClosePairing(d)
  PROVE  ApproverRemains /\ DecisionIsFinal
<1>0. IdTypes BY DEF IdInv
<1>1. CASE Bootstrap(d)
  <2>1. ApproverRemains BY <1>0, <1>1 DEF Bootstrap, ApproverRemains, ActiveApprovers
  <2>2. DecisionIsFinal BY <1>0, <1>1 DEF Bootstrap, DecisionIsFinal
  <2>. QED BY <2>1, <2>2
<1>2. CASE CreatePairing(d) \/ ClosePairing(d)
  <2>1. device' = device /\ recovery' = recovery BY <1>2 DEF CreatePairing, ClosePairing
  <2>2. \A e \in Devices : pairing[e] \in {"approved", "closed"} => pairing'[e] = pairing[e]
    BY <1>0, <1>2 DEF CreatePairing, ClosePairing, IdTypes
  <2>3. ApproverRemains BY <2>1 DEF ApproverRemains, ActiveApprovers, Active
  <2>. QED BY <2>1, <2>2, <2>3 DEF DecisionIsFinal
<1>. QED BY <1>1, <1>2

LEMMA ActivateDecision ==
  ASSUME IdInv, NEW c \in Callers, ActivatePairing(c)
  PROVE  ApproverRemains /\ DecisionIsFinal
<1>0. IdTypes BY DEF IdInv
<1>1. RowsHold(txn[c]) /\ TxnOK(txn[c]) /\ txn[c].kind = "pair" BY CommittingHolds DEF ActivatePairing
<1>2. PICK d \in Devices : d = txn[c].target /\ pairing[d] = "pending" BY <1>1 DEF RowsHold, TxnOK
<1>3. /\ pairing' = [pairing EXCEPT ![d] = "approved"] /\ device' = [device EXCEPT ![d] = "active"]
      /\ recovery' = recovery
  BY <1>2 DEF ActivatePairing
<1>4. ApproverRemains BY <1>0, <1>3 DEF ApproverRemains, ActiveApprovers, Active, IdTypes
<1>5. DecisionIsFinal BY <1>0, <1>2, <1>3 DEF DecisionIsFinal, IdTypes
<1>. QED BY <1>4, <1>5

LEMMA RevokeDecision ==
  ASSUME IdInv, NEW c \in Callers, RevokeDevice(c)
  PROVE  ApproverRemains /\ DecisionIsFinal
<1>0. IdTypes BY DEF IdInv
<1>1. RowsHold(txn[c]) /\ TxnOK(txn[c]) /\ txn[c].kind \in {"revoke", "root"} BY CommittingHolds DEF RevokeDevice
<1>2. PICK d \in Devices : d = txn[c].target BY <1>1 DEF TxnOK
<1>3. /\ device' = [device EXCEPT ![d] = "revoked"] /\ rooted' = (rooted \/ txn[c].kind = "root")
      /\ pairing' = pairing /\ (recovery' = recovery \/ recovery' = [recovery EXCEPT !.status = "closed"])
  BY <1>2 DEF RevokeDevice
<1>4. ~rooted' => OtherApprover(d) BY <1>1, <1>2, <1>3 DEF RowsHold
<1>5. \A e \in Devices : e # d => device'[e] = device[e] BY <1>0, <1>3 DEF IdTypes
<1>6. ApproverRemains
  <2>. SUFFICES ASSUME ActiveApprovers # {}, ~rooted' PROVE ActiveApprovers' # {} BY DEF ApproverRemains
  <2>1. PICK e \in ActiveApprovers : e # d
    <3>1. CASE ActiveApprovers \ {d} # {} BY <3>1
    <3>2. CASE d \notin Approvers BY <3>2 DEF ActiveApprovers
    <3>. QED BY <1>4, <3>1, <3>2 DEF OtherApprover
  <2>2. e \in ActiveApprovers' BY <1>5, <2>1 DEF ActiveApprovers, Active
  <2>. QED BY <2>2
<1>7. DecisionIsFinal BY <1>0, <1>3 DEF DecisionIsFinal, IdTypes
<1>. QED BY <1>6, <1>7

LEMMA RecoveryDecision ==
  ASSUME IdInv, NEW c \in Callers, RecoveryCommits(c)
  PROVE  ApproverRemains /\ DecisionIsFinal
<1>0. IdTypes BY DEF IdInv
<1>1. RowsHold(txn[c]) /\ txn[c].kind = "confirm" BY CommittingHolds DEF RecoveryCommits
<1>2. device[recovery.device] = "active" /\ password = recovery.since BY <1>1 DEF RowsHold
<1>3. /\ device' = device
      /\ pairing' = [d \in Devices |-> IF Row("pairing", d, 0) \in txn[c].writes THEN "closed" ELSE pairing[d]]
  BY DEF RecoveryCommits
<1>4. \A d \in Devices : pairing[d] \in {"approved", "closed"} => pairing'[d] = pairing[d]
  BY <1>1, <1>3 DEF RowsHold
<1>5. ApproverRemains BY <1>3 DEF ApproverRemains, ActiveApprovers, Active
<1>. QED BY <1>2, <1>3, <1>4, <1>5 DEF DecisionIsFinal

\* Every step commits on what still holds: a renewal on a live anchor and the password it
\* checked, a signed revocation with another approver left, a recovery with its signer
\* active and the password unchanged, and no decided pairing is decided again.
THEOREM DecisionsHoldAlways == IdentitySpec => DecisionsHold
<1>1. IdentityInit => IdInv BY IdInvInit
<1>2. IdInv /\ [IdentityNext]_idVars => IdInv' BY IdInvStep
<1>3. IdInv /\ [IdentityNext]_idVars => RenewalIsCurrent /\ ApproverRemains /\ DecisionIsFinal
  BY RenewalHolds, MostAreUndecided, UndecidedHolds, PairingDecisions, ActivateDecision, RevokeDecision,
     RecoveryDecision
<1>. QED BY <1>1, <1>2, <1>3, PTL DEF IdentitySpec, DecisionsHold

=============================================================================
