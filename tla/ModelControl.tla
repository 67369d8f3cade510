----------------------------- MODULE ModelControl -----------------------------
(***************************************************************************)
(* Signed changes of the model policy and of the model routing.            *)
(*                                                                         *)
(* The owner's device signs one operation, bound to the hash of the file   *)
(* it changes and usable once.  The Core relays it to a root broker over a  *)
(* local socket, waits at most two seconds for the answer, reads the       *)
(* protected file back, and swaps its live copy only if the file holds     *)
(* exactly the signed change; otherwise it suspends the live copy.  A root *)
(* command line tool edits the same files under the same directory lock    *)
(* and restarts the Core.  A file's hash is modelled by its content.       *)
(***************************************************************************)
EXTENDS Naturals

CONSTANTS
    Models,         \* provider and model pairs
    Documents,      \* whole routing documents
    Named,          \* the models each document routes to
    Requests,       \* identities of signed requests
    Jobs,           \* connections of the Core to the broker, one per relayed request
    Unrouted,       \* models whose Hugging Face route was unavailable at startup
    InitialPolicy,  \* the policy file when the Core first starts
    Edits,          \* the edits the command line tool may be asked for
    MaxBoots,       \* starts of the Core that are explored
    None, Suspended, Unavailable

ASSUME NamedAssumption == Named \in [Documents -> SUBSET Models]
ASSUME PolicyAssumption == InitialPolicy \in [Models -> {"absent", "off", "on"}]

Entry == {"absent", "off", "on"}
Policy == [Models -> Entry]
Operations ==
    [kind : {"toggle"}, model : Models, on : BOOLEAN, expected : Policy]
        \cup [kind : {"route"}, doc : Documents, expected : Documents \cup {None}]
EditType ==
    [kind : {"toggle"}, model : Models, on : BOOLEAN]
        \cup [kind : {"discover"}, model : Models, on : BOOLEAN]
        \cup [kind : {"route"}, doc : Documents]
CliType == [edit : Edits, base : Policy, pc : {"edit", "restart"}]

ASSUME EditsAssumption == Edits \subseteq EditType
ASSUME DistinctAssumption ==
    /\ None \notin Jobs \cup Requests \cup Operations \cup CliType
    /\ "cli" \notin Jobs \cup {None}
    /\ Unavailable \notin Documents /\ Suspended \notin Policy
ASSUME BootsAssumption == MaxBoots \in Nat \ {0}

VARIABLES
    policyFile,    \* the protected policy
    routingFile,   \* the protected routing.json, None when absent
    live,          \* the Core's policy, or Suspended
    liveRouting,   \* the Core's routing, None for the built-in order, or Unavailable
    approval,      \* what each request identity signs
    handler,       \* the holder of the Core's mutation lock
    jobs,          \* what the broker does on each connection
    told,          \* what the owner was told on each connection
    used,          \* the broker's durable replay markers
    dirLock,       \* the holder of the lock on the policy directory
    cli,           \* the running command line edit
    boots,
    unwatched      \* a change was committed after the Core stopped looking

files == <<policyFile, routingFile>>
core == <<live, liveRouting>>
broker == <<jobs, used>>
tool == <<cli, boots>>
vars == <<files, core, approval, handler, broker, told, dirLock, tool, unwatched>>

Discovered(p) == IF p = Suspended THEN {} ELSE {m \in Models : p[m] # "absent"}
Grants(p) == IF p = Suspended THEN {} ELSE {m \in Models : p[m] = "on"}
Set(p, m, on) == [p EXCEPT ![m] = IF on THEN "on" ELSE "off"]

Job(r, p) == [req |-> r, pc |-> p, base |-> None]
JobType ==
    [req : Requests \cup {None}, pc : {"idle", "queued", "authorised", "locked", "applied", "failed"},
     base : Policy \cup Documents \cup {None}]
HandlerType ==
    [job : Jobs, pc : {"connect", "wait"}, seen : Documents \cup {None, Unavailable}]

TypeOK ==
    /\ policyFile \in Policy
    /\ routingFile \in Documents \cup {None}
    /\ live \in Policy \cup {Suspended}
    /\ liveRouting \in Documents \cup {None, Unavailable}
    /\ approval \in [Requests -> Operations \cup {None}]
    /\ handler \in HandlerType \cup {None}
    /\ jobs \in [Jobs -> JobType]
    /\ told \in [Jobs -> {"none", "active", "denied", "unverified"}]
    /\ used \subseteq Requests
    /\ dirLock \in Jobs \cup {None, "cli"}
    /\ cli \in CliType \cup {None}
    /\ boots \in 1..MaxBoots
    /\ unwatched \in BOOLEAN

Init ==
    /\ policyFile = InitialPolicy /\ live = InitialPolicy
    /\ routingFile = None /\ liveRouting = None
    /\ approval = [r \in Requests |-> None]
    /\ used = {}
    /\ handler = None /\ dirLock = None /\ cli = None
    /\ jobs = [j \in Jobs |-> Job(None, "idle")]
    /\ told = [j \in Jobs |-> "none"]
    /\ boots = 1 /\ unwatched = FALSE

-----------------------------------------------------------------------------
\* The owner's view (GET): discovery is reconciled under the mutation lock.

\* refresh_discovery: known models are unchanged and new ones are disabled.
RefreshAllowed(p, v) ==
    /\ p # Suspended
    /\ \A m \in Models : IF p[m] # "absent" THEN v[m] = p[m] ELSE v[m] \in {"absent", "off"}

Refreshed == IF RefreshAllowed(live, policyFile) THEN policyFile ELSE live

View ==
    /\ handler = None
    /\ live' = Refreshed
    /\ UNCHANGED <<files, liveRouting, approval, handler, broker, told, dirLock, tool, unwatched>>

\* The device signs what the view shows. The policy's hash is published only when
\* the live policy is the stored one, the routing's hash always.
Approve(r) ==
    /\ handler = None /\ approval[r] = None
    /\ live' = Refreshed
    /\ \/ /\ live' = policyFile
          /\ \E m \in Models, on \in BOOLEAN : approval' = [approval EXCEPT ![r] =
                [kind |-> "toggle", model |-> m, on |-> on, expected |-> policyFile]]
       \/ \E d \in Documents : approval' = [approval EXCEPT ![r] =
                [kind |-> "route", doc |-> d, expected |-> routingFile]]
    /\ UNCHANGED <<files, liveRouting, handler, broker, told, dirLock, tool, unwatched>>

-----------------------------------------------------------------------------
\* The Core's handler of a signed request (POST).

\* What the handler checks under the mutation lock before it relays the request.
RelayableRouting(o) == o.expected = routingFile /\ Named[o.doc] \subseteq Discovered(live)

Relayable(o) ==
    IF o.kind = "toggle"
    THEN /\ o.on => o.model \notin Unrouted
         /\ o.expected = policyFile /\ live = policyFile
    ELSE RelayableRouting(o)

\* Requests that fail a check, are expired, or find the lock taken, change nothing. A
\* request may be sent again: each relay is one more connection.
Post(r, j) ==
    /\ handler = None
    /\ approval[r] # None
    /\ Relayable(approval[r])
    /\ jobs[j].req = None
    /\ jobs' = [jobs EXCEPT ![j].req = r]
    /\ handler' = [job |-> j, pc |-> "connect", seen |-> liveRouting]
    /\ UNCHANGED <<files, core, approval, used, told, dirLock, tool, unwatched>>

Asked == approval[jobs[handler.job].req]

\* The request reaches a broker task, or the socket is down, the peer is not root, or
\* all sixteen connections are taken.
Connect ==
    /\ handler # None /\ handler.pc = "connect"
    /\ \E p \in {"queued", "failed"} : jobs' = [jobs EXCEPT ![handler.job].pc = p]
    /\ handler' = [handler EXCEPT !.pc = "wait"]
    /\ UNCHANGED <<files, core, approval, used, told, dirLock, tool, unwatched>>

\* activate_verified_toggle and activate_signed_routing: the readback is exactly the
\* signed change, and the live copy is still what the handler started from.
Verified_AsRead(o) ==
    IF o.kind = "toggle" THEN live = o.expected ELSE liveRouting = handler.seen

VerifiedToggle(o) ==
    /\ o.model \in Discovered(o.expected)
    /\ policyFile = Set(o.expected, o.model, o.on)
    /\ live = o.expected

VerifiedRouting(o) == routingFile = o.doc /\ liveRouting = handler.seen

Verified(o) == IF o.kind = "toggle" THEN VerifiedToggle(o) ELSE VerifiedRouting(o)

\* A lost answer is no proof: the file must provably be what it was.
UntouchedRouting(o) == o.expected = routingFile
Untouched_Assumed(o) == TRUE
Untouched(o) == IF o.kind = "toggle" THEN o.expected = policyFile ELSE UntouchedRouting(o)

Suspend == live' = Suspended /\ UNCHANGED liveRouting
FailClosed == liveRouting' = Unavailable /\ UNCHANGED live
Withdraw(o) == IF o.kind = "toggle" THEN Suspend ELSE FailClosed

Finish(outcome) ==
    /\ told' = [told EXCEPT ![handler.job] = outcome]
    /\ handler' = None

\* The only reply that counts as success. The file read back may be unreadable.
SaysApplied_Any(j) == jobs[j].pc \in {"applied", "failed"}
SaysApplied(j) == jobs[j].pc = "applied"

Answered ==
    /\ handler # None /\ handler.pc = "wait"
    /\ SaysApplied(handler.job)
    /\ \E readable \in BOOLEAN :
       IF readable /\ Verified(Asked)
       THEN /\ IF Asked.kind = "toggle"
               THEN live' = policyFile /\ UNCHANGED liveRouting
               ELSE liveRouting' = routingFile /\ UNCHANGED live
            /\ Finish("active")
       ELSE Withdraw(Asked) /\ Finish("unverified")
    /\ UNCHANGED <<files, approval, broker, dirLock, tool, unwatched>>

\* A refusal, a closed connection, a lost reply, or two seconds of silence whatever
\* the broker is doing.
Unanswered ==
    /\ handler # None /\ handler.pc = "wait"
    /\ \E readable \in BOOLEAN :
       IF readable /\ Untouched(Asked)
       THEN UNCHANGED core /\ Finish("denied")
       ELSE Withdraw(Asked) /\ Finish("unverified")
    /\ UNCHANGED <<files, approval, broker, dirLock, tool, unwatched>>

\* The client disconnects and the handler's future is dropped at its await; the
\* broker's task goes on.
Drop ==
    /\ handler # None
    /\ handler' = None
    /\ jobs' = IF handler.pc = "connect" THEN [jobs EXCEPT ![handler.job].pc = "failed"] ELSE jobs
    /\ unwatched' = (unwatched \/ jobs[handler.job].pc = "applied")
    /\ UNCHANGED <<files, core, approval, used, told, dirLock, tool>>

-----------------------------------------------------------------------------
\* The broker: one task per connection.

Fail(j) == jobs' = [jobs EXCEPT ![j].pc = "failed"]

\* The expiry, the device's key and the signature are checked, then the request's
\* replay marker is created durably; a marker that exists refuses the request.
Unused_Unmarked(r) == TRUE
Unused(r) == r \notin used

Authorise(j) ==
    /\ jobs[j].pc = "queued"
    /\ Unused(jobs[j].req)
    /\ used' = used \cup {jobs[j].req}
    /\ jobs' = [jobs EXCEPT ![j].pc = "authorised"]
    /\ UNCHANGED <<files, core, approval, handler, told, dirLock, tool, unwatched>>

\* Expired, replayed, revoked device, wrong signature or unreachable database.
Refuse(j) ==
    /\ jobs[j].pc = "queued"
    /\ Fail(j)
    /\ UNCHANGED <<files, core, approval, handler, used, told, dirLock, tool, unwatched>>

\* What apply reads and requires once it has the directory lock.
Fits(o) ==
    IF o.kind = "toggle"
    THEN o.expected = policyFile /\ o.model \in Discovered(policyFile)
    ELSE o.expected = routingFile /\ Named[o.doc] \subseteq Discovered(policyFile)

LockFree_Unlocked == TRUE
LockFree == dirLock = None

Apply(j) ==
    /\ jobs[j].pc = "authorised"
    /\ IF LockFree /\ Fits(approval[jobs[j].req])
       THEN /\ dirLock' = j
            /\ jobs' = [jobs EXCEPT ![j].pc = "locked", ![j].base =
                    IF approval[jobs[j].req].kind = "toggle" THEN policyFile ELSE routingFile]
       ELSE Fail(j) /\ UNCHANGED dirLock
    /\ UNCHANGED <<files, core, approval, handler, used, told, tool, unwatched>>

\* The staged file replaces the old one and the lock is released, or the write fails.
Write(j) ==
    LET o == approval[jobs[j].req] IN
    /\ jobs[j].pc = "locked"
    /\ dirLock' = IF dirLock = j THEN None ELSE dirLock
    /\ \/ /\ IF o.kind = "toggle"
             THEN policyFile' = Set(jobs[j].base, o.model, o.on) /\ UNCHANGED routingFile
             ELSE routingFile' = o.doc /\ UNCHANGED policyFile
          /\ jobs' = [jobs EXCEPT ![j].pc = "applied"]
          /\ unwatched' = (unwatched \/ handler = None \/ (handler # None /\ handler.job # j))
       \/ Fail(j) /\ UNCHANGED <<files, unwatched>>
    /\ UNCHANGED <<core, approval, handler, used, told, tool>>

\* The broker dies: its tasks and its lock are gone, its markers stay.
Running == {j \in Jobs : jobs[j].pc \in {"queued", "authorised", "locked"}}
BrokerCrash ==
    /\ Running # {}
    /\ jobs' = [j \in Jobs |-> IF j \in Running THEN [jobs[j] EXCEPT !.pc = "failed"] ELSE jobs[j]]
    /\ dirLock' = IF dirLock \in Jobs THEN None ELSE dirLock
    /\ UNCHANGED <<files, core, approval, handler, used, told, tool, unwatched>>

-----------------------------------------------------------------------------
\* A start of the Core reads both files.
Boot ==
    /\ boots < MaxBoots
    /\ boots' = boots + 1
    /\ live' = policyFile /\ liveRouting' = routingFile
    /\ handler' = None
    /\ unwatched' = FALSE
    /\ jobs' = IF handler # None /\ handler.pc = "connect"
               THEN [jobs EXCEPT ![handler.job].pc = "failed"] ELSE jobs

CoreRestart ==
    /\ Boot
    /\ UNCHANGED <<files, approval, used, told, dirLock, cli>>

-----------------------------------------------------------------------------
\* The root command line tool: lock, read, write, restart the Core, unlock.

Editable(e) ==
    CASE e.kind = "toggle" -> e.model \in Discovered(policyFile)
      [] e.kind = "discover" -> e.model \notin Discovered(policyFile)
      [] OTHER -> Named[e.doc] \subseteq Discovered(policyFile)

CliLock(e) ==
    /\ cli = None /\ dirLock = None
    /\ Editable(e)
    /\ dirLock' = "cli"
    /\ cli' = [edit |-> e, base |-> policyFile, pc |-> "edit"]
    /\ UNCHANGED <<files, core, approval, handler, broker, told, boots, unwatched>>

\* A discovery keeps every known entry and does not restart the Core.
CliWrite ==
    /\ cli # None /\ cli.pc = "edit"
    /\ IF cli.edit.kind = "route"
       THEN routingFile' = cli.edit.doc /\ UNCHANGED policyFile
       ELSE policyFile' = Set(cli.base, cli.edit.model, cli.edit.on) /\ UNCHANGED routingFile
    /\ IF cli.edit.kind = "discover"
       THEN cli' = None /\ dirLock' = None
       ELSE cli' = [cli EXCEPT !.pc = "restart"] /\ UNCHANGED dirLock
    /\ UNCHANGED <<core, approval, handler, broker, told, boots, unwatched>>

CliRestart ==
    /\ cli # None /\ cli.pc = "restart"
    /\ Boot
    /\ cli' = None /\ dirLock' = None
    /\ UNCHANGED <<files, approval, used, told>>

-----------------------------------------------------------------------------
Next ==
    \/ View
    \/ \E r \in Requests : Approve(r) \/ \E j \in Jobs : Post(r, j)
    \/ Connect
    \/ Answered
    \/ Unanswered
    \/ Drop
    \/ \E j \in Jobs : Authorise(j) \/ Refuse(j) \/ Apply(j) \/ Write(j)
    \/ BrokerCrash
    \/ CoreRestart
    \/ \E e \in Edits : CliLock(e)
    \/ CliWrite
    \/ CliRestart

Spec == Init /\ [][Next]_vars

-----------------------------------------------------------------------------
\* A signed approval changes a file at most once, however often it is sent, also when
\* the file is back at the content the approval was bound to.
ApprovalOnce ==
    \A j, k \in Jobs :
        jobs[j].pc = "applied" /\ jobs[k].pc = "applied" /\ jobs[j].req = jobs[k].req => j = k

\* The owner is told that a change is active only if the broker committed it.
ActiveIsCommitted == \A j \in Jobs : told[j] = "active" => jobs[j].pc = "applied"

\* Writers of one file never undo each other: a write changes no entry but the one it
\* was asked to change.
Asks(m) ==
    \/ \E j \in Jobs : jobs[j].pc = "locked" /\ jobs'[j].pc = "applied"
                       /\ approval[jobs[j].req].kind = "toggle" /\ approval[jobs[j].req].model = m
    \/ cli # None /\ cli.pc = "edit" /\ cli' # cli
                  /\ cli.edit.kind # "route" /\ cli.edit.model = m
NoLostEdit == [][\A m \in Models : policyFile'[m] # policyFile[m] => Asks(m)]_vars

\* Without a restart, the live policy gains a grant only in the step that tells the
\* owner that exactly this grant is active, and the live routing only a signed document;
\* a suspended policy does not recover at all.
NowActive(o) ==
    \E j \in Jobs : told[j] # "active" /\ told'[j] = "active" /\ approval[jobs[j].req] = o
Piggyback ==
    boots' = boots =>
        /\ \A m \in Grants(live') \ Grants(live) :
                \E o \in Operations : o.kind = "toggle" /\ o.model = m /\ o.on /\ NowActive(o)
        /\ liveRouting' \in Documents \ {liveRouting} =>
                \E o \in Operations : o.kind = "route" /\ o.doc = liveRouting' /\ NowActive(o)
        /\ live = Suspended => live' = Suspended
NoPiggyback == [][Piggyback]_vars

\* Once nobody is changing anything, the Core grants nothing and routes nothing that the
\* protected files do not, unless a change was committed after the Core stopped looking.
Quiescent == handler = None /\ Running = {} /\ cli = None
Current ==
    /\ Grants(live) \subseteq Grants(policyFile)
    /\ liveRouting \in {routingFile, Unavailable}
LiveIsCurrent == Quiescent /\ ~unwatched => Current

-----------------------------------------------------------------------------
\* The inductive strengthening of the properties above.

\* A request past its replay marker: the marker is there, and no other connection
\* carries the same request past it.
Marked == {j \in Jobs : jobs[j].pc \in {"authorised", "locked", "applied"}}
MarkerInv ==
    /\ \A j \in Marked : jobs[j].req \in used
    /\ \A j, k \in Marked : jobs[j].req = jobs[k].req => j = k

\* A connection carries a signed request from its start, and nothing reached the
\* broker on one that is not connected yet.
RelayInv ==
    /\ \A j \in Jobs : jobs[j].req = None => jobs[j].pc = "idle"
    /\ \A j \in Jobs : jobs[j].req # None => approval[jobs[j].req] # None
    /\ handler # None => jobs[handler.job].req # None
    /\ handler # None /\ handler.pc = "connect" => jobs[handler.job].pc = "idle"

\* Whoever read a file to replace it holds the lock, and the file is as it was read.
LockInv ==
    /\ \A j \in Jobs : jobs[j].pc = "locked" =>
            /\ dirLock = j
            /\ approval[jobs[j].req].kind = "toggle" => jobs[j].base = policyFile
    /\ cli # None => dirLock = "cli" /\ (cli.pc = "edit" => cli.base = policyFile)

\* The owner is answered once on a connection, when its handler ends.
ToldInv ==
    \A j \in Jobs : told[j] # "none" =>
        jobs[j].req # None /\ (handler # None => handler.job # j)

\* Until a restart is due or a change went unwatched, a live copy that grants or routes
\* more than its file has a handler that sees the commit and will read the file back;
\* and a handler's live copy is the one its request was signed for.
Watched(kind) == handler # None /\ jobs[handler.job].pc = "applied" /\ Asked.kind = kind
Restarting == cli # None /\ cli.pc = "restart"
SignedFor ==
    IF Asked.kind = "toggle" THEN live = Asked.expected
                             ELSE liveRouting \in {Asked.expected, Unavailable}
CurrentInv ==
    /\ ~unwatched /\ ~Restarting =>
        /\ Grants(live) \subseteq Grants(policyFile) \/ Watched("toggle")
        /\ liveRouting \in {routingFile, Unavailable} \/ Watched("route")
        /\ handler # None => SignedFor
    /\ cli # None /\ cli.edit.kind = "discover" => cli.base[cli.edit.model] = "absent"

IndInv ==
    TypeOK /\ MarkerInv /\ RelayInv /\ LockInv /\ ActiveIsCommitted /\ ToldInv /\ CurrentInv

-----------------------------------------------------------------------------
\* A claim of the code's comments that its behaviour does not keep.

\* "A broker outcome that cannot be reconciled must never leave stale grants active"
\* (crates/llm/src/live_policy.rs): no grant outlives its withdrawal from the file.
NoStaleGrants == Quiescent => Grants(live) \subseteq Grants(policyFile)

=============================================================================
