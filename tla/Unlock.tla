------------------------------- MODULE Unlock -------------------------------
(***************************************************************************)
(* Cross-device unlock requests: a signed-in device asks, another device   *)
(* of the owner signs, the first polls (identity/surreal.rs unlock         *)
(* requests and the routes over them).  Creating is a transaction under    *)
(* snapshot isolation; approving and denying are one conditional UPDATE,   *)
(* after a read and a signature check for the approval.                    *)
(***************************************************************************)
EXTENDS Naturals, FiniteSets

CONSTANTS
  Askers,    \* devices of the owner
  Requests,  \* ids of unlock requests
  Nothing    \* no device, no request

ASSUME UnlockAssumption == Nothing \notin Askers \cup Requests

VARIABLES
  trusted,    \* the devices that are active
  request,    \* unlock_requests
  creating,   \* create_unlock_request transactions under way
  approving,  \* approve_unlock_request between its read and its claim
  seen        \* history: last answer of unlock_status, per request

unlockVars == <<trusted, request, creating, approving, seen>>

Unused     == [by |-> Nothing, status |-> "none", decider |-> Nothing, late |-> FALSE]
NoCreating == [id |-> Nothing, replaces |-> {}, doomed |-> FALSE]

UnlockInit ==
  /\ trusted = Askers
  /\ request = [r \in Requests |-> Unused]
  /\ creating = [d \in Askers |-> NoCreating]
  /\ approving = [d \in Askers |-> Nothing]
  /\ seen = [r \in Requests |-> "none"]

Open(r) == request[r].status = "pending" /\ ~request[r].late

\* Creates that would supersede a row written now lose their commit.
LoseCreates(rows) ==
  [d \in Askers |-> IF creating[d].replaces \cap rows # {}
                    THEN [creating[d] EXCEPT !.doomed = TRUE] ELSE creating[d]]

----------------------------------------------------------------------------
\* unlock_request: the device's open requests are superseded by a new one.
BeginUnlock(d, r) ==
  /\ d \in trusted /\ creating[d] = NoCreating
  /\ request[r] = Unused /\ \A e \in Askers : creating[e].id # r
  /\ creating' = [creating EXCEPT ![d] =
       [id |-> r, doomed |-> FALSE,
        replaces |-> {o \in Requests : Open(o) /\ request[o].by = d}]]
  /\ UNCHANGED <<trusted, request, approving, seen>>

\* Denied without a decider: superseded, or cancelled by a recovery.
Superseded(rs) ==
  [o \in Requests |-> IF o \in rs THEN [request[o] EXCEPT !.status = "denied"]
                      ELSE request[o]]

CommitUnlock(d) ==
  LET c == creating[d] IN
  /\ c # NoCreating
  /\ IF c.doomed THEN UNCHANGED request
     ELSE request' = [Superseded(c.replaces) EXCEPT ![c.id] =
                        [Unused EXCEPT !.by = d, !.status = "pending"]]
  /\ creating' = [LoseCreates(IF c.doomed THEN {} ELSE c.replaces)
                    EXCEPT ![d] = NoCreating]
  /\ UNCHANGED <<trusted, approving, seen>>

\* approve_unlock_request: the row is read and the signature checked ...
StartApproval(d, r) ==
  /\ d \in trusted /\ approving[d] = Nothing
  /\ Open(r) /\ request[r].by # d
  /\ approving' = [approving EXCEPT ![d] = r]
  /\ UNCHANGED <<trusted, request, creating, seen>>

\* Fault: the claim does not repeat what was read.
ClaimBlindly(r, d) == TRUE

\* ... and the claim repeats every predicate.
Claimable(r, d) == Open(r) /\ request[r].by # d

Decide(r, status, d) ==
  /\ request' = [request EXCEPT ![r].status = status, ![r].decider = d]
  /\ creating' = LoseCreates({r})

ClaimApproval(d) ==
  LET r == approving[d] IN
  /\ r # Nothing
  /\ IF Claimable(r, d) THEN Decide(r, "approved", d) ELSE UNCHANGED <<request, creating>>
  /\ approving' = [approving EXCEPT ![d] = Nothing]
  /\ UNCHANGED <<trusted, seen>>

\* deny_unlock_request does not look at the expiry.
DenyUnlock(d, r) ==
  /\ d \in trusted /\ request[r].status = "pending" /\ request[r].by # d
  /\ Decide(r, "denied", d)
  /\ UNCHANGED <<trusted, approving, seen>>

\* confirm_recovery cancels every pending request.
RecoveryCancels ==
  LET rs == {r \in Requests : request[r].status = "pending"} IN
  /\ rs # {}
  /\ request' = Superseded(rs)
  /\ creating' = LoseCreates(rs)
  /\ UNCHANGED <<trusted, approving, seen>>

TwoMinutesPass(r) ==
  /\ request[r].status \in {"pending", "denied"} /\ ~request[r].late
  /\ request' = [request EXCEPT ![r].late = TRUE]
  /\ UNCHANGED <<trusted, creating, approving, seen>>

Distrust(d) ==
  /\ d \in trusted
  /\ trusted' = trusted \ {d}
  /\ UNCHANGED <<request, creating, approving, seen>>

\* unlock_request_status: who was superseded goes on seeing pending.
UnlockStatus(r) ==
  LET row == request[r] IN
  IF row.status = "pending" \/ (row.status = "denied" /\ row.decider = Nothing)
  THEN (IF row.late THEN "expired" ELSE "pending") ELSE row.status

\* unlock_status, once or as one look of a long poll.
PollUnlock(r) ==
  /\ request[r].by \in trusted
  /\ seen' = [seen EXCEPT ![r] = UnlockStatus(r)]
  /\ UNCHANGED <<trusted, request, creating, approving>>

UnlockNext ==
  \/ \E d \in Askers :
       \/ CommitUnlock(d) \/ ClaimApproval(d) \/ Distrust(d)
       \/ \E r \in Requests : BeginUnlock(d, r) \/ StartApproval(d, r) \/ DenyUnlock(d, r)
  \/ RecoveryCancels
  \/ \E r \in Requests : TwoMinutesPass(r) \/ PollUnlock(r)

UnlockSpec == UnlockInit /\ [][UnlockNext]_unlockVars
----------------------------------------------------------------------------
\* A request is decided once: an approval, a denial, a superseding request and
\* a recovery race, and the first of them stands.  So what the requester was
\* told is what happened: "approved" or "denied" only by another device, never
\* by a superseding request or a recovery, and never both.
UnlockDecidedOnce ==
  \A r \in Requests : seen[r] \in {"approved", "denied"} =>
    /\ request[r].decider \in Askers \ {request[r].by}
    /\ request[r].status = seen[r]
=============================================================================
