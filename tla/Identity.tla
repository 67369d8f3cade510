------------------------------ MODULE Identity ------------------------------
(***************************************************************************)
(* The owner's account: bootstrap, device pairing, login and renewal of    *)
(* sessions, signed account actions and password recovery                  *)
(* (identity/surreal.rs, identity/account.rs, identity/local_devices.rs,   *)
(* routes/auth.rs, routes/account.rs, local_devices.rs).                   *)
(*                                                                         *)
(* The database gives snapshot isolation: a transaction reads the rows of  *)
(* its beginning and is refused at its commit when a row it writes was     *)
(* written since.  txn holds the open transactions, each with the rows it  *)
(* will write; a transaction whose checks throw is one that never opens.   *)
(* A statement outside a transaction is one step.  What the code reads and *)
(* never writes is not protected, and the account's rules rest on which    *)
(* rows a transaction writes beside those it has to.                       *)
(*                                                                         *)
(* Time only takes possibilities away: a challenge, a request or a pairing *)
(* may expire at any moment, a login may be given up at any moment.        *)
(***************************************************************************)
EXTENDS Naturals, Sequences, FiniteSets

CONSTANTS
  Devices,
  Approvers,        \* devices on ios, android or macos
  Mobiles,          \* devices on ios or android
  NoDevice,
  Challenges,
  Logins,           \* login requests under way
  Callers,          \* transactions open at a time
  RecoveriesPerDay, \* RECOVERY_REQUESTS_PER_DAY, 3 in the code
  MaxSessions,      \* bound on the sessions of a device
  MaxRevision,      \* bound on password revisions
  MaxRequests       \* bound on the account actions requested

ASSUME IdentityAssumption ==
  /\ Mobiles \subseteq Approvers /\ Approvers \subseteq Devices
  /\ NoDevice \notin Devices \cup Logins
  /\ RecoveriesPerDay \in Nat \ {0}
  /\ MaxSessions \in Nat /\ MaxRevision \in Nat /\ MaxRequests \in Nat

VARIABLES
  latch,      \* bootstrap_state:owner
  device,     \* devices and their key: none, active, revoked
  password,   \* revision of account_passwords, 0 without a row
  session,    \* per device its sessions, oldest first
  challenge,  \* auth_challenges
  login,      \* login_with_password calls between two awaits
  action,     \* account_actions: the live one of each device
  recovery,   \* the newest row of account_recoveries
  asked,      \* recoveries recorded within the last day
  cooldown,   \* a recovery was confirmed within RECOVERY_COOLDOWN_DAYS
  pairing,    \* device_pairing_requests, by the candidate device
  txn,        \* open transactions
  rooted,     \* history: local root has revoked a device
  requests    \* account actions requested so far

tables == <<latch, device, password, session, challenge, action, recovery,
            asked, cooldown, pairing, rooted>>
idVars == <<tables, login, txn, requests>>

----------------------------------------------------------------------------
NoAction   == [kind |-> "none", target |-> NoDevice]
NoRecovery == [status |-> "none", device |-> NoDevice, since |-> 0]
NoLogin    == [at |-> "idle", challenge |-> NoDevice, device |-> NoDevice,
               password |-> 0, revision |-> 0]
NoTxn      == [kind |-> "none", device |-> NoDevice, target |-> NoDevice,
               login |-> NoDevice, anchor |-> 0, writes |-> {}, doomed |-> FALSE]

IdentityInit ==
  /\ latch = FALSE /\ password = 0 /\ asked = 0 /\ cooldown = FALSE
  /\ device = [d \in Devices |-> "none"]
  /\ session = [d \in Devices |-> <<>>]
  /\ challenge = [c \in Challenges |-> [device |-> NoDevice, status |-> "none"]]
  /\ login = [l \in Logins |-> NoLogin]
  /\ action = [d \in Devices |-> NoAction]
  /\ recovery = NoRecovery
  /\ pairing = [d \in Devices |-> "none"]
  /\ txn = [c \in Callers |-> NoTxn]
  /\ rooted = FALSE /\ requests = 0

Active == {d \in Devices : device[d] = "active"}
ActiveApprovers == Active \cap Approvers

----------------------------------------------------------------------------
(* Rows and transactions.                                                   *)

Row(table, d, n) == <<table, d, n>>
Password == Row("password", NoDevice, 0)
Owner    == Row("owner", NoDevice, 0)
Recovery == Row("recovery", NoDevice, 0)

LiveRows(ds) ==
  UNION {{Row("session", d, n) : n \in {k \in 1..Len(session[d]) :
                                          session[d][k].live}} : d \in ds}
ActionRows == {Row("action", d, 0) : d \in {e \in Devices : action[e] # NoAction}}
PendingPairs == {Row("pairing", d, 0) : d \in {e \in Devices : pairing[e] = "pending"}}
PendingRecovery(ds) ==
  IF recovery.status = "pending" /\ recovery.device \in ds THEN {Recovery} ELSE {}

\* Open transactions that would write a row written now are refused later.
Doom(t, rows) ==
  [c \in Callers |-> IF t[c].writes \cap rows # {}
                     THEN [t[c] EXCEPT !.doomed = TRUE] ELSE t[c]]

\* The sessions among the given rows are revoked.
Revoked(rows) ==
  [d \in Devices |->
    [n \in 1..Len(session[d]) |->
      IF Row("session", d, n) \in rows
      THEN [session[d][n] EXCEPT !.live = FALSE] ELSE session[d][n]]]
Cleared(rows) ==
  [d \in Devices |-> IF Row("action", d, 0) \in rows THEN NoAction ELSE action[d]]

Begin(c, t) ==
  /\ txn[c] = NoTxn
  /\ txn' = [txn EXCEPT ![c] = t]

\* A commit: refused when doomed, otherwise it writes its rows.
Committing(c, kind) == txn[c].kind = kind /\ ~txn[c].doomed
Committed(c) == txn' = Doom([txn EXCEPT ![c] = NoTxn], txn[c].writes)

\* A transaction is rolled back: it lost a conflict, or the call failed.
Rollback(c) ==
  /\ txn[c] # NoTxn
  /\ txn' = [txn EXCEPT ![c] = NoTxn]
  /\ login' = IF txn[c].login \in Logins
              THEN [login EXCEPT ![txn[c].login] = NoLogin] ELSE login
  /\ UNCHANGED <<tables, requests>>

----------------------------------------------------------------------------
(* Bootstrap and pairing.                                                   *)

\* auth_bootstrap: latch, password and first device in one transaction.
Bootstrap(d) ==
  /\ ~latch /\ Active = {} /\ device[d] = "none"
  /\ latch' = TRUE
  /\ password' = 1
  /\ device' = [device EXCEPT ![d] = "active"]
  /\ UNCHANGED <<session, challenge, login, action, recovery, asked,
                 cooldown, pairing, txn, rooted, requests>>

\* pairing_create with the right password; there is an owner to ask.
CreatePairing(d) ==
  /\ latch /\ password # 0
  /\ device[d] = "none" /\ pairing[d] = "none"
  /\ pairing' = [pairing EXCEPT ![d] = "pending"]
  /\ UNCHANGED <<latch, device, password, session, challenge, login,
                 action, recovery, asked, cooldown, txn, rooted, requests>>

Authed(d) ==
  /\ device[d] = "active"
  /\ \E n \in 1..Len(session[d]) : session[d][n].live

\* approve_pairing_request by a signing device, or local root's approve: who it
\* is makes no difference to the rows.
ApprovePairing(c, d) ==
  /\ pairing[d] = "pending"
  /\ Begin(c, [NoTxn EXCEPT !.kind = "pair", !.target = d,
                            !.writes = {Row("pairing", d, 0)}])
  /\ UNCHANGED <<tables, login, requests>>

ActivatePairing(c) ==
  LET d == txn[c].target IN
  /\ Committing(c, "pair")
  /\ Committed(c)
  /\ pairing' = [pairing EXCEPT ![d] = "approved"]
  /\ device' = [device EXCEPT ![d] = "active"]
  /\ UNCHANGED <<latch, password, session, challenge, login, action,
                 recovery, asked, cooldown, rooted, requests>>

\* Denied by an active device or by local root, or expired.
ClosePairing(d) ==
  /\ pairing[d] = "pending"
  /\ pairing' = [pairing EXCEPT ![d] = "closed"]
  /\ txn' = Doom(txn, {Row("pairing", d, 0)})
  /\ UNCHANGED <<latch, device, password, session, challenge, login,
                 action, recovery, asked, cooldown, rooted, requests>>

----------------------------------------------------------------------------
(* Login: challenge, claim, password, session.                              *)

CreateChallenge(h, d) ==
  /\ challenge[h].status = "none" /\ device[d] = "active"
  /\ challenge' = [challenge EXCEPT ![h] = [device |-> d, status |-> "open"]]
  /\ UNCHANGED <<latch, device, password, session, login, action,
                 recovery, asked, cooldown, pairing, txn, rooted, requests>>

\* The challenge, the key and the device are read and the signature verified;
\* pw is the revision the caller's password belongs to, 0 for no password (a
\* wrong one only fails).
LoginStart(l, h, pw) ==
  LET d == challenge[h].device IN
  /\ login[l] = NoLogin
  /\ challenge[h].status = "open" /\ device[d] = "active"
  /\ login' = [login EXCEPT ![l] = [NoLogin EXCEPT !.at = "claim",
                 !.challenge = h, !.device = d, !.password = pw]]
  /\ UNCHANGED <<tables, txn, requests>>

\* Fault: the challenge is read and not claimed.
LoginUnclaimed(l) ==
  /\ login[l].at = "claim"
  /\ login' = [login EXCEPT ![l].at =
       IF login[l].password = 0 /\ password # 0 THEN "renew" ELSE "verify"]
  /\ UNCHANGED <<tables, txn, requests>>

\* The conditional claim; without a password, but with one required, the call
\* goes on as a renewal.
LoginClaim(l) ==
  LET h == login[l].challenge IN
  /\ login[l].at = "claim"
  /\ IF challenge[h].status = "open"
     THEN /\ challenge' = [challenge EXCEPT ![h].status = "closed"]
          /\ login' = [login EXCEPT ![l].at =
               IF login[l].password = 0 /\ password # 0 THEN "renew" ELSE "verify"]
     ELSE login' = [login EXCEPT ![l] = NoLogin] /\ UNCHANGED challenge
  /\ UNCHANGED <<latch, device, password, session, action, recovery,
                 asked, cooldown, pairing, txn, rooted, requests>>

\* verify_password reads the row and hashes off the runtime's threads: what it
\* returns is the revision it read.
VerifyPassword(l) ==
  /\ login[l].at = "verify"
  /\ login' = [login EXCEPT ![l] =
       IF password = login[l].password
       THEN [@ EXCEPT !.at = "mint", !.revision = password] ELSE NoLogin]
  /\ UNCHANGED <<tables, txn, requests>>

\* The minting transaction reads the revision and the device again; it only
\* inserts.
MintSession(l, c) ==
  LET d == login[l].device IN
  /\ login[l].at = "mint"
  /\ password = login[l].revision /\ device[d] = "active"
  /\ Begin(c, [NoTxn EXCEPT !.kind = "mint", !.device = d, !.login = l])
  /\ login' = [login EXCEPT ![l].at = "commit"]
  /\ UNCHANGED <<tables, requests>>

\* renew_session: the latest session of the device anchors the new one, and
\* every live session of the device is revoked with it.
RenewSession(l, c) ==
  LET d == login[l].device
      anchor == session[d][Len(session[d])] IN
  /\ login[l].at = "renew"
  /\ device[d] = "active" /\ d \in Mobiles
  /\ session[d] # <<>>
  /\ anchor.live /\ anchor.revision # 0 /\ anchor.revision = password
  /\ Begin(c, [NoTxn EXCEPT !.kind = "renew", !.device = d, !.login = l,
                            !.anchor = Len(session[d]), !.writes = LiveRows({d})])
  /\ login' = [login EXCEPT ![l].at = "commit", ![l].revision = anchor.revision]
  /\ UNCHANGED <<tables, requests>>

\* History: a transaction that ends sessions was open, and did not see this one.
Beside(c) ==
  \E o \in Callers \ {c} : ~txn[o].doomed
     /\ txn[o].kind \in {"set", "revoke", "root", "confirm"}

SessionCommits(c) ==
  LET d == txn[c].device
      l == txn[c].login
      kept == Revoked(txn[c].writes) IN
  /\ \E kind \in {"mint", "renew"} : Committing(c, kind)
  /\ Len(session[d]) < MaxSessions
  /\ session' = [kept EXCEPT ![d] =
       Append(@, [live |-> TRUE, revision |-> login[l].revision,
                  challenge |-> login[l].challenge, beside |-> Beside(c)])]
  /\ Committed(c)
  /\ login' = [login EXCEPT ![l] = NoLogin]
  /\ UNCHANGED <<latch, device, password, challenge, action, recovery,
                 asked, cooldown, pairing, rooted, requests>>

\* The call fails, times out or is refused.
LoginFails(l) ==
  /\ login[l].at \in {"claim", "verify", "mint", "renew"}
  /\ login' = [login EXCEPT ![l] = NoLogin]
  /\ UNCHANGED <<tables, txn, requests>>

\* revoke_session: every live session of the device, in one statement.
Logout(d) ==
  /\ Authed(d)
  /\ session' = Revoked(LiveRows({d}))
  /\ txn' = Doom(txn, LiveRows({d}))
  /\ UNCHANGED <<latch, device, password, challenge, login, action,
                 recovery, asked, cooldown, pairing, rooted, requests>>

----------------------------------------------------------------------------
(* Account actions: a request, and its approval by the same device's key.   *)

RecoveryOpen ==
  /\ password # 0
  /\ recovery.status # "pending"
  /\ asked < RecoveriesPerDay
  /\ ~cooldown

\* request_action replaces the live action of the device.
StoreAction(d, a) ==
  /\ device[d] = "active"
  /\ requests < MaxRequests
  /\ requests' = requests + 1
  /\ action' = [action EXCEPT ![d] = a]
  /\ txn' = Doom(txn, {Row("action", d, 0)})
  /\ UNCHANGED <<latch, device, password, session, challenge, login, recovery,
                 asked, cooldown, pairing, rooted>>

\* password_request and password_reset_request: session, platform and the
\* recovery guards are checked before the new password is hashed, so only what
\* lasts of them binds when the action is stored.
RequestPassword(d, kind) ==
  /\ session[d] # <<>>
  /\ kind = "reset" => d \in Approvers
  /\ StoreAction(d, [kind |-> kind, target |-> NoDevice])

OtherApprover(target) == ActiveApprovers \ {target} # {} \/ target \notin Approvers

RequestRevoke(d, target) ==
  /\ Authed(d) /\ device[target] = "active"
  /\ OtherApprover(target)
  /\ StoreAction(d, [kind |-> "revoke", target |-> target])

\* approve_action: the transaction of each kind, with the rows it writes.
ApproveSet(d) ==
  [NoTxn EXCEPT !.kind = "set", !.device = d,
    !.writes = {Password} \cup LiveRows(Devices) \cup ActionRows
                 \cup PendingRecovery(Devices)]
ApproveRevoke(d, target) ==
  [NoTxn EXCEPT !.kind = "revoke", !.device = d, !.target = target,
    !.writes = {Owner, Row("device", target, 0), Row("action", d, 0)}
                 \cup LiveRows({target}) \cup PendingRecovery({target})]
ApproveReset(d) ==
  [NoTxn EXCEPT !.kind = "reset", !.device = d,
    !.writes = {Recovery, Row("action", d, 0)}]

\* The caller's session was read before; the transaction reads the device.
ApproveAction(c, d) ==
  LET a == action[d] IN
  /\ d \in Approvers /\ device[d] = "active"
  /\ \/ a.kind = "set" /\ Begin(c, ApproveSet(d))
     \/ /\ a.kind = "revoke" /\ OtherApprover(a.target)
        /\ Begin(c, ApproveRevoke(d, a.target))
     \/ a.kind = "reset" /\ RecoveryOpen /\ Begin(c, ApproveReset(d))
  /\ UNCHANGED <<tables, login, requests>>

\* The new password ends every session and every request it saw.
SetPassword(c) ==
  LET rows == txn[c].writes IN
  /\ Committing(c, "set")
  /\ password < MaxRevision
  /\ Committed(c)
  /\ password' = password + 1
  /\ session' = Revoked(rows)
  /\ action' = Cleared(rows)
  /\ recovery' = IF Recovery \in rows THEN [recovery EXCEPT !.status = "closed"]
                 ELSE recovery
  /\ UNCHANGED <<latch, device, challenge, login, asked, cooldown,
                 pairing, rooted, requests>>

\* The signed revocation and root's revoke_device change the same rows.
RevokeDevice(c) ==
  LET rows == txn[c].writes IN
  /\ \E kind \in {"revoke", "root"} : Committing(c, kind)
  /\ Committed(c)
  /\ device' = [device EXCEPT ![txn[c].target] = "revoked"]
  /\ session' = Revoked(rows)
  /\ action' = Cleared(rows)
  /\ recovery' = IF Recovery \in rows THEN [recovery EXCEPT !.status = "closed"]
                 ELSE recovery
  /\ rooted' = (rooted \/ txn[c].kind = "root")
  /\ UNCHANGED <<latch, password, challenge, login, asked, cooldown,
                 pairing, requests>>

\* A signed reset is only recorded; local root has to confirm it.
RecordRecovery(c) ==
  /\ Committing(c, "reset")
  /\ Committed(c)
  /\ recovery' = [status |-> "pending", device |-> txn[c].device, since |-> password]
  /\ asked' = asked + 1
  /\ action' = Cleared(txn[c].writes)
  /\ UNCHANGED <<latch, device, password, session, challenge, login,
                 cooldown, pairing, rooted, requests>>

----------------------------------------------------------------------------
(* Local root: revocation, and the other half of a recovery.                *)

RootRevoke(c, d) ==
  /\ device[d] = "active"
  /\ Begin(c, [NoTxn EXCEPT !.kind = "root", !.target = d,
       !.writes = {Row("device", d, 0)} \cup LiveRows({d}) \cup PendingRecovery({d})])
  /\ UNCHANGED <<tables, login, requests>>

\* Fault: the signing device's row is only read.
ConfirmUnguarded ==
  {Recovery, Password} \cup LiveRows(Devices) \cup PendingPairs \cup ActionRows

\* confirm_recovery writes the signing device's row beside those it changes.
ConfirmRows ==
  {Recovery, Password, Row("device", recovery.device, 0)}
    \cup LiveRows(Devices) \cup PendingPairs \cup ActionRows

ConfirmRecovery(c) ==
  /\ recovery.status = "pending" /\ ~cooldown
  /\ device[recovery.device] = "active"
  /\ password = recovery.since
  /\ Begin(c, [NoTxn EXCEPT !.kind = "confirm", !.device = recovery.device,
                            !.writes = ConfirmRows])
  /\ UNCHANGED <<tables, login, requests>>

RecoveryCommits(c) ==
  LET rows == txn[c].writes IN
  /\ Committing(c, "confirm")
  /\ password < MaxRevision
  /\ Committed(c)
  /\ recovery' = [recovery EXCEPT !.status = "confirmed"]
  /\ cooldown' = TRUE
  /\ password' = password + 1
  /\ session' = Revoked(rows)
  /\ action' = Cleared(rows)
  /\ pairing' = [d \in Devices |->
                   IF Row("pairing", d, 0) \in rows THEN "closed" ELSE pairing[d]]
  /\ UNCHANGED <<latch, device, challenge, login, asked, rooted, requests>>

\* deny_recovery, or the fifteen minutes are over.
CloseRecovery ==
  /\ recovery.status = "pending"
  /\ recovery' = [recovery EXCEPT !.status = "closed"]
  /\ txn' = Doom(txn, {Recovery})
  /\ UNCHANGED <<latch, device, password, session, challenge, login,
                 action, asked, cooldown, pairing, rooted, requests>>

\* Five minutes, a day or a week pass.
TimePasses ==
  /\ \/ \E h \in Challenges : challenge[h].status = "open"
          /\ challenge' = [challenge EXCEPT ![h].status = "closed"]
          /\ UNCHANGED <<action, asked, cooldown>>
     \/ \E d \in Devices : action[d] # NoAction
          /\ action' = [action EXCEPT ![d] = NoAction]
          /\ UNCHANGED <<challenge, asked, cooldown>>
     \/ asked > 0 /\ asked' = asked - 1 /\ UNCHANGED <<challenge, action, cooldown>>
     \/ cooldown /\ cooldown' = FALSE /\ UNCHANGED <<challenge, action, asked>>
  /\ UNCHANGED <<latch, device, password, session, login, recovery,
                 pairing, txn, rooted, requests>>

----------------------------------------------------------------------------
IdentityNext ==
  \/ \E d \in Devices :
       \/ Bootstrap(d) \/ CreatePairing(d) \/ ClosePairing(d) \/ Logout(d)
       \/ \E h \in Challenges : CreateChallenge(h, d)
       \/ \E kind \in {"set", "reset"} : RequestPassword(d, kind)
       \/ \E target \in Devices : RequestRevoke(d, target)
  \/ \E l \in Logins :
       \/ \E h \in Challenges, pw \in {0, password} : LoginStart(l, h, pw)
       \/ LoginClaim(l) \/ VerifyPassword(l) \/ LoginFails(l)
       \/ \E c \in Callers : MintSession(l, c) \/ RenewSession(l, c)
  \/ \E c \in Callers :
       \/ \E d \in Devices :
            ApprovePairing(c, d) \/ ApproveAction(c, d) \/ RootRevoke(c, d)
       \/ ActivatePairing(c) \/ SessionCommits(c) \/ SetPassword(c)
       \/ RevokeDevice(c) \/ RecordRecovery(c) \/ ConfirmRecovery(c)
       \/ RecoveryCommits(c) \/ Rollback(c)
  \/ CloseRecovery \/ TimePasses

IdentitySpec == IdentityInit /\ [][IdentityNext]_idVars
----------------------------------------------------------------------------
(* Properties.                                                              *)

\* Every row, call and transaction has its shape.
IdentityTypeOK ==
  /\ latch \in BOOLEAN /\ cooldown \in BOOLEAN /\ rooted \in BOOLEAN
  /\ device \in [Devices -> {"none", "active", "revoked"}]
  /\ password \in 0..MaxRevision /\ asked \in Nat /\ requests \in 0..MaxRequests
  /\ \A d \in Devices : \A n \in 1..Len(session[d]) :
       session[d][n] \in [live : BOOLEAN, revision : 1..MaxRevision,
                          challenge : Challenges, beside : BOOLEAN]
  /\ challenge \in [Challenges -> [device : Devices \cup {NoDevice},
       status : {"none", "open", "closed"}]]
  /\ login \in [Logins ->
       [at : {"idle", "claim", "verify", "mint", "renew", "commit"},
        challenge : Challenges \cup {NoDevice}, device : Devices \cup {NoDevice},
        password : 0..MaxRevision, revision : 0..MaxRevision]]
  /\ action \in [Devices -> [kind : {"none", "set", "reset", "revoke"},
                            target : Devices \cup {NoDevice}]]
  /\ recovery \in [status : {"none", "pending", "confirmed", "closed"},
                   device : Devices \cup {NoDevice}, since : 0..MaxRevision]
  /\ pairing \in [Devices -> {"none", "pending", "approved", "closed"}]
  /\ \A c \in Callers : txn[c].kind \in
       {"none", "mint", "renew", "pair", "set", "revoke", "reset", "root", "confirm"}

\* The anchor of a renewal is still unrevoked when the renewal commits, and
\* device and password are still the ones it checked: no logout, revocation,
\* password change or recovery that began after the anchor's login slips past
\* it (renew_session: revoking the device's sessions writes the anchor row).
\* One that was already open when the anchor was made does not write that row.
RenewalIsCurrent ==
  \A c \in Callers : Committing(c, "renew") /\ session' # session /\ txn'[c] = NoTxn =>
    LET d == txn[c].device
        anchor == session[d][txn[c].anchor] IN
      /\ anchor.live
      /\ \/ device[d] = "active" /\ login[txn[c].login].revision = password
         \/ anchor.beside

\* As long as local root revokes nothing, signed revocations never take the
\* last device that can sign: two of them racing conflict on the owner row.
ApproverRemains == ActiveApprovers # {} /\ ~rooted' => ActiveApprovers' # {}

\* A recovery sets the password only while the device that signed it is active and no
\* password change came in between (confirm_recovery writes the device's row, so a
\* concurrent revocation conflicts).  A decision on a pairing request is final, and a
\* candidate becomes a device only by an approved request: one denied by a confirmed
\* recovery is never activated by an approval that was under way.
DecisionIsFinal ==
  /\ recovery.status = "pending" /\ recovery'.status = "confirmed" =>
       device[recovery.device] = "active" /\ password = recovery.since
  /\ \A d \in Devices :
       /\ pairing[d] \in {"approved", "closed"} => pairing'[d] = pairing[d]
       /\ device[d] # "active" /\ device'[d] = "active" =>
            pairing'[d] = "approved" \/ ~latch

\* Renewals, revocations, recoveries and pairings are decided on what still holds when
\* they commit.
DecisionsHold == [][RenewalIsCurrent /\ ApproverRemains /\ DecisionIsFinal]_idVars

\* A challenge mints one session, however many calls present it, and signed resets
\* that race stay within the day's limit (login_with_password, record_recovery).
CredentialsAreCounted ==
  /\ \A h \in Challenges :
       Cardinality({s \in Devices \X (1..MaxSessions) :
          s[2] <= Len(session[s[1]]) /\ session[s[1]][s[2]].challenge = h}) <= 1
  /\ asked <= RecoveriesPerDay
=============================================================================
