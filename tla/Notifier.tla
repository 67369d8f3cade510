------------------------------ MODULE Notifier ------------------------------
(***************************************************************************)
(* Owner notifications: the coalescing queue, its one worker, app pushes   *)
(* through APNs to the devices' push targets, and ntfy (notify.rs,         *)
(* notify/apns.rs, the push targets of identity/surreal.rs).               *)
(*                                                                         *)
(* Both channels are configured.  The database refuses a commit when a row *)
(* or an index entry it writes was written since it began.                 *)
(***************************************************************************)
EXTENDS Naturals, Sequences, FiniteSets

CONSTANTS
  Phones,         \* devices of the owner
  Tokens,         \* APNs device tokens
  Nobody,         \* no device, no token
  Events,         \* unlock, pairing, budget
  QueueCapacity,  \* QUEUE_CAPACITY, 16 in the code
  MaxAttempts     \* MAX_ATTEMPTS, 3 in the code

ASSUME NotifierAssumption ==
  /\ Nobody \notin Phones \cup Tokens
  /\ Events \subseteq {"unlock", "pairing", "budget"}
  /\ QueueCapacity \in Nat \ {0} /\ MaxAttempts \in Nat \ {0}

VARIABLES
  phone,     \* active or revoked
  target,    \* device_push_targets: the token of each device
  setting,   \* set_push_target transactions under way
  queue,     \* jobs waiting for the worker
  recent,    \* last_sent: keys notified within MIN_INTERVAL
  worker,    \* the job being published
  provider,  \* age of the cached provider token
  minted     \* history: age of the newest provider token of this process

accountVars == <<phone, target, setting>>
queueVars   == <<queue, recent>>
workVars    == <<worker, provider, minted>>
notifyVars  == <<accountVars, queueVars, workVars>>

NoSetting == [token |-> Nobody, writes |-> {}, doomed |-> FALSE]
Resting   == [at |-> "idle", event |-> "none", except |-> Nobody,
              left |-> {}, to |-> Nobody, attempt |-> 0]

NotifierInit ==
  /\ phone = [p \in Phones |-> "active"]
  /\ target = [p \in Phones |-> Nobody]
  /\ setting = [p \in Phones |-> NoSetting]
  /\ queue = <<>> /\ recent = {}
  /\ worker = Resting /\ provider = "none" /\ minted = "none"

----------------------------------------------------------------------------
(* Push targets: one per device and, by a unique index, one per token.      *)

Holders(t) == {p \in Phones : target[p] = t}
ConflictSettings(rows) ==
  [p \in Phones |-> IF setting[p].writes \cap rows # {}
                    THEN [setting[p] EXCEPT !.doomed = TRUE] ELSE setting[p]]

\* Fault: a token another device holds is left there.
BeginSettingAlone(p, t) ==
  /\ phone[p] = "active" /\ setting[p] = NoSetting
  /\ setting' = [setting EXCEPT ![p] = [token |-> t, writes |-> {p}, doomed |-> FALSE]]
  /\ UNCHANGED <<phone, target, queueVars, workVars>>

\* set_push_target: the token leaves whichever device held it.
BeginSetting(p, t) ==
  /\ phone[p] = "active" /\ setting[p] = NoSetting
  /\ setting' = [setting EXCEPT ![p] =
       [token |-> t, writes |-> {p, t} \cup Holders(t), doomed |-> FALSE]]
  /\ UNCHANGED <<phone, target, queueVars, workVars>>

CommitSetting(p) ==
  LET s == setting[p] IN
  /\ s # NoSetting
  /\ IF s.doomed THEN UNCHANGED target
     ELSE target' = [q \in Phones |->
            IF q = p THEN s.token ELSE IF q \in s.writes THEN Nobody ELSE target[q]]
  /\ setting' = [ConflictSettings(IF s.doomed THEN {} ELSE s.writes)
                   EXCEPT ![p] = NoSetting]
  /\ UNCHANGED <<phone, queueVars, workVars>>

\* The rows of a set of devices are deleted.
Forget(ps) ==
  /\ target' = [p \in Phones |-> IF p \in ps THEN Nobody ELSE target[p]]
  /\ setting' = ConflictSettings({p \in ps : target[p] # Nobody}
                                   \cup {target[p] : p \in ps})

RemoveTarget(p) ==
  /\ phone[p] = "active" /\ target[p] # Nobody
  /\ Forget({p})
  /\ UNCHANGED <<phone, queueVars, workVars>>

\* revoke_device deletes the row it finds; a registration that read the device
\* as active before may still commit its own.
RevokePhone(p) ==
  /\ phone[p] = "active"
  /\ phone' = [phone EXCEPT ![p] = "revoked"]
  /\ Forget({p})
  /\ UNCHANGED <<queueVars, workVars>>

----------------------------------------------------------------------------
(* The queue.                                                               *)

\* The key is marked before the queue is tried: a full queue drops the job.
Enqueue(event, except) ==
  LET key == <<event, except>>
      job == [event |-> event, except |-> except] IN
  IF key \in recent THEN UNCHANGED <<recent, queue>>
  ELSE /\ recent' = recent \cup {key}
       /\ queue' = IF Len(queue) < QueueCapacity THEN Append(queue, job) ELSE queue

\* An unlock names the device that asked, a pairing and the budget nobody.
Notify(event, p) ==
  /\ IF event = "unlock" THEN p \in Phones /\ phone[p] = "active" ELSE p = Nobody
  /\ Enqueue(event, p)
  /\ UNCHANGED <<accountVars, workVars>>

IntervalPasses(key) ==
  /\ recent' = recent \ {key}
  /\ UNCHANGED <<accountVars, queue, workVars>>

\* The process restarts: the queue and every mark are gone.
Restart ==
  /\ queue' = <<>> /\ recent' = {}
  /\ worker' = Resting /\ provider' = "none" /\ minted' = "none"
  /\ UNCHANGED accountVars

----------------------------------------------------------------------------
(* The worker: app pushes first, then ntfy.                                 *)

ToNtfy == [worker EXCEPT !.at = "ntfy", !.left = {}, !.to = Nobody, !.attempt = 1]

TakeJob ==
  /\ worker.at = "idle" /\ queue # <<>>
  /\ LET job == Head(queue) IN
       worker' = [Resting EXCEPT !.event = job.event, !.except = job.except,
                    !.attempt = 1,
                    !.at = IF job.event = "budget" THEN "ntfy" ELSE "targets"]
  /\ queue' = Tail(queue)
  /\ UNCHANGED <<accountVars, recent, provider, minted>>

\* apns_targets: active devices, never the one that asked; or no answer.
ReadTargets ==
  /\ worker.at = "targets"
  /\ \/ worker' = [worker EXCEPT !.at = "deliver", !.left =
          {target[p] : p \in {q \in Phones : phone[q] = "active" /\ q # worker.except}}
            \ {Nobody}]
     \/ worker' = ToNtfy
  /\ UNCHANGED <<accountVars, queueVars, provider, minted>>

NextTarget ==
  /\ worker.at = "deliver" /\ worker.to = Nobody
  /\ \/ \E t \in worker.left :
          worker' = [worker EXCEPT !.to = t, !.left = @ \ {t}, !.attempt = 1]
     \/ worker.left = {} /\ worker' = ToNtfy
  /\ UNCHANGED <<accountVars, queueVars, provider, minted>>

GiveUpTarget == [worker EXCEPT !.to = Nobody]
Again == [worker EXCEPT !.attempt = @ + 1]

\* token_replaceable: at least twenty minutes old.
TokenReplaceable(age) == age # "new"

\* provider_token and post: a token past its lifetime is minted anew, and APNs
\* answers one way or another.
Deliver ==
  LET mint == provider \in {"none", "old"}
      age == IF mint THEN "new" ELSE provider IN
  /\ worker.at = "deliver" /\ worker.to # Nobody
  /\ minted' = IF mint THEN "new" ELSE minted
  /\ \/ /\ worker' = GiveUpTarget       \* Sent or Failed
        /\ provider' = age
        /\ UNCHANGED <<target, setting>>
     \/ /\ Forget(Holders(worker.to))   \* Unregistered
        /\ worker' = GiveUpTarget /\ provider' = age
     \/ /\ worker.attempt < MaxAttempts \* Retry
        /\ worker' = Again /\ provider' = age
        /\ UNCHANGED <<target, setting>>
     \/ /\ TokenReplaceable(age) /\ worker.attempt < MaxAttempts \* RefreshToken
        /\ worker' = Again /\ provider' = "none"
        /\ UNCHANGED <<target, setting>>
  /\ UNCHANGED <<phone, queueVars>>

\* APP_PUSH_BUDGET is over: the push is dropped where it stands.
PushTimesOut ==
  /\ worker.at \in {"targets", "deliver"}
  /\ worker' = ToNtfy
  /\ UNCHANGED <<accountVars, queueVars, provider, minted>>

\* publish_with_retry.
Publish ==
  /\ worker.at = "ntfy"
  /\ \/ worker' = Resting
     \/ worker.attempt < MaxAttempts /\ worker' = Again
  /\ UNCHANGED <<accountVars, queueVars, provider, minted>>

\* Twenty and forty-five minutes after a token was minted.
TokenAges ==
  /\ provider \in {"new", "mid"} \/ minted = "new"
  /\ provider' = CASE provider = "new" -> "mid" [] provider = "mid" -> "old"
                   [] OTHER -> provider
  /\ minted' = IF minted = "new" THEN "aged" ELSE minted
  /\ UNCHANGED <<accountVars, queueVars, worker>>

WorkerNext ==
  TakeJob \/ ReadTargets \/ NextTarget \/ Deliver \/ PushTimesOut \/ Publish

NotifierNext ==
  \/ \E p \in Phones :
       \/ \E t \in Tokens : BeginSetting(p, t)
       \/ CommitSetting(p) \/ RemoveTarget(p) \/ RevokePhone(p)
  \/ \E p \in Phones \cup {Nobody}, event \in Events : Notify(event, p)
  \/ \E key \in recent : IntervalPasses(key)
  \/ Restart \/ WorkerNext \/ TokenAges

NotifierSpec == NotifierInit /\ [][NotifierNext]_notifyVars
----------------------------------------------------------------------------
(* Properties.                                                              *)

\* However registrations, removals and revocations interleave, a token belongs
\* to at most one device: one phone is never pushed twice, and no push for a
\* device reaches a phone that was handed on.  Nor does a process ever cache a
\* provider token younger than twenty minutes after dropping one that young.
TokenHeldOnce ==
  /\ \A p, q \in Phones : target[p] = target[q] /\ target[p] # Nobody => p = q
  /\ minted = "new" => provider = "new"
=============================================================================
