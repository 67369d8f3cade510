----------------------------- MODULE RateLimit ------------------------------
(***************************************************************************)
(* The in-memory rate limiter (rate_limit.rs): fixed windows in a bounded  *)
(* table, the failure lockout of the login route, and the password backoff *)
(* of a device.  A login is answered some time after it was let through,   *)
(* and others are let through meanwhile.  So is a password check, which    *)
(* on its way from the back-off to Argon2 also needs one of the permits    *)
(* all devices share: the back-off is not asked again when it gets one.    *)
(***************************************************************************)
EXTENDS Naturals, FiniteSets

CONSTANTS
  Sources,       \* client addresses
  Keyholders,    \* devices whose passwords are checked
  TrackedKeys,   \* MAX_TRACKED_KEYS, 4096 in the code
  Window,        \* length of the flat window, in ticks
  LockWindow,    \* login_lock_secs, in ticks
  PerWindow,     \* login_per_min
  MaxFailures,   \* login_max_failures
  InFlight,      \* bound on the logins of one source answered at a time
  FreeGuesses,   \* PasswordBackoff.free
  MaxDelay,      \* PasswordBackoff.max, in ticks
  MaxDoublings,  \* the delay doubles no more often, 16 in the code
  Memory,        \* PASSWORD_FAILURE_MEMORY, in ticks
  Slots,         \* Argon2 permits of the process, 2 in the code
  MaxPassed,     \* bound on the requests of one device past the back-off
  MaxNow         \* bound on the clock

ASSUME LimitAssumption ==
  /\ {TrackedKeys, Window, LockWindow, PerWindow, MaxFailures, MaxDelay, Slots,
      MaxPassed} \subseteq Nat \ {0}
  /\ {InFlight, FreeGuesses, MaxDoublings, Memory, MaxNow} \subseteq Nat

\* No doubling wraps the delay around to nothing.
ASSUME DoublingAssumption == \A k \in 0..MaxDoublings : 2 ^ k \in Nat \ {0}

VARIABLES
  now,        \* ticks
  hits,       \* per source its window: start and count
  failures,   \* the same for refused logins
  flying,     \* per source the logins let through and not answered
  guesses,    \* password_failures: count and last failure
  passed,     \* per device the requests past the back-off and without a permit
  checking,   \* per device those whose password is being checked
  permits,    \* permits nobody holds
  others      \* permits of work no device waits for: new passwords, callers gone

checkVars == <<guesses, passed, checking, permits, others>>
limitVars == <<now, hits, failures, flying, checkVars>>

LimitInit ==
  /\ now = 0
  /\ hits = <<>> /\ failures = <<>> /\ guesses = <<>>
  /\ flying = [s \in Sources |-> 0]
  /\ passed = [d \in Keyholders |-> 0] /\ checking = [d \in Keyholders |-> 0]
  /\ permits = Slots /\ others = 0

Only(t, keys) == [k \in keys |-> t[k]]
Put(t, key, value) ==
  [k \in DOMAIN t \cup {key} |-> IF k = key THEN value ELSE t[k]]

\* What is counted past a limit makes no difference: counts stop here.
Ceiling == PerWindow + MaxFailures + InFlight

\* A full table drops expired windows, then one of the oldest.
Evicted(t, key, window) ==
  LET full(u) == Cardinality(DOMAIN u) >= TrackedKeys /\ key \notin DOMAIN u
      fresh == Only(t, {k \in DOMAIN t : now - t[k].start < window})
      oldest == {k \in DOMAIN fresh : \A o \in DOMAIN fresh :
                                        fresh[k].start <= fresh[o].start} IN
  IF ~full(t) THEN {t} ELSE IF ~full(fresh) THEN {fresh}
  ELSE {Only(fresh, DOMAIN fresh \ {k}) : k \in oldest}

\* count: the tables one more event for key may lead to.
Counted(t, key, window) ==
  {LET kept == key \in DOMAIN u /\ now - u[key].start < window
       n == IF kept THEN u[key].n ELSE 0 IN
   Put(u, key, [start |-> IF kept THEN u[key].start ELSE now,
                n |-> IF n < Ceiling THEN n + 1 ELSE n])
     : u \in Evicted(t, key, window)}

\* Fault: the lockout looks at windows that have elapsed only.
FailuresElapsed(s) ==
  IF s \in DOMAIN failures /\ now - failures[s].start > LockWindow
  THEN failures[s].n ELSE 0

FailuresInWindow(s) ==
  IF s \in DOMAIN failures /\ now - failures[s].start < LockWindow
  THEN failures[s].n ELSE 0

----------------------------------------------------------------------------
\* rate_limit_mw, up to the handler.
LoginArrives(s) ==
  /\ flying[s] < InFlight
  /\ \E t \in Counted(hits, s, Window) :
       /\ hits' = t
       /\ flying' = IF t[s].n <= PerWindow /\ FailuresInWindow(s) < MaxFailures
                    THEN [flying EXCEPT ![s] = @ + 1] ELSE flying
  /\ UNCHANGED <<now, failures, checkVars>>

\* And after it: a refusal counts, a success wipes the penalty.
LoginAnswered(s, status) ==
  /\ flying[s] > 0
  /\ flying' = [flying EXCEPT ![s] = @ - 1]
  /\ CASE status = "unauthorized" -> failures' \in Counted(failures, s, LockWindow)
       [] status = "success" -> failures' = Only(failures, DOMAIN failures \ {s})
       [] OTHER -> UNCHANGED failures
  /\ UNCHANGED <<now, hits, checkVars>>

----------------------------------------------------------------------------
\* password_delay: doubling from one tick past the free failures, capped.
PasswordDelay(n) ==
  IF n <= FreeGuesses THEN 0
  ELSE LET more == n - FreeGuesses - 1
           d == 2 ^ (IF more < MaxDoublings THEN more ELSE MaxDoublings) IN
       IF d < MaxDelay THEN d ELSE MaxDelay

\* password_backoff.
BackingOff(d) ==
  /\ d \in DOMAIN guesses
  /\ now - guesses[d].last < Memory
  /\ now - guesses[d].last < PasswordDelay(guesses[d].n)

\* auth_login, password_request: the back-off is asked once, before anything is awaited.
PassBackoff(d) ==
  /\ ~BackingOff(d) /\ passed[d] + checking[d] < MaxPassed
  /\ passed' = [passed EXCEPT ![d] = @ + 1]
  /\ guesses' = IF d \in DOMAIN guesses /\ now - guesses[d].last >= Memory
                THEN Only(guesses, DOMAIN guesses \ {d}) ELSE guesses
  /\ UNCHANGED <<now, hits, failures, flying, checking, permits, others>>

\* work, for verify: a permit, or Busy.
TakePermit(d) ==
  /\ passed[d] > 0 /\ permits > 0
  /\ passed' = [passed EXCEPT ![d] = @ - 1] /\ checking' = [checking EXCEPT ![d] = @ + 1]
  /\ permits' = permits - 1
  /\ UNCHANGED <<now, hits, failures, flying, guesses, others>>

\* Busy, a challenge or a stored password that will not do, a renewal, or a caller who
\* has left: no password is checked and no failure noted.
EndUnchecked(d) ==
  /\ passed[d] > 0
  /\ passed' = [passed EXCEPT ![d] = @ - 1]
  /\ UNCHANGED <<now, hits, failures, flying, guesses, checking, permits, others>>

\* note_password_failure and note_password_verified; a fault counts as neither.
CheckAnswered(d, verdict) ==
  LET kept == d \in DOMAIN guesses /\ now - guesses[d].last < Memory IN
  /\ checking[d] > 0
  /\ checking' = [checking EXCEPT ![d] = @ - 1] /\ permits' = permits + 1
  /\ guesses' = CASE verdict = "right" -> Only(guesses, DOMAIN guesses \ {d})
                  [] verdict = "wrong" ->
                       Put(guesses, d, [n |-> (IF kept THEN guesses[d].n ELSE 0) + 1,
                                        last |-> now])
                  [] OTHER -> guesses
  /\ UNCHANGED <<now, hits, failures, flying, passed, others>>

\* The caller is gone: the hashing job keeps its permit, and nobody notes its verdict.
CallerLeaves(d) ==
  /\ checking[d] > 0
  /\ checking' = [checking EXCEPT ![d] = @ - 1] /\ others' = others + 1
  /\ UNCHANGED <<now, hits, failures, flying, guesses, passed, permits>>

\* hash, of a new password, and the end of work nobody waits for.
HashStarts ==
  /\ permits > 0
  /\ permits' = permits - 1 /\ others' = others + 1
  /\ UNCHANGED <<now, hits, failures, flying, guesses, passed, checking>>
HashEnds ==
  /\ others > 0
  /\ permits' = permits + 1 /\ others' = others - 1
  /\ UNCHANGED <<now, hits, failures, flying, guesses, passed, checking>>

Tick ==
  /\ now < MaxNow
  /\ now' = now + 1
  /\ UNCHANGED <<hits, failures, flying, checkVars>>

\* The process restarts and has forgotten everything.
LimiterRestarts ==
  /\ hits' = <<>> /\ failures' = <<>> /\ guesses' = <<>>
  /\ flying' = [s \in Sources |-> 0]
  /\ passed' = [d \in Keyholders |-> 0] /\ checking' = [d \in Keyholders |-> 0]
  /\ permits' = Slots /\ others' = 0
  /\ UNCHANGED now

LimitNext ==
  \/ \E s \in Sources : LoginArrives(s)
       \/ \E status \in {"unauthorized", "success", "other"} : LoginAnswered(s, status)
  \/ \E d \in Keyholders :
       \/ PassBackoff(d) \/ TakePermit(d) \/ EndUnchecked(d) \/ CallerLeaves(d)
       \/ \E verdict \in {"right", "wrong", "fault"} : CheckAnswered(d, verdict)
  \/ HashStarts \/ HashEnds \/ Tick \/ LimiterRestarts

LimitSpec == LimitInit /\ [][LimitNext]_limitVars
----------------------------------------------------------------------------
\* A source is never counted more failed logins in one lock window than the
\* limit and those already in flight when it was reached: the check before the
\* handler and the count after it are not one step.
LockoutHolds ==
  \A s \in DOMAIN failures : failures[s].n <= MaxFailures - 1 + InFlight

\* Wrong passwords a device can be told of: the free ones, and for every tick those of
\* its requests that passed the back-off together, since none of them is asked again.
GuessesAreBounded ==
  \A d \in DOMAIN guesses : guesses[d].n <= FreeGuesses + MaxPassed * (now + 1)

\* However logins and password checks overlap, and whoever else fills the
\* bounded tables, the guesses let through stay within the code's limits.
GuessingIsLimited ==
  /\ LockoutHolds /\ GuessesAreBounded
  /\ Cardinality(DOMAIN hits) <= TrackedKeys /\ Cardinality(DOMAIN failures) <= TrackedKeys
=============================================================================
