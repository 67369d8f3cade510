----------------------------- MODULE IbkrBroker -----------------------------
(***************************************************************************)
(* The IBKR read broker (crates/ibkr): the OAuth client that shares one    *)
(* live session token and one brokerage session between all reads and      *)
(* paces them, and the socket server that bounds the reads.                *)
(*                                                                         *)
(* Every time is kept as the ticks left until it: an instant that has      *)
(* passed is 0.  A tick is GLOBAL_GAP; a sleep that is over ends before    *)
(* time goes on.  Signatures and the handshake are reduced to whether they *)
(* are accepted.  A request of a read sees these stages: for market data   *)
(* the brokerage session is opened first (check, init, accounts), then     *)
(* data; a read of one page leads to the next.                             *)
(***************************************************************************)
EXTENDS Naturals

CONSTANTS
    Reads,          \* the MAX_CONNECTIONS slots of the server
    Keeper,         \* the keep-alive task
    NoRead,         \* nobody
    AccountsGap, QueueLimit, Backoff, MintCooldown, RefreshMargin, TokenLife,
    MintLimit,      \* a handshake ends within REQUEST_TIMEOUT
    MaxMints        \* bound on the generations

ASSUME IbkrAssumption ==
    /\ \A n \in {AccountsGap, QueueLimit, Backoff, MintCooldown, RefreshMargin,
                 TokenLife, MintLimit, MaxMints} : n \in Nat \ {0}
    /\ MintLimit < MintCooldown    \* 15 s and 30 s
    /\ RefreshMargin < TokenLife
    /\ Keeper \notin Reads /\ NoRead \notin Reads \cup {Keeper}

VARIABLES
    token,          \* the current live session token: generation and ticks left
    minting,        \* ticks of cooldown left, who holds the lock
    brokerage,      \* generation it was opened for, who holds the lock
    pacer,          \* ticks until the next slot, the next accounts slot, the end of a 429
    read,           \* where each read and the keep-alive are
    sends,          \* requests sent in this tick
    atIbkr          \* the generation IBKR opened the last brokerage session for

ibkrVars == <<token, minting, brokerage, pacer, read, sends, atIbkr>>

Tasks == Reads \cup {Keeper}
NotReading == [at |-> "idle", job |-> "none", stage |-> "data", slot |-> 0, gen |-> 0,
               seen |-> 0, noted |-> 0]

IbkrStart ==
    /\ token = [gen |-> 0, life |-> 0]
    /\ minting = [wait |-> 0, by |-> NoRead]
    /\ brokerage = [for |-> 0, by |-> NoRead]
    /\ pacer = [next |-> 0, accounts |-> 0, blocked |-> 0]
    /\ read = [t \in Tasks |-> NotReading]

IbkrInit == IbkrStart /\ sends = 0 /\ atIbkr = 0

Later(a, b) == IF a >= b THEN a ELSE b
ReadAt(t, at) == read[t].at = at
OnTo(t, at) == read' = [read EXCEPT ![t].at = at]

-----------------------------------------------------------------------------
(* The token. *)

\* usable: a fresh token, or one inside the margin while a mint was tried lately.
TokenUsable == token.life > RefreshMargin \/ (token.life > 0 /\ minting.wait > 0)
MintDue == token.life <= RefreshMargin /\ minting.wait = 0

\* Where a task goes once it has a token: the check of ensure_brokerage compares
\* its generation; everything else waits for its slot.
WithToken(t, gen) ==
    IF read[t].stage = "check"
    THEN IF brokerage.for = gen
         THEN /\ brokerage' = [brokerage EXCEPT !.by = NoRead]
              /\ read' = [read EXCEPT ![t].stage = "data", ![t].at = "token"]
         ELSE /\ read' = [read EXCEPT ![t].stage = "init", ![t].at = "token", ![t].seen = gen]
              /\ UNCHANGED brokerage
    ELSE read' = [read EXCEPT ![t].at = "reserve", ![t].gen = gen] /\ UNCHANGED brokerage

\* A read ends: locks it holds are dropped, the reply goes out, the slot is free.
Released(t) ==
    /\ minting' = [minting EXCEPT !.by = IF @ = t THEN NoRead ELSE @]
    /\ brokerage' = [brokerage EXCEPT !.by = IF @ = t THEN NoRead ELSE @]
    /\ read' = [read EXCEPT ![t] = NotReading]

\* A failed tickle forgets the session it was sent for, not a newer one.
BrokerageClosed(t) ==
    /\ brokerage.by = NoRead
    /\ brokerage' = [brokerage EXCEPT !.for = IF @ = read[t].seen THEN 0 ELSE @]
    /\ read' = [read EXCEPT ![t] = NotReading]

\* An error of any call ends the read; the keep-alive closes first.
Fails(t) ==
    IF t = Keeper THEN OnTo(t, "close") /\ UNCHANGED <<minting, brokerage>> ELSE Released(t)

\* session: the cached token under the lock; no lock is held while it waits.
TakeToken(t) ==
    /\ ReadAt(t, "token") /\ minting.by = NoRead
    /\ \/ TokenUsable /\ WithToken(t, token.gen) /\ UNCHANGED minting
       \/ MintDue /\ OnTo(t, "reserve_mint") /\ UNCHANGED <<minting, brokerage>>
       \/ ~TokenUsable /\ ~MintDue /\ Fails(t)
    /\ UNCHANGED <<token, pacer, sends, atIbkr>>

\* Fault: the token is not looked at again under the lock.
MintDueStillAssumed == TRUE

MintDueStill == MintDue

\* The lock is held over the handshake; whoever waited for it looks again.
StartMint(t) ==
    /\ ReadAt(t, "mint") /\ minting.by = NoRead
    /\ IF MintDueStill
       THEN /\ token.gen < MaxMints
            /\ minting' = [minting EXCEPT !.by = t, !.wait = MintCooldown]
            /\ read' = [read EXCEPT ![t].at = "minting"]
            /\ sends' = sends + 1
            /\ UNCHANGED brokerage
       ELSE /\ IF TokenUsable THEN WithToken(t, token.gen) /\ UNCHANGED minting ELSE Fails(t)
            /\ UNCHANGED sends
    /\ UNCHANGED <<token, pacer, atIbkr>>

MintSucceeds(t) ==
    /\ ReadAt(t, "minting")
    /\ token' = [gen |-> token.gen + 1, life |-> TokenLife]
    /\ minting' = [minting EXCEPT !.by = NoRead]
    /\ WithToken(t, token.gen + 1)
    /\ UNCHANGED <<pacer, sends, atIbkr>>

\* A token that is still valid is kept; a 429 blocks everything.
MintFails(t, limited) ==
    /\ ReadAt(t, "minting")
    /\ pacer' = IF limited THEN [pacer EXCEPT !.blocked = Backoff] ELSE pacer
    /\ IF token.life > 0
       THEN WithToken(t, token.gen) /\ minting' = [minting EXCEPT !.by = NoRead]
       ELSE IF t = Keeper
            THEN /\ OnTo(t, "close") /\ minting' = [minting EXCEPT !.by = NoRead]
                 /\ UNCHANGED brokerage
            ELSE Released(t)
    /\ UNCHANGED <<token, sends, atIbkr>>

-----------------------------------------------------------------------------
(* The pacer. *)

SlotAt(t) == IF read[t].job = "accounts" /\ ReadAt(t, "reserve")
             THEN Later(pacer.next, pacer.accounts) ELSE pacer.next

\* reserve, for a request or for a mint: refused in a back-off or too far ahead.
Reserve(t) ==
    /\ read[t].at \in {"reserve", "reserve_mint"}
    /\ IF pacer.blocked > 0 \/ SlotAt(t) > QueueLimit
       THEN Fails(t) /\ UNCHANGED pacer
       ELSE /\ pacer' = [pacer EXCEPT
                 !.next = SlotAt(t) + 1,
                 !.accounts = IF read[t].job = "accounts" /\ ReadAt(t, "reserve")
                              THEN SlotAt(t) + AccountsGap ELSE @]
            /\ read' = [read EXCEPT ![t].slot = SlotAt(t),
                          ![t].at = IF ReadAt(t, "reserve") THEN "slot" ELSE "mint_slot"]
            /\ UNCHANGED <<minting, brokerage>>
    /\ UNCHANGED <<token, sends, atIbkr>>

SlotDue(t) == read[t].at \in {"slot", "mint_slot"} /\ read[t].slot = 0

\* The back-off is looked at again when the wait is over; then the request is sent.
SlotComes(t) ==
    /\ SlotDue(t)
    /\ IF pacer.blocked > 0 THEN Fails(t) /\ UNCHANGED sends
       ELSE /\ OnTo(t, IF ReadAt(t, "slot") THEN "sent" ELSE "mint")
            /\ sends' = sends + IF ReadAt(t, "slot") THEN 1 ELSE 0
            /\ UNCHANGED <<minting, brokerage>>
    /\ UNCHANGED <<token, pacer, atIbkr>>

-----------------------------------------------------------------------------
(* Answers. *)

\* ensure_brokerage: after init and accounts the generation that was looked up at
\* its beginning is noted, though a newer token may have signed them.
IbkrAnswers(t) ==
    /\ ReadAt(t, "sent") /\ t # Keeper
    /\ \/ /\ read[t].stage = "init"
          /\ atIbkr' = read[t].gen
          /\ read' = [read EXCEPT ![t].at = "token", ![t].stage = "accounts", ![t].gen = 0]
          /\ UNCHANGED <<minting, brokerage>>
       \/ /\ read[t].stage = "accounts"
          /\ brokerage' = [for |-> read[t].seen, by |-> NoRead]
          /\ read' = [read EXCEPT ![t].at = "token", ![t].stage = "data", ![t].gen = 0, ![t].seen = 0]
          /\ UNCHANGED <<minting, atIbkr>>
       \/ /\ read[t].stage = "data"
          /\ \/ Released(t)
             \/ /\ read' = [read EXCEPT ![t].at = "token", ![t].gen = 0]
                /\ UNCHANGED <<minting, brokerage>>
          /\ UNCHANGED atIbkr
    /\ UNCHANGED <<token, pacer, sends>>

\* Not authenticated, unreadable, or any other failure.
Refused(t, limited) ==
    /\ ReadAt(t, "sent")
    /\ Fails(t)
    /\ pacer' = IF limited THEN [pacer EXCEPT !.blocked = Backoff] ELSE pacer
    /\ UNCHANGED <<token, sends, atIbkr>>

\* 401 takes the lock and ends the token the request was signed with, no newer one.
Unauthorized(t) ==
    /\ ReadAt(t, "sent") /\ minting.by = NoRead
    /\ Fails(t)
    /\ token' = IF token.gen = read[t].gen THEN [token EXCEPT !.life = 0] ELSE token
    /\ UNCHANGED <<pacer, sends, atIbkr>>

-----------------------------------------------------------------------------
(* The keep-alive. *)

\* keep_alive: an idle client mints nothing.
KeepAlive ==
    /\ ReadAt(Keeper, "idle") /\ brokerage.by = NoRead /\ brokerage.for # 0
    /\ read' = [read EXCEPT ![Keeper] = [NotReading EXCEPT !.at = "tickle", !.seen = brokerage.for]]
    /\ UNCHANGED <<token, minting, brokerage, pacer, sends, atIbkr>>

\* tickle looks at the brokerage session once more.
Tickle ==
    /\ ReadAt(Keeper, "tickle") /\ brokerage.by = NoRead
    /\ read' = [read EXCEPT ![Keeper].at = "token", ![Keeper].noted = brokerage.for]
    /\ UNCHANGED <<token, minting, brokerage, pacer, sends, atIbkr>>

\* The session is alive, or the reply says it is not.
Tickled(alive) ==
    /\ ReadAt(Keeper, "sent")
    /\ read' = [read EXCEPT ![Keeper] =
         IF alive THEN NotReading ELSE [@ EXCEPT !.at = "close", !.seen = read[Keeper].noted]]
    /\ UNCHANGED <<token, minting, brokerage, pacer, sends, atIbkr>>

CloseBrokerage ==
    /\ ReadAt(Keeper, "close")
    /\ BrokerageClosed(Keeper)
    /\ UNCHANGED <<token, minting, pacer, sends, atIbkr>>

-----------------------------------------------------------------------------
(* The server. *)

\* serve and execute: a connection without a free slot is answered busy.
ReadConnects(t, job) ==
    /\ ReadAt(t, "idle")
    /\ read' = [read EXCEPT ![t] = [NotReading EXCEPT
                  !.job = job, !.at = IF job = "market" THEN "brokerage" ELSE "token"]]
    /\ UNCHANGED <<token, minting, brokerage, pacer, sends, atIbkr>>

\* The brokerage lock is held until the session is open.
LockBrokerage(t) ==
    /\ ReadAt(t, "brokerage") /\ brokerage.by = NoRead
    /\ brokerage' = [brokerage EXCEPT !.by = t]
    /\ read' = [read EXCEPT ![t].at = "token", ![t].stage = "check"]
    /\ UNCHANGED <<token, minting, pacer, sends, atIbkr>>

\* UPSTREAM_DEADLINE drops the read at whatever it waits for.
Deadline(t) ==
    /\ ~ReadAt(t, "idle")
    /\ Released(t)
    /\ UNCHANGED <<token, pacer, sends, atIbkr>>

\* The process is stopped, after the drain or at once, and starts again.
BrokerRestarts ==
    /\ token' = [gen |-> 0, life |-> 0]
    /\ minting' = [wait |-> 0, by |-> NoRead]
    /\ brokerage' = [for |-> 0, by |-> NoRead]
    /\ pacer' = [next |-> 0, accounts |-> 0, blocked |-> 0]
    /\ read' = [t \in Tasks |-> NotReading]
    /\ sends' = 0 /\ atIbkr' = 0

Less(n) == IF n = 0 THEN 0 ELSE n - 1

GapPasses ==
    /\ \A t \in Tasks : ~SlotDue(t) /\ ~(ReadAt(t, "mint") /\ minting.by = NoRead)
    /\ minting.by # NoRead => minting.wait > MintCooldown - MintLimit
    /\ token' = [token EXCEPT !.life = Less(@)]
    /\ minting' = [minting EXCEPT !.wait = Less(@)]
    /\ pacer' = [next |-> Less(pacer.next), accounts |-> Less(pacer.accounts),
                 blocked |-> Less(pacer.blocked)]
    /\ read' = [t \in Tasks |-> [read[t] EXCEPT !.slot = Less(@)]]
    /\ sends' = 0
    /\ UNCHANGED <<brokerage, atIbkr>>

TaskStep(t) ==
    \/ TakeToken(t) \/ StartMint(t) \/ MintSucceeds(t) \/ Reserve(t) \/ SlotComes(t)
    \/ IbkrAnswers(t) \/ Unauthorized(t)
    \/ \E limited \in BOOLEAN : MintFails(t, limited) \/ Refused(t, limited)

IbkrNext ==
    \/ \E t \in Tasks : TaskStep(t)
    \/ \E t \in Reads : \/ \E job \in {"accounts", "market"} : ReadConnects(t, job)
                        \/ LockBrokerage(t) \/ Deadline(t)
    \/ KeepAlive \/ Tickle \/ CloseBrokerage \/ \E alive \in BOOLEAN : Tickled(alive)
    \/ GapPasses \/ BrokerRestarts

IbkrSpec == IbkrInit /\ [][IbkrNext]_ibkrVars

-----------------------------------------------------------------------------
\* Whatever reads, mints, refusals and dropped futures interleave, requests stay a
\* gap apart, also a mint that waited for the lock after its slot; no signed request
\* leaves during a back-off; mints stay a cooldown apart (Pacer, session).
IsPaced ==
    LET mints == \E t \in Tasks : ~ReadAt(t, "minting") /\ read'[t].at = "minting"
    IN /\ sends' > sends => sends = 0 /\ (mints \/ pacer.blocked = 0)
       /\ mints => minting.wait = 0

\* A late 401 ends no token but its own (signed).
RejectsItsOwn ==
    token'.gen = token.gen /\ token.life > 1 /\ token'.life = 0 =>
        \E t \in Tasks : read[t].at = "sent" /\ read[t].gen = token.gen

\* The brokerage session is never taken to be open for a newer token than the one
\* IBKR opened it with (ensure_brokerage, close_brokerage).
OpenIsOpen == brokerage.for <= atIbkr

\* One token and one session serve everybody.
SessionIsShared == []OpenIsOpen /\ [][IsPaced /\ RejectsItsOwn]_ibkrVars
=============================================================================
