---------------------------- MODULE RealtimeHub ----------------------------
(***************************************************************************)
(* Realtime fanout: the hub's subscriptions, bounded queues, sequence and   *)
(* epoch, the WebSocket task that serves a subscription, voice leases and   *)
(* playback reports, revocation, and the client's event cursor.             *)
(*                                                                         *)
(*   jarvis-api/src/realtime/{hub,websocket,voice}.rs,                      *)
(*   crates/client-core/src/realtime.rs (EventCursor)                       *)
(*                                                                         *)
(* Every operation of the hub runs under its one mutex, so it is one step;  *)
(* what a task does between two awaits outside the hub is another step.     *)
(***************************************************************************)
EXTENDS Integers, Sequences, FiniteSets, FiniteSetsExt

CONSTANTS
    Users, Devices, Runs, Sockets,
    Owner,            \* Owner[d]: the user of device d
    None,
    QueueCapacity,    \* QUEUE_CAPACITY
    MaxSubscribers,   \* MAX_SUBSCRIBERS, also the bound on voice leases
    MaxPerUser,       \* MAX_PER_USER
    MaxPerDevice,     \* MAX_PER_DEVICE
    LeaseLife,        \* ticks of a voice lease (90 s)
    MaxSeq,           \* the largest sequence number (u64::MAX)
    MaxEpoch,         \* bound: how often the Core is started
    Kinds             \* which kinds of activity happen: subset of AllKinds

AllKinds == {"events", "large", "voice", "playback", "revoke", "logout", "crash", "drop"}

ASSUME OwnerAssumption == Owner \in [Devices -> Users]
ASSUME ScopeAssumption == Users \cap Devices = {}
ASSUME UsersAssumption == IsFiniteSet(Users)
ASSUME NoneAssumption == None \notin Users \cup Devices \cup Runs \cup Sockets
ASSUME BoundsAssumption ==
    /\ QueueCapacity \in Nat \ {0} /\ MaxSubscribers \in Nat /\ MaxPerUser \in Nat
    /\ MaxPerDevice \in Nat /\ LeaseLife \in Nat \ {0} /\ MaxSeq \in Nat /\ MaxEpoch \in Nat \ {0}
ASSUME KindsAssumption == Kinds \subseteq AllKinds

VARIABLES
    epoch,     \* Inner.epoch
    seq,       \* Inner.sequence
    socks,     \* Inner.sinks and the task that serves each subscription
    voices,    \* Inner.voices
    inactive,  \* devices whose sessions are revoked in the database
    cutting,   \* revocations committed, whose disconnect_owner is still to come: a device,
               \* or a user for all the devices
    clients,   \* the client on each device
    claimed,   \* history: runs a lease was ever claimed for
    log        \* history: log[n] = the user envelope n of this epoch went to

vars == <<epoch, seq, socks, voices, inactive, cutting, clients, claimed, log>>

Envelope == [epoch : 1 .. MaxEpoch, seq : 1 .. MaxSeq, kind : {"ready", "public", "owner",
             "started", "stopped", "failed"}, dev : Devices \cup {None}, run : Runs \cup {None}]
NoEvent == [kind |-> "none"]

\* state: free | authed (extractor passed) | serving (in the select loop) |
\* sending (an envelope passed the closed check) | closing (out of the loop).
Socket == [state : {"free", "authed", "serving", "sending", "closing"},
           dev : Devices \cup {None}, attached : BOOLEAN, queue : Seq(Envelope),
           out : Envelope \cup {NoEvent}]
FreeSocket == [state |-> "free", dev |-> None, attached |-> FALSE, queue |-> <<>>, out |-> NoEvent]

Playback == {"started", "stopped", "failed"}
Lease == [dev : Devices, run : Runs \cup {None}, left : 0 .. LeaseLife,
          playback : Playback \cup {None}]
ASSUME LeaseAssumption == None \notin Lease

\* sock: the socket the client reads; epoch and seq: its EventCursor; voice: the
\* owner it was last told of on this socket; ended: runs it saw stop or fail.
Client == [sock : Sockets \cup {None}, epoch : 0 .. MaxEpoch, seq : 0 .. MaxSeq,
           voice : {<<>>} \cup (Devices \cup {None}) \X (Runs \cup {None}),
           ended : SUBSET Runs, restarted : BOOLEAN]

TypeOK ==
    /\ epoch \in 1 .. MaxEpoch
    /\ seq \in 0 .. MaxSeq
    /\ socks \in [Sockets -> Socket]
    /\ \A s \in Sockets : Len(socks[s].queue) <= QueueCapacity
    /\ voices \in [Users -> Lease \cup {None}]
    /\ inactive \subseteq Devices
    /\ cutting \subseteq Devices \cup Users
    /\ clients \in [Devices -> Client]
    /\ claimed \subseteq Runs
    /\ log \in Seq(Users \cup {None}) /\ Len(log) = seq

-----------------------------------------------------------------------------
\* The hub's state as a record, so that one critical section may publish often.

Hub == [seq |-> seq, socks |-> socks, log |-> log]

SetHub(h) == seq' = h.seq /\ socks' = h.socks /\ log' = h.log

Sinks(h) == {s \in Sockets : h.socks[s].attached}
SinksOf(h, u) == {s \in Sinks(h) : Owner[h.socks[s].dev] = u}

Detach(h, S) == [h EXCEPT !.socks = [s \in Sockets |->
                    IF s \in S THEN [h.socks[s] EXCEPT !.attached = FALSE] ELSE h.socks[s]]]

\* Inner::envelope: at exhaustion the event is refused.
Exhausted(h) == h.seq = MaxSeq
Numbered(h, e) ==
    [epoch |-> epoch, seq |-> h.seq + 1, kind |-> e.kind, dev |-> e.dev, run |-> e.run]
Advanced(h, u) == [h EXCEPT !.seq = @ + 1, !.log = Append(@, u)]

Event(kind, dev, run) == [kind |-> kind, dev |-> dev, run |-> run]
NoOwner == Event("owner", None, None)

\* Fault: a subscriber whose queue is full only misses the event.
Publish_SkipsFull(h, u, e) ==
    IF Exhausted(h) THEN h
    ELSE LET fits == {s \in SinksOf(h, u) : Len(h.socks[s].queue) < QueueCapacity} IN
         [Advanced(h, u) EXCEPT !.socks = [s \in Sockets |->
             IF s \in fits THEN [h.socks[s] EXCEPT !.queue = Append(@, Numbered(h, e))]
             ELSE h.socks[s]]]

\* Inner::publish: a subscriber whose queue is full loses its sender.
Publish(h, u, e) ==
    IF Exhausted(h) THEN h
    ELSE LET full == {s \in SinksOf(h, u) : Len(h.socks[s].queue) = QueueCapacity}
             fits == SinksOf(h, u) \ full IN
         Detach([Advanced(h, u) EXCEPT !.socks = [s \in Sockets |->
                    IF s \in fits THEN [h.socks[s] EXCEPT !.queue = Append(@, Numbered(h, e))]
                    ELSE h.socks[s]]], full)

\* Inner::publish of an envelope over MAX_EVENT_BYTES.
PublishLarge(h, u) == IF Exhausted(h) THEN h ELSE Detach(Advanced(h, u), SinksOf(h, u))

Lapsed(u) == voices[u] # None /\ voices[u].left = 0

-----------------------------------------------------------------------------
Init ==
    /\ epoch = 1
    /\ seq = 0
    /\ socks = [s \in Sockets |-> FreeSocket]
    /\ voices = [u \in Users |-> None]
    /\ inactive = {}
    /\ cutting = {}
    /\ clients = [d \in Devices |-> [sock |-> None, epoch |-> 0, seq |-> 0, voice |-> <<>>,
                                     ended |-> {}, restarted |-> FALSE]]
    /\ claimed = {}
    /\ log = <<>>

-----------------------------------------------------------------------------
\* Connecting and serving (websocket.rs).

\* The client opens a socket and the extractor finds its session active.
Connect(d, s) ==
    /\ clients[d].sock = None
    /\ d \notin inactive
    /\ socks[s].state = "free"
    /\ socks' = [socks EXCEPT ![s] = [FreeSocket EXCEPT !.state = "authed", !.dev = d]]
    /\ clients' = [clients EXCEPT ![d].sock = s, ![d].voice = <<>>]
    /\ UNCHANGED <<epoch, seq, voices, inactive, cutting, claimed, log>>

\* Hub::subscribe has room and a sequence number for the ready event.
MaySubscribe(d) ==
    /\ Cardinality(Sinks(Hub)) < MaxSubscribers
    /\ Cardinality(SinksOf(Hub, Owner[d])) < MaxPerUser
    /\ Cardinality({s \in Sinks(Hub) : socks[s].dev = d}) < MaxPerDevice
    /\ ~Exhausted(Hub)

Subscribe(s) ==
    /\ socks[s].state = "authed"
    /\ MaySubscribe(socks[s].dev)
    /\ SetHub([Advanced(Hub, None) EXCEPT !.socks[s] =
           [@ EXCEPT !.state = "serving", !.attached = TRUE,
                     !.queue = <<Numbered(Hub, Event("ready", socks[s].dev, None))>>]])
    /\ UNCHANGED <<epoch, voices, inactive, cutting, clients, claimed>>

\* 429: the upgrade is refused and the client learns it.
Refused(s) ==
    /\ socks[s].state = "authed"
    /\ ~MaySubscribe(socks[s].dev)
    /\ socks' = [socks EXCEPT ![s] = FreeSocket]
    /\ clients' = [d \in Devices |->
           IF clients[d].sock = s THEN [clients[d] EXCEPT !.sock = None] ELSE clients[d]]
    /\ UNCHANGED <<epoch, seq, voices, inactive, cutting, claimed, log>>

\* receiver.recv(), then is_closed(): once the sender is gone nothing more is sent.
Receive(s) ==
    /\ socks[s].state = "serving"
    /\ \/ /\ socks[s].attached /\ socks[s].queue # <<>>
          /\ socks' = [socks EXCEPT ![s].state = "sending", ![s].out = Head(socks[s].queue),
                                 ![s].queue = Tail(@)]
       \/ /\ ~socks[s].attached
          /\ socks' = [socks EXCEPT ![s].state = "closing"]
    /\ UNCHANGED <<epoch, seq, voices, inactive, cutting, clients, claimed, log>>

\* EventCursor::accept.
Accepts(c, e) == IF c.epoch # e.epoch THEN e.kind = "ready" ELSE e.seq > c.seq

\* The client applies an accepted event: the cursor, the voice owner it shows, and
\* whether a run it saw end was announced as started again.
Applied(c, e) ==
    [c EXCEPT !.epoch = e.epoch, !.seq = e.seq,
              !.voice = IF e.kind = "owner" THEN <<e.dev, e.run>>
                        ELSE IF e.kind = "ready" THEN <<>> ELSE @,
              !.ended = IF e.kind \in {"stopped", "failed"} THEN @ \cup {e.run} ELSE @,
              !.restarted = @ \/ (e.kind = "started" /\ e.run \in c.ended)]

\* The write completes and the client, if it still reads this socket, gets it.
Send(s) ==
    /\ socks[s].state = "sending"
    /\ socks' = [socks EXCEPT ![s].state = "serving", ![s].out = NoEvent]
    /\ LET d == socks[s].dev  c == clients[d]  e == socks[s].out IN
       clients' = IF c.sock = s /\ Accepts(c, e) THEN [clients EXCEPT ![d] = Applied(c, e)]
                  ELSE clients
    /\ UNCHANGED <<epoch, seq, voices, inactive, cutting, claimed, log>>

\* The write fails or times out, the pong is overdue, or an unexpected message came.
Break(s) ==
    /\ "drop" \in Kinds
    /\ socks[s].state \in {"serving", "sending"}
    /\ socks' = [socks EXCEPT ![s].state = "closing", ![s].out = NoEvent]
    /\ UNCHANGED <<epoch, seq, voices, inactive, cutting, clients, claimed, log>>

\* The subscription is dropped after the close frame; the client learns of it.
Close(s) ==
    /\ socks[s].state = "closing"
    /\ socks' = [socks EXCEPT ![s] = FreeSocket]
    /\ clients' = [d \in Devices |->
           IF clients[d].sock = s THEN [clients[d] EXCEPT !.sock = None] ELSE clients[d]]
    /\ UNCHANGED <<epoch, seq, voices, inactive, cutting, claimed, log>>

\* The client goes away without the Core noticing yet.
ClientLeaves(d) ==
    /\ "drop" \in Kinds
    /\ clients[d].sock # None
    /\ clients' = [clients EXCEPT ![d].sock = None]
    /\ UNCHANGED <<epoch, seq, socks, voices, inactive, cutting, claimed, log>>

\* Fault: a lapsed lease is removed without an event.
LookedAt_Silent(h, u) == h

\* Hub::voice_owner: a lapsed lease is removed and announced when it is looked at.
LookedAt(h, u) == IF Lapsed(u) THEN Publish(h, u, NoOwner) ELSE h
LookedAtVoices(u) == IF Lapsed(u) THEN [voices EXCEPT ![u] = None] ELSE voices

\* GET voice owner.
AskOwner(u) ==
    /\ "voice" \in Kinds
    /\ SetHub(LookedAt(Hub, u))
    /\ voices' = LookedAtVoices(u)
    /\ UNCHANGED <<epoch, inactive, cutting, clients, claimed>>

\* Fault: the heartbeat only pings.
Heartbeat_NoSession(s) ==
    /\ socks[s].state = "serving"
    /\ SetHub(LookedAt(Hub, Owner[socks[s].dev]))
    /\ voices' = LookedAtVoices(Owner[socks[s].dev])
    /\ UNCHANGED <<epoch, inactive, cutting, clients, claimed>>

\* The 30 s heartbeat revalidates the session and looks at the voice lease.
Heartbeat(s) ==
    /\ socks[s].state = "serving"
    /\ LET d == socks[s].dev IN
       \/ /\ d \in inactive
          /\ socks' = [socks EXCEPT ![s].state = "closing"]
          /\ UNCHANGED <<seq, voices, log>>
       \/ /\ d \notin inactive
          /\ SetHub(LookedAt(Hub, Owner[d]))
          /\ voices' = LookedAtVoices(Owner[d])
    /\ UNCHANGED <<epoch, inactive, cutting, clients, claimed>>

\* A pong renews the lease of the device that holds it: Hub::renew_voice.
Pong(s) ==
    /\ socks[s].state = "serving"
    /\ LET d == socks[s].dev  u == Owner[d] IN
       /\ clients[d].sock = s
       /\ voices[u] # None /\ voices[u].dev = d /\ voices[u].left > 0
       /\ voices' = [voices EXCEPT ![u].left = LeaseLife]
    /\ UNCHANGED <<epoch, seq, socks, inactive, cutting, clients, claimed, log>>

-----------------------------------------------------------------------------
\* Publishing and voice (hub.rs, voice.rs).

PublishEvent(u) ==
    /\ "events" \in Kinds
    /\ SetHub(Publish(Hub, u, Event("public", None, None)))
    /\ UNCHANGED <<epoch, voices, inactive, cutting, clients, claimed>>

PublishTooLarge(u) ==
    /\ "large" \in Kinds
    /\ SetHub(PublishLarge(Hub, u))
    /\ UNCHANGED <<epoch, voices, inactive, cutting, clients, claimed>>

\* Hub::claim_voice, for a device (no run) or for a new run of that device: every
\* lapsed lease is purged and announced first, then the bound is tested.  A request
\* that passed the extractor may get here after its device was revoked.
Purged == {u \in Users : Lapsed(u)}
ClaimVoice(d, r) ==
    /\ "voice" \in Kinds
    /\ r # None => r \notin claimed
    /\ LET u == Owner[d]
           h == FoldSet(LAMBDA v, g : Publish(g, v, NoOwner), Hub, Purged)
           kept == [v \in Users |-> IF v \in Purged THEN None ELSE voices[v]]
       IN \/ /\ kept[u] = None
             /\ Cardinality({v \in Users : kept[v] # None}) >= MaxSubscribers
             /\ SetHub(h)
             /\ voices' = kept
             /\ UNCHANGED claimed
          \/ /\ kept[u] # None \/ Cardinality({v \in Users : kept[v] # None}) < MaxSubscribers
             /\ SetHub(Publish(h, u, Event("owner", d, r)))
             /\ voices' = [kept EXCEPT ![u] = [dev |-> d, run |-> r, left |-> LeaseLife,
                                               playback |-> None]]
             /\ claimed' = claimed \cup ({r} \ {None})
    /\ UNCHANGED <<epoch, inactive, cutting, clients>>

\* Hub::release_voice_matching; a release may name the run it means.
ReleaseVoice(d, r) ==
    /\ "voice" \in Kinds
    /\ LET u == Owner[d] IN
       /\ voices[u] # None /\ voices[u].dev = d /\ (r # None => voices[u].run = r)
       /\ voices' = [voices EXCEPT ![u] = None]
       /\ SetHub(Publish(Hub, u, NoOwner))
    /\ UNCHANGED <<epoch, inactive, cutting, clients, claimed>>

\* Fault: a report after stopped or failed is taken like any other.
MayReport_AfterEnd(d, r, p) ==
    LET v == voices[Owner[d]] IN
    v # None /\ v.dev = d /\ v.run = r /\ v.left > 0 /\ v.playback # p

\* Hub::report_playback: only the unexpired lease's device and run, no repeat, and
\* nothing after stopped or failed.
MayReport(d, r, p) ==
    LET v == voices[Owner[d]] IN
    /\ v # None /\ v.dev = d /\ v.run = r /\ v.left > 0
    /\ v.playback # p
    /\ v.playback \notin {"stopped", "failed"}

ReportPlayback(d, r, p) ==
    /\ "playback" \in Kinds
    /\ MayReport(d, r, p)
    /\ voices' = [voices EXCEPT ![Owner[d]].playback = p]
    /\ SetHub(Publish(Hub, Owner[d], Event(p, d, r)))
    /\ UNCHANGED <<epoch, inactive, cutting, clients, claimed>>

\* Time passes for a lease.
LeaseTick(u) ==
    /\ voices[u] # None /\ voices[u].left > 0
    /\ voices' = [voices EXCEPT ![u].left = @ - 1]
    /\ UNCHANGED <<epoch, seq, socks, inactive, cutting, clients, claimed, log>>

-----------------------------------------------------------------------------
\* Revocation and restart.

\* A revocation of one device, or a recovery or password change that ends every session
\* of its owner, commits in the database; disconnect_owner follows it.  A logout ends
\* the session and leaves the socket to its heartbeat.  A later sign-in is a new
\* session, hence another device of the model.
Scope(x) == IF x \in Users THEN {d \in Devices : Owner[d] = x} ELSE {x}
UserOf(x) == IF x \in Users THEN x ELSE Owner[x]

Revoke(x) ==
    /\ "revoke" \in Kinds
    /\ ~(Scope(x) \subseteq inactive)
    /\ inactive' = inactive \cup Scope(x)
    /\ cutting' = cutting \cup {x}
    /\ UNCHANGED <<epoch, seq, socks, voices, clients, claimed, log>>

Logout(d) ==
    /\ "logout" \in Kinds
    /\ d \notin inactive
    /\ inactive' = inactive \cup {d}
    /\ UNCHANGED <<epoch, seq, socks, voices, cutting, clients, claimed, log>>

Holds(x) == voices[UserOf(x)] # None /\ voices[UserOf(x)].dev \in Scope(x)
Cut(x) == Detach(Hub, {s \in Sinks(Hub) : socks[s].dev \in Scope(x)})

\* Hub::disconnect_owner: the subscriptions go first, then the voice lease, announced
\* to the devices that remain.
DisconnectOwner(x) ==
    /\ x \in cutting
    /\ cutting' = cutting \ {x}
    /\ \/ /\ Holds(x)
          /\ voices' = [voices EXCEPT ![UserOf(x)] = None]
          /\ SetHub(Publish(Cut(x), UserOf(x), NoOwner))
       \/ /\ ~Holds(x)
          /\ SetHub(Cut(x))
          /\ UNCHANGED voices
    /\ UNCHANGED <<epoch, inactive, clients, claimed>>

\* The Core restarts: a new epoch, an empty hub, every socket gone.
Restart ==
    /\ "crash" \in Kinds
    /\ epoch < MaxEpoch
    /\ epoch' = epoch + 1
    /\ seq' = 0
    /\ log' = <<>>
    /\ socks' = [s \in Sockets |-> FreeSocket]
    /\ voices' = [u \in Users |-> None]
    /\ cutting' = {}
    /\ clients' = [d \in Devices |-> [clients[d] EXCEPT !.sock = None]]
    /\ UNCHANGED <<inactive, claimed>>

-----------------------------------------------------------------------------
Serve(s) == Receive(s) \/ Send(s) \/ Close(s)

Next ==
    \/ \E d \in Devices, s \in Sockets : Connect(d, s)
    \/ \E s \in Sockets : \/ Subscribe(s) \/ Refused(s) \/ Serve(s) \/ Break(s)
                          \/ Heartbeat(s) \/ Pong(s)
    \/ \E d \in Devices : ClientLeaves(d) \/ Logout(d)
    \/ \E x \in Devices \cup Users : Revoke(x) \/ DisconnectOwner(x)
    \/ \E u \in Users : PublishEvent(u) \/ PublishTooLarge(u) \/ LeaseTick(u) \/ AskOwner(u)
    \/ \E d \in Devices, r \in Runs \cup {None} : ClaimVoice(d, r) \/ ReleaseVoice(d, r)
    \/ \E d \in Devices, r \in Runs, p \in Playback : ReportPlayback(d, r, p)
    \/ Restart

\* The serving task runs, its heartbeat timer fires, a handler finishes.
Fairness ==
    \A s \in Sockets :
        /\ WF_vars(Serve(s))
        /\ SF_vars(Heartbeat(s) /\ socks[s].dev \in inactive)

Spec == Init /\ [][Next]_vars
FairSpec == Spec /\ Fairness

-----------------------------------------------------------------------------
\* A client never applies an event of its user behind which an earlier one of the
\* same user was skipped on the same connection: a subscriber that misses an event
\* is disconnected, and reconciles from connection.ready.
GapStep ==
    \A d \in Devices :
        LET old == clients[d]  new == clients'[d] IN
        (new.seq # old.seq /\ new.epoch = old.epoch /\ new.epoch = epoch /\ new.sock # None) =>
            LET e == socks[new.sock].out IN
            e.kind = "ready" \/ \A n \in old.seq + 1 .. new.seq - 1 : log[n] # Owner[d]
NoSilentGap == [][GapStep]_vars

\* A client that has read everything sent to it shows the voice owner the hub has.
Drained(s) == socks[s].state = "serving" /\ socks[s].attached /\ socks[s].queue = <<>>
OwnerOf(u) == IF voices[u] = None THEN <<None, None>> ELSE <<voices[u].dev, voices[u].run>>
VoiceViewAgrees ==
    seq < MaxSeq => \A d \in Devices :
        LET c == clients[d] IN
        c.sock # None /\ c.epoch = epoch /\ Drained(c.sock) /\ c.voice # <<>>
            => c.voice = OwnerOf(Owner[d])

\* Playback that stopped or failed is never announced as started again, whatever
\* reports are delayed, repeated or sent by another device.
PlaybackStaysEnded == \A d \in Devices : ~clients[d].restarted

\* What the clients of an owner are told about the voice is consistent: the owner
\* they show is the hub's, and playback that ended stays ended (claim_voice,
\* release_voice_matching, voice_owner, report_playback, disconnect_owner).
VoiceIsConsistent == VoiceViewAgrees /\ PlaybackStaysEnded

\* A revoked device or ended session loses its socket, even one that subscribed
\* between the revocation and the cut.
RevokedLoseSockets ==
    \A s \in Sockets :
        (socks[s].state \in {"serving", "sending"} /\ socks[s].dev \in inactive)
            ~> socks[s].state = "free"

=============================================================================
