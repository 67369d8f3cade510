------------------------- MODULE RealtimeHubProofs --------------------------
(***************************************************************************)
(* Proofs about the realtime hub: its type invariant, that no event of a   *)
(* user is skipped silently on a connection, and that what clients are     *)
(* told about the voice is consistent.                                     *)
(*                                                                         *)
(* The inductive invariant speaks of the events a socket has yet to        *)
(* deliver.  Its parts take the hub record h, the leases V, the clients C, *)
(* the epoch ep and the claimed runs K as parameters, because one critical *)
(* section publishes several times before it is done.                      *)
(***************************************************************************)
EXTENDS RealtimeHub, FiniteInduction, TLAPS

-----------------------------------------------------------------------------
(* The inductive invariant.                                                 *)

\* The envelopes that socket k still has to deliver: its queue, and the one being written.
Pending(k) == {k.queue[i] : i \in DOMAIN k.queue}
                  \cup (IF k.state = "sending" THEN {k.out} ELSE {})

OwnerIn(V, u) == IF V[u] = None THEN <<None, None>> ELSE <<V[u].dev, V[u].run>>

HubT == [seq : 0 .. MaxSeq, socks : [Sockets -> Socket], log : Seq(Users \cup {None})]
Voices == [Users -> Lease \cup {None}]

\* Envelopes leave a socket in the order of their numbers.
Sorted(k) ==
    /\ \A i, j \in DOMAIN k.queue : i < j => k.queue[i].seq < k.queue[j].seq
    /\ k.state = "sending" => \A i \in DOMAIN k.queue : k.out.seq < k.queue[i].seq

SocketShape(k) ==
    /\ Len(k.queue) <= QueueCapacity
    /\ k.state # "free" => k.dev \in Devices
    /\ k.state \in {"free", "authed"} => ~k.attached /\ k.queue = <<>>
    /\ k.state = "sending" => k.out \in Envelope
    /\ Sorted(k)

Shape(h) == h \in HubT /\ Len(h.log) = h.seq /\ \A s \in Sockets : SocketShape(h.socks[s])

\* Number n is one the socket answers for: it is not being closed, and is attached or
\* delivers a later one.
Reached(k, n) == k.state # "closing" /\ (k.attached \/ \E f \in Pending(k) : n < f.seq)

\* Every envelope for the user of socket k above number low is still to be delivered.
Complete(h, k, low) ==
    \A n \in 1 .. h.seq :
        low < n /\ h.log[n] = Owner[k.dev] /\ Reached(k, n) => \E f \in Pending(k) : f.seq = n

\* Pending envelopes are of this epoch, ready is the first, and none is missing between.
EventsOf(h, ep, k) ==
    /\ \A e \in Pending(k) : e.epoch = ep /\ e.seq <= h.seq
    /\ \A e, f \in Pending(k) : f.kind = "ready" => f.seq <= e.seq
    /\ \A e \in Pending(k) : Complete(h, k, e.seq)

EventsInv(h, ep) == \A s \in Sockets : EventsOf(h, ep, h.socks[s])

\* A client reads a socket of its own device, is behind everything that is pending on
\* it, and, once it has read ready, has missed nothing.
ReaderOf(h, ep, d, c, k) ==
    /\ k.dev = d /\ k.state # "free"
    /\ k.state = "authed" => c.voice = <<>>
    /\ c.epoch = ep =>
           /\ \A e \in Pending(k) : c.seq < e.seq
           /\ (\A e \in Pending(k) : e.kind # "ready") => Complete(h, k, c.seq)

ClientInv(h, C, ep) ==
    /\ C \in [Devices -> Client]
    /\ \A d \in Devices :
        /\ C[d].epoch <= ep
        /\ C[d].epoch = ep => C[d].seq <= h.seq
        /\ C[d].sock # None => ReaderOf(h, ep, d, C[d], h.socks[C[d].sock])

\* The last owner that is pending is the hub's; with none pending, the one shown is.
LastOwner(k, e) ==
    /\ e \in Pending(k) /\ e.kind = "owner"
    /\ \A f \in Pending(k) : f.kind = "owner" => f.seq <= e.seq
ShowsOwner(ep, c, k, o) ==
    (c.epoch = ep /\ c.voice # <<>> /\ \A e \in Pending(k) : e.kind # "owner") => c.voice = o
Live(k) == k.attached /\ k.state \in {"serving", "sending"}

ViewInv(h, V, C, ep) ==
    h.seq < MaxSeq => \A s \in Sockets : Live(h.socks[s]) =>
        /\ \A e : LastOwner(h.socks[s], e) =>
               <<e.dev, e.run>> = OwnerIn(V, Owner[h.socks[s].dev])
        /\ \A d \in Devices : C[d].sock = s =>
               ShowsOwner(ep, C[d], h.socks[s], OwnerIn(V, Owner[d]))

\* Run r has no lease on which playback could start.
Dead(V, r) == \A u \in Users : V[u] # None /\ V[u].run = r => V[u].playback \in {"stopped", "failed"}
Ends == {"stopped", "failed"}

LeaseInv(V, K) ==
    /\ V \in Voices /\ K \subseteq Runs
    /\ \A u \in Users : V[u] # None => V[u].run \in K \cup {None}
    /\ \A u, v \in Users : V[u] # None /\ V[v] # None /\ V[u].run = V[v].run /\ V[u].run # None
                               => u = v

PlayInv(h, V, C, ep, K) ==
    /\ \A s \in Sockets : \A e \in Pending(h.socks[s]) : e.kind \in Playback => e.run \in K
    /\ \A s \in Sockets : \A e \in Pending(h.socks[s]) : e.kind \in Ends => Dead(V, e.run)
    /\ \A s, t \in Sockets : \A e \in Pending(h.socks[s]), f \in Pending(h.socks[t]) :
           e.kind \in Ends /\ f.kind = "started" /\ e.run = f.run => f.seq < e.seq
    /\ \A d \in Devices : \A r \in C[d].ended : r \in K /\ Dead(V, r)
    /\ \A d \in Devices : \A s \in Sockets : \A e \in Pending(h.socks[s]) :
           e.kind = "started" /\ e.run \in C[d].ended => C[d].epoch = ep /\ e.seq <= C[d].seq
    /\ \A d \in Devices : ~C[d].restarted

Part(h, V, C, ep, K) ==
    /\ Shape(h) /\ EventsInv(h, ep) /\ ClientInv(h, C, ep) /\ ViewInv(h, V, C, ep)
    /\ LeaseInv(V, K) /\ PlayInv(h, V, C, ep, K)

IndInv ==
    /\ epoch \in 1 .. MaxEpoch /\ inactive \subseteq Devices /\ cutting \subseteq Devices \cup Users
    /\ Part(Hub, voices, clients, epoch, claimed)

-----------------------------------------------------------------------------
(* What the operations on one socket do to its pending envelopes.           *)

LEMMA PendingIs ==
  ASSUME NEW k
  PROVE  \A e : e \in Pending(k) <=>
             \/ \E i \in DOMAIN k.queue : e = k.queue[i]
             \/ k.state = "sending" /\ e = k.out
BY DEF Pending

LEMMA PendingType ==
  ASSUME NEW k \in Socket, SocketShape(k)
  PROVE  Pending(k) \subseteq Envelope
<1>1. k.queue \in Seq(Envelope) BY DEF Socket
<1>2. \A i \in DOMAIN k.queue : k.queue[i] \in Envelope BY <1>1
<1>. QED BY <1>2, PendingIs DEF SocketShape

LEMMA SeqIsNumber ==
  ASSUME NEW e \in Envelope
  PROVE  e.seq \in Nat /\ e.seq \in 1 .. MaxSeq
BY BoundsAssumption DEF Envelope

\* Receiving moves the first envelope of the queue to the writer.
LEMMA TakenSocket ==
  ASSUME NEW k \in Socket, SocketShape(k), k.state = "serving", k.queue # <<>>,
         NEW k2 \in Socket, k2.state = "sending", k2.out = Head(k.queue),
         k2.queue = Tail(k.queue), k2.dev = k.dev, k2.attached = k.attached
  PROVE  SocketShape(k2) /\ Pending(k2) = Pending(k)
<1>1. k.queue \in Seq(Envelope) BY DEF Socket
<1>2. /\ Head(k.queue) = k.queue[1] /\ Head(k.queue) \in Envelope /\ Tail(k.queue) \in Seq(Envelope)
      /\ Len(Tail(k.queue)) = Len(k.queue) - 1 /\ Len(k.queue) \in Nat /\ 1 \in DOMAIN k.queue
      /\ DOMAIN k.queue = 1 .. Len(k.queue) /\ DOMAIN Tail(k.queue) = 1 .. Len(k.queue) - 1
      /\ \A i \in 1 .. Len(k.queue) - 1 : Tail(k.queue)[i] = k.queue[i + 1]
  BY <1>1
<1>3. /\ k2.queue = Tail(k.queue) /\ k2.out = Head(k.queue) /\ k2.state = "sending"
      /\ k2.dev = k.dev /\ k2.attached = k.attached
  OBVIOUS
<1>4. \A i \in DOMAIN k2.queue : i \in Nat /\ i + 1 \in DOMAIN k.queue /\ k2.queue[i] = k.queue[i + 1]
  BY <1>2, <1>3
<1>5. Sorted(k2)
  <2>1. ASSUME NEW i \in DOMAIN k2.queue, NEW j \in DOMAIN k2.queue, i < j
        PROVE  k2.queue[i].seq < k2.queue[j].seq
    <3>1. i + 1 < j + 1 BY <1>4, <2>1
    <3>. QED BY <1>4, <3>1 DEF SocketShape, Sorted
  <2>2. ASSUME NEW i \in DOMAIN k2.queue PROVE k2.out.seq < k2.queue[i].seq
    <3>1. i \in Nat /\ i >= 1 /\ 1 < i + 1 BY <1>2, <1>3, <1>4
    <3>. QED BY <1>2, <1>3, <1>4, <3>1 DEF SocketShape, Sorted
  <2>. QED BY <2>1, <2>2 DEF Sorted
<1>6. SocketShape(k2)
  BY <1>2, <1>3, <1>5, BoundsAssumption DEF SocketShape
<1>7. ASSUME NEW e \in Pending(k) PROVE e \in Pending(k2)
  <2>1. PICK i \in DOMAIN k.queue : e = k.queue[i] BY PendingIs
  <2>2. CASE i = 1 BY <1>2, <1>3, <2>1, <2>2, PendingIs
  <2>3. CASE i # 1
    <3>1. i - 1 \in DOMAIN k2.queue /\ (i - 1) + 1 = i BY <1>2, <1>3, <2>3
    <3>2. k2.queue[i - 1] = e BY <1>4, <2>1, <3>1
    <3>. QED BY <3>1, <3>2, PendingIs
  <2>. QED BY <2>2, <2>3
<1>8. ASSUME NEW e \in Pending(k2) PROVE e \in Pending(k)
  <2>1. CASE e = k2.out BY <1>2, <1>3, <2>1, PendingIs
  <2>2. CASE e # k2.out
    <3>1. PICK i \in DOMAIN k2.queue : e = k2.queue[i] BY <2>2, PendingIs
    <3>. QED BY <1>4, <3>1, PendingIs
  <2>. QED BY <2>1, <2>2
<1>. QED BY <1>3, <1>6, <1>7, <1>8

\* A write that ends takes its envelope away, which was the first of all.
LEMMA WrittenSocket ==
  ASSUME NEW k \in Socket, SocketShape(k), k.state = "sending",
         NEW st \in {"serving", "closing"},
         NEW k2 \in Socket, k2.state = st, k2.queue = k.queue, k2.dev = k.dev,
         k2.attached = k.attached
  PROVE  /\ SocketShape(k2)
         /\ k.out \in Pending(k) /\ k.out \in Envelope
         /\ Pending(k2) = Pending(k) \ {k.out}
         /\ \A e \in Pending(k2) : k.out.seq < e.seq
<1>1. /\ k2.queue = k.queue /\ k2.state = st /\ k2.dev = k.dev /\ k2.attached = k.attached
  OBVIOUS
<1>2. SocketShape(k2) BY <1>1 DEF SocketShape, Sorted
<1>3. k.out \in Pending(k) /\ k.out \in Envelope BY PendingIs DEF SocketShape
<1>4. ASSUME NEW e \in Pending(k2) PROVE k.out.seq < e.seq /\ e \in Pending(k)
  <2>1. PICK i \in DOMAIN k2.queue : e = k2.queue[i] BY <1>1, PendingIs
  <2>2. i \in DOMAIN k.queue /\ e = k.queue[i] BY <1>1, <2>1
  <2>3. e \in Pending(k) BY <2>2, PendingIs
  <2>. QED BY <2>2, <2>3 DEF SocketShape, Sorted
<1>5. k.out \notin Pending(k2) BY <1>3, <1>4, SeqIsNumber
<1>6. ASSUME NEW e \in Pending(k), e # k.out PROVE e \in Pending(k2)
  <2>1. PICK i \in DOMAIN k.queue : e = k.queue[i] BY <1>6, PendingIs
  <2>2. i \in DOMAIN k2.queue /\ e = k2.queue[i] BY <1>1, <2>1
  <2>. QED BY <2>2, PendingIs
<1>. QED BY <1>1, <1>2, <1>3, <1>4, <1>5, <1>6

\* Publishing to a socket with room adds one envelope behind the others.
LEMMA FilledSocket ==
  ASSUME NEW k \in Socket, SocketShape(k), k.attached, Len(k.queue) < QueueCapacity,
         NEW x \in Envelope, \A e \in Pending(k) : e.seq < x.seq,
         NEW k2 \in Socket, k2.queue = Append(k.queue, x), k2.out = k.out, k2.state = k.state,
         k2.dev = k.dev, k2.attached = k.attached
  PROVE  SocketShape(k2) /\ Pending(k2) = Pending(k) \cup {x}
<1>1. k.queue \in Seq(Envelope) BY DEF Socket
<1>2. /\ Append(k.queue, x) \in Seq(Envelope) /\ Len(Append(k.queue, x)) = Len(k.queue) + 1
      /\ Len(k.queue) \in Nat /\ DOMAIN k.queue = 1 .. Len(k.queue)
      /\ DOMAIN Append(k.queue, x) = 1 .. Len(k.queue) + 1
      /\ \A i \in 1 .. Len(k.queue) : Append(k.queue, x)[i] = k.queue[i]
      /\ Append(k.queue, x)[Len(k.queue) + 1] = x
  BY <1>1
<1>3. /\ k2.queue = Append(k.queue, x) /\ k2.out = k.out /\ k2.state = k.state
      /\ k2.dev = k.dev /\ k2.attached = k.attached
  OBVIOUS
<1>4. \A i \in DOMAIN k2.queue :
          \/ i \in DOMAIN k.queue /\ k2.queue[i] = k.queue[i] /\ i < Len(k.queue) + 1
          \/ i = Len(k.queue) + 1 /\ k2.queue[i] = x
  BY <1>2, <1>3
<1>5. \A i \in DOMAIN k.queue : i \in DOMAIN k2.queue /\ k2.queue[i] = k.queue[i] BY <1>2, <1>3
<1>6. \A i \in DOMAIN k.queue : k.queue[i].seq < x.seq BY PendingIs
<1>7. k.state = "sending" => k.out.seq < x.seq BY PendingIs
<1>8. Sorted(k2)
  <2>1. ASSUME NEW i \in DOMAIN k2.queue, NEW j \in DOMAIN k2.queue, i < j
        PROVE  k2.queue[i].seq < k2.queue[j].seq
    <3>1. i \in DOMAIN k.queue /\ k2.queue[i] = k.queue[i] BY <1>2, <1>3, <1>4, <2>1
    <3>. QED BY <1>4, <1>6, <2>1, <3>1 DEF SocketShape, Sorted
  <2>2. ASSUME NEW i \in DOMAIN k2.queue, k2.state = "sending" PROVE k2.out.seq < k2.queue[i].seq
    BY <1>3, <1>4, <1>7, <2>2 DEF SocketShape, Sorted
  <2>. QED BY <2>1, <2>2 DEF Sorted
<1>9. SocketShape(k2) BY <1>2, <1>3, <1>8, BoundsAssumption DEF SocketShape
<1>10. ASSUME NEW e \in Pending(k2), e # x PROVE e \in Pending(k)
  <2>1. CASE k.state = "sending" /\ e = k.out BY <2>1, PendingIs
  <2>2. CASE ~(k.state = "sending" /\ e = k.out)
    <3>1. PICK i \in DOMAIN k2.queue : e = k2.queue[i] BY <1>3, <2>2, PendingIs
    <3>2. i \in DOMAIN k.queue /\ e = k.queue[i] BY <1>4, <1>10, <3>1
    <3>. QED BY <3>2, PendingIs
  <2>. QED BY <2>1, <2>2
<1>11. Len(k.queue) + 1 \in DOMAIN k2.queue /\ k2.queue[Len(k.queue) + 1] = x BY <1>2, <1>3
<1>12. x \in Pending(k2) BY <1>11, PendingIs
<1>13. ASSUME NEW e \in Pending(k) PROVE e \in Pending(k2)
  <2>1. CASE k.state = "sending" /\ e = k.out BY <1>3, <2>1, PendingIs
  <2>2. CASE ~(k.state = "sending" /\ e = k.out)
    <3>1. PICK i \in DOMAIN k.queue : e = k.queue[i] BY <2>2, PendingIs
    <3>2. i \in DOMAIN k2.queue /\ e = k2.queue[i] BY <1>5, <3>1
    <3>. QED BY <3>2, PendingIs
  <2>. QED BY <2>1, <2>2
<1>. QED BY <1>3, <1>9, <1>10, <1>12, <1>13

\* A socket whose queue and writer stay as they are.
LEMMA QuietSocket ==
  ASSUME NEW k \in Socket, SocketShape(k), NEW k2 \in Socket, k2.queue = k.queue, k2.out = k.out,
         k2.dev = k.dev, k2.attached => k.attached,
         k2.state = k.state \/ (k.state = "serving" /\ k2.state = "closing")
  PROVE  SocketShape(k2) /\ Pending(k2) = Pending(k)
<1>1. (k2.state = "sending") = (k.state = "sending") OBVIOUS
<1>2. Pending(k2) = Pending(k) BY <1>1 DEF Pending
<1>3. SocketShape(k2) BY DEF SocketShape, Sorted
<1>. QED BY <1>2, <1>3

LEMMA EmptySocket ==
  ASSUME NEW k, k.queue = <<>>, k.state # "sending"
  PROVE  Pending(k) = {}
<1>1. DOMAIN k.queue = {} OBVIOUS
<1>. QED BY <1>1, PendingIs

-----------------------------------------------------------------------------
(* Sockets that only lose: detached, being closed, or moving an envelope    *)
(* from the queue to the writer.                                            *)

Weaker(k2, k) ==
    /\ k2.dev = k.dev
    /\ k2.attached => k.attached
    /\ Pending(k2) \subseteq Pending(k)
    /\ k2.state # "closing" => Pending(k2) = Pending(k) /\ k.state # "closing"
    /\ k2.state = "authed" => k.state = "authed"
    /\ k2.state = "free" <=> k.state = "free"
    /\ Live(k2) => Live(k)

LEMMA CompleteWeaker ==
  ASSUME NEW h, NEW h2, NEW k, NEW k2, NEW low, h2.seq = h.seq, h2.log = h.log,
         Weaker(k2, k), Complete(h, k, low)
  PROVE  Complete(h2, k2, low)
BY DEF Complete, Reached, Weaker

LEMMA WeakerKeeps ==
  ASSUME NEW h, NEW V, NEW C, NEW ep, NEW K, Part(h, V, C, ep, K),
         NEW h2 \in HubT, h2.seq = h.seq, h2.log = h.log,
         \A s \in Sockets : SocketShape(h2.socks[s]) /\ Weaker(h2.socks[s], h.socks[s])
  PROVE  Part(h2, V, C, ep, K)
<1>1. Shape(h2) BY DEF Part, Shape
<1>2. EventsInv(h2, ep)
  <2>. SUFFICES ASSUME NEW s \in Sockets PROVE EventsOf(h2, ep, h2.socks[s]) BY DEF EventsInv
  <2>1. EventsOf(h, ep, h.socks[s]) /\ Weaker(h2.socks[s], h.socks[s]) BY DEF Part, EventsInv
  <2>2. \A e \in Pending(h2.socks[s]) : Complete(h2, h2.socks[s], e.seq)
    <3>. SUFFICES ASSUME NEW e \in Pending(h2.socks[s]) PROVE Complete(h2, h2.socks[s], e.seq)
      OBVIOUS
    <3>1. e \in Pending(h.socks[s]) BY <2>1 DEF Weaker
    <3>2. Complete(h, h.socks[s], e.seq) BY <2>1, <3>1 DEF EventsOf
    <3>. QED BY <2>1, <3>2, CompleteWeaker
  <2>. QED BY <2>1, <2>2 DEF EventsOf, Weaker
<1>3. ClientInv(h2, C, ep)
  <2>. SUFFICES ASSUME NEW d \in Devices, C[d].sock # None
                PROVE  ReaderOf(h2, ep, d, C[d], h2.socks[C[d].sock])
    BY DEF Part, ClientInv
  <2>0. C[d].sock \in Sockets BY DEF Part, ClientInv, Client
  <2>1. PICK k, k2 : k = h.socks[C[d].sock] /\ k2 = h2.socks[C[d].sock] OBVIOUS
  <2>2. ReaderOf(h, ep, d, C[d], k) /\ Weaker(k2, k) BY <2>0, <2>1 DEF Part, ClientInv
  <2>3. ASSUME C[d].epoch = ep, \A e \in Pending(k2) : e.kind # "ready"
        PROVE  Complete(h2, k2, C[d].seq)
    <3>1. CASE k2.state = "closing" BY <3>1 DEF Complete, Reached
    <3>2. CASE k2.state # "closing"
      <4>1. Complete(h, k, C[d].seq) BY <2>2, <2>3, <3>2 DEF ReaderOf, Weaker
      <4>. QED BY <2>2, <4>1, CompleteWeaker
    <3>. QED BY <3>1, <3>2
  <2>. QED BY <2>1, <2>2, <2>3 DEF ReaderOf, Weaker
<1>4. ViewInv(h2, V, C, ep)
  <2>. SUFFICES ASSUME h2.seq < MaxSeq, NEW s \in Sockets, Live(h2.socks[s])
                PROVE  /\ \A e : LastOwner(h2.socks[s], e) =>
                              <<e.dev, e.run>> = OwnerIn(V, Owner[h2.socks[s].dev])
                       /\ \A d \in Devices : C[d].sock = s =>
                              ShowsOwner(ep, C[d], h2.socks[s], OwnerIn(V, Owner[d]))
    BY DEF ViewInv
  <2>1. PICK k, k2 : k = h.socks[s] /\ k2 = h2.socks[s] OBVIOUS
  <2>2. Live(k) /\ Pending(k2) = Pending(k) /\ k2.dev = k.dev BY <2>1 DEF Weaker, Live
  <2>3. /\ \A e : LastOwner(k, e) => <<e.dev, e.run>> = OwnerIn(V, Owner[k.dev])
        /\ \A d \in Devices : C[d].sock = s => ShowsOwner(ep, C[d], k, OwnerIn(V, Owner[d]))
    BY <2>1, <2>2 DEF Part, ViewInv
  <2>4. \A e : LastOwner(k2, e) => LastOwner(k, e) BY <2>2 DEF LastOwner
  <2>5. \A d \in Devices : C[d].sock = s => ShowsOwner(ep, C[d], k2, OwnerIn(V, Owner[d]))
    BY <2>2, <2>3 DEF ShowsOwner
  <2>. QED BY <2>1, <2>2, <2>3, <2>4, <2>5
<1>5. PlayInv(h2, V, C, ep, K)
  <2>1. \A s \in Sockets : Pending(h2.socks[s]) \subseteq Pending(h.socks[s]) BY DEF Weaker
  <2>. QED BY <2>1 DEF Part, PlayInv
<1>. QED BY <1>1, <1>2, <1>3, <1>4, <1>5 DEF Part

-----------------------------------------------------------------------------
(* Publishing one event.                                                    *)

NewKinds == {"public", "owner", "started", "stopped", "failed"}
EventT == [kind : NewKinds, dev : Devices \cup {None}, run : Runs \cup {None}]

\* What a publication to user u does to a socket: it gets envelope x, or it is another
\* user's, or it is no longer attached.
Published(k, k2, u, x) ==
    /\ k2.dev = k.dev /\ k2.state = k.state
    /\ \/ Pending(k2) = Pending(k) \cup {x} /\ k.attached /\ k2.attached /\ Owner[k.dev] = u
       \/ Pending(k2) = Pending(k) /\ (k2.attached => k.attached /\ Owner[k.dev] # u)

\* The hub after a publication to u, seen from the numbers and the log.
Grown(h, h2, u) ==
    /\ h2 \in HubT /\ h2.seq = h.seq + 1 /\ Len(h2.log) = h2.seq
    /\ \A n \in 1 .. h.seq : h2.log[n] = h.log[n]
    /\ h2.log[h2.seq] = u

LEMMA CompletePublished ==
  ASSUME NEW h \in HubT, NEW h2, NEW u, Grown(h, h2, u), NEW k, NEW k2, NEW x, x.seq = h2.seq,
         Published(k, k2, u, x), \A f \in Pending(k) : f.seq \in Nat /\ f.seq <= h.seq,
         NEW low, Complete(h, k, low)
  PROVE  Complete(h2, k2, low)
<1>. SUFFICES ASSUME NEW n \in 1 .. h2.seq, low < n, h2.log[n] = Owner[k2.dev], Reached(k2, n)
              PROVE  \E f \in Pending(k2) : f.seq = n
  BY DEF Complete
<1>0. h.seq \in Nat /\ h2.seq = h.seq + 1 BY DEF Grown, HubT
<1>1. CASE n = h2.seq
  <2>1. Owner[k.dev] = u BY <1>1 DEF Grown, Published
  <2>2. CASE Pending(k2) = Pending(k) \cup {x} BY <1>1, <2>2
  <2>3. CASE Pending(k2) = Pending(k) /\ ~k2.attached
    <3>1. PICK f \in Pending(k) : n < f.seq BY <2>3 DEF Reached
    <3>. QED BY <1>0, <1>1, <3>1
  <2>. QED BY <2>1, <2>2, <2>3 DEF Published
<1>2. CASE n # h2.seq
  <2>1. n \in 1 .. h.seq BY <1>0, <1>2
  <2>2. h.log[n] = Owner[k.dev] BY <2>1 DEF Grown, Published
  <2>3. Reached(k, n)
    <3>1. CASE Pending(k2) = Pending(k) \cup {x} BY <3>1 DEF Reached, Published
    <3>2. CASE Pending(k2) = Pending(k) BY <3>2 DEF Reached, Published
    <3>. QED BY <3>1, <3>2 DEF Published
  <2>4. PICK f \in Pending(k) : f.seq = n BY <2>1, <2>2, <2>3 DEF Complete
  <2>. QED BY <2>4 DEF Published
<1>. QED BY <1>1, <1>2

LEMMA EventsPublished ==
  ASSUME NEW h \in HubT, NEW h2, NEW u, Grown(h, h2, u), NEW k, NEW k2, NEW ep,
         NEW x, x.seq = h2.seq, x.epoch = ep, x.kind # "ready",
         Published(k, k2, u, x), Pending(k) \subseteq Envelope, EventsOf(h, ep, k)
  PROVE  EventsOf(h2, ep, k2)
<1>0. h.seq \in Nat /\ h2.seq = h.seq + 1 BY DEF Grown, HubT
<1>1. \A f \in Pending(k) : f.seq \in Nat /\ f.seq <= h.seq BY SeqIsNumber DEF EventsOf
<1>2. Pending(k2) \subseteq Pending(k) \cup {x} BY DEF Published
<1>3. \A e \in Pending(k2) : e.epoch = ep /\ e.seq <= h2.seq BY <1>0, <1>1, <1>2 DEF EventsOf
<1>4. ASSUME NEW e \in Pending(k2), NEW f \in Pending(k2), f.kind = "ready" PROVE f.seq <= e.seq
  <2>1. f \in Pending(k) BY <1>2, <1>4
  <2>2. CASE e \in Pending(k) BY <1>4, <2>1, <2>2 DEF EventsOf
  <2>3. CASE e = x BY <1>0, <1>1, <2>1, <2>3
  <2>. QED BY <1>2, <2>2, <2>3
<1>5. ASSUME NEW e \in Pending(k2) PROVE Complete(h2, k2, e.seq)
  <2>1. CASE e \in Pending(k)
    <3>1. Complete(h, k, e.seq) BY <2>1 DEF EventsOf
    <3>. QED BY <1>1, <3>1, CompletePublished
  <2>2. CASE e = x
    <3>1. \A n \in 1 .. h2.seq : ~(e.seq < n) BY <1>0, <2>2
    <3>. QED BY <3>1 DEF Complete
  <2>. QED BY <1>2, <2>1, <2>2
<1>. QED BY <1>3, <1>4, <1>5 DEF EventsOf

LEMMA ReaderPublished ==
  ASSUME NEW h \in HubT, NEW h2, NEW u, Grown(h, h2, u), NEW k, NEW k2, NEW ep, NEW d,
         NEW x, x.seq = h2.seq, x.kind # "ready",
         Published(k, k2, u, x), Pending(k) \subseteq Envelope, EventsOf(h, ep, k),
         NEW c, c.seq \in Nat, c.epoch = ep => c.seq <= h.seq, ReaderOf(h, ep, d, c, k)
  PROVE  ReaderOf(h2, ep, d, c, k2)
<1>0. h.seq \in Nat /\ h2.seq = h.seq + 1 BY DEF Grown, HubT
<1>1. \A f \in Pending(k) : f.seq \in Nat /\ f.seq <= h.seq BY SeqIsNumber DEF EventsOf
<1>2. Pending(k) \subseteq Pending(k2) /\ Pending(k2) \subseteq Pending(k) \cup {x} BY DEF Published
<1>3. ASSUME c.epoch = ep PROVE \A e \in Pending(k2) : c.seq < e.seq
  BY <1>0, <1>2, <1>3 DEF ReaderOf
<1>4. ASSUME c.epoch = ep, \A e \in Pending(k2) : e.kind # "ready" PROVE Complete(h2, k2, c.seq)
  <2>1. Complete(h, k, c.seq) BY <1>2, <1>4 DEF ReaderOf
  <2>. QED BY <1>1, <2>1, CompletePublished
<1>. QED BY <1>3, <1>4 DEF ReaderOf, Published

\* The hub with one more number, sent to u, and the sockets f.
LEMMA AdvancedType ==
  ASSUME NEW h \in HubT, Len(h.log) = h.seq, h.seq # MaxSeq, NEW u \in Users \cup {None},
         NEW f \in [Sockets -> Socket],
         NEW h2, h2 = [seq |-> h.seq + 1, socks |-> f, log |-> Append(h.log, u)]
  PROVE  Grown(h, h2, u) /\ h2.seq \in 1 .. MaxSeq
<1>1. h.seq \in 0 .. MaxSeq /\ h.log \in Seq(Users \cup {None}) BY DEF HubT
<1>2. h2.seq \in 0 .. MaxSeq /\ h2.seq >= 1 BY <1>1, BoundsAssumption
<1>3. h2.log = Append(h.log, u) /\ h2.seq = h.seq + 1 /\ h2.socks = f OBVIOUS
<1>5. /\ h2.log \in Seq(Users \cup {None}) /\ Len(h2.log) = h.seq + 1
      /\ h2.log[h.seq + 1] = u /\ \A n \in 1 .. h.seq : h2.log[n] = h.log[n]
  <2>1. PICK l, T : l = h.log /\ T = Users \cup {None} OBVIOUS
  <2>2. l \in Seq(T) /\ u \in T /\ Len(l) = h.seq /\ h2.log = Append(l, u) BY <1>1, <1>3, <2>1
  <2>3. /\ Append(l, u) \in Seq(T) /\ Len(Append(l, u)) = Len(l) + 1
        /\ Append(l, u)[Len(l) + 1] = u /\ \A n \in 1 .. Len(l) : Append(l, u)[n] = l[n]
    BY <2>2
  <2>. QED BY <2>1, <2>2, <2>3
<1>4. h2 \in HubT BY <1>2, <1>3, <1>5 DEF HubT
<1>. QED BY <1>1, <1>2, <1>3, <1>4, <1>5, BoundsAssumption DEF Grown

LEMMA NumberedIs ==
  ASSUME NEW h \in HubT, h.seq # MaxSeq, epoch \in 1 .. MaxEpoch,
         NEW e, e.kind \in NewKinds \cup {"ready"}, e.dev \in Devices \cup {None},
         e.run \in Runs \cup {None}, NEW x, x = Numbered(h, e)
  PROVE  /\ x \in Envelope /\ x.epoch = epoch /\ x.seq = h.seq + 1 /\ x.kind = e.kind
         /\ x.dev = e.dev /\ x.run = e.run
BY BoundsAssumption DEF HubT, Numbered, Envelope, NewKinds

LEMMA DetachIs ==
  ASSUME NEW h \in HubT, NEW S, NEW h2, h2 = Detach(h, S)
  PROVE  /\ h2 \in HubT /\ h2.seq = h.seq /\ h2.log = h.log
         /\ \A s \in Sockets : LET k == h.socks[s]  k2 == h2.socks[s] IN
                /\ k \in Socket /\ k2 \in Socket
                /\ s \notin S => k2 = k
                /\ s \in S => /\ k2.state = k.state /\ k2.dev = k.dev /\ k2.queue = k.queue
                              /\ k2.out = k.out /\ ~k2.attached
<1>1. h.socks \in [Sockets -> Socket] BY DEF HubT
<1>2. PICK f : f = [s \in Sockets |-> IF s \in S THEN [h.socks[s] EXCEPT !.attached = FALSE]
                                      ELSE h.socks[s]]
  OBVIOUS
<1>3. ASSUME NEW s \in Sockets
      PROVE  LET k == h.socks[s]  k2 == f[s] IN
                /\ k \in Socket /\ k2 \in Socket
                /\ s \notin S => k2 = k
                /\ s \in S => /\ k2.state = k.state /\ k2.dev = k.dev /\ k2.queue = k.queue
                              /\ k2.out = k.out /\ ~k2.attached
  <2>1. h.socks[s] \in Socket BY <1>1
  <2>2. f[s] = IF s \in S THEN [h.socks[s] EXCEPT !.attached = FALSE] ELSE h.socks[s] BY <1>2
  <2>. QED BY <2>1, <2>2 DEF Socket
<1>4. f \in [Sockets -> Socket] BY <1>2, <1>3
<1>5. h2 = [h EXCEPT !.socks = f] BY <1>2 DEF Detach
<1>6. h2 \in HubT /\ h2.seq = h.seq /\ h2.log = h.log /\ h2.socks = f BY <1>4, <1>5 DEF HubT
<1>. QED BY <1>3, <1>6

LEMMA DetachWeakens ==
  ASSUME NEW h, Shape(h), NEW S, NEW h2, h2 = Detach(h, S)
  PROVE  /\ h2 \in HubT /\ h2.seq = h.seq /\ h2.log = h.log
         /\ \A s \in Sockets : SocketShape(h2.socks[s]) /\ Weaker(h2.socks[s], h.socks[s])
<1>0. h \in HubT BY DEF Shape
<1>1. h2 \in HubT /\ h2.seq = h.seq /\ h2.log = h.log BY <1>0, DetachIs
<1>2. ASSUME NEW s \in Sockets PROVE SocketShape(h2.socks[s]) /\ Weaker(h2.socks[s], h.socks[s])
  <2>1. PICK k, k2 : k = h.socks[s] /\ k2 = h2.socks[s] OBVIOUS
  <2>2. /\ k \in Socket /\ k2 \in Socket /\ k2.state = k.state /\ k2.dev = k.dev
        /\ k2.queue = k.queue /\ k2.out = k.out /\ (k2.attached => k.attached)
    BY <1>0, <2>1, DetachIs
  <2>3. SocketShape(k) BY <2>1 DEF Shape
  <2>4. SocketShape(k2) /\ Pending(k2) = Pending(k) BY <2>2, <2>3, QuietSocket
  <2>. QED BY <2>1, <2>2, <2>4 DEF Weaker, Live
<1>. QED BY <1>1, <1>2

\* Inner::publish: what it does to every socket.
LEMMA PublishIs ==
  ASSUME NEW h, Shape(h), EventsInv(h, epoch), h.seq # MaxSeq, epoch \in 1 .. MaxEpoch,
         NEW u \in Users, NEW e \in EventT, NEW x, x = Numbered(h, e), NEW h2, h2 = Publish(h, u, e)
  PROVE  /\ Grown(h, h2, u)
         /\ \A s \in Sockets : SocketShape(h2.socks[s]) /\ Published(h.socks[s], h2.socks[s], u, x)
<1>0. h \in HubT /\ h.socks \in [Sockets -> Socket] /\ Len(h.log) = h.seq /\ h.seq \in Nat
  BY BoundsAssumption DEF Shape, HubT
<1>1. x \in Envelope /\ x.seq = h.seq + 1 BY <1>0, NumberedIs DEF EventT
<1>2. PICK full, fits : /\ full = {s \in SinksOf(h, u) : Len(h.socks[s].queue) = QueueCapacity}
                        /\ fits = SinksOf(h, u) \ full
  OBVIOUS
<1>3. PICK f : f = [s \in Sockets |-> IF s \in fits THEN [h.socks[s] EXCEPT !.queue = Append(@, x)]
                                      ELSE h.socks[s]]
  OBVIOUS
<1>4. PICK g : g = [Advanced(h, u) EXCEPT !.socks = f] OBVIOUS
<1>5. h2 = Detach(g, full) BY <1>2, <1>3, <1>4 DEF Publish, Exhausted
<1>6. \A s \in Sockets : f[s] = IF s \in fits THEN [h.socks[s] EXCEPT !.queue = Append(@, x)]
                                ELSE h.socks[s]
  BY <1>3
<1>7. ASSUME NEW s \in Sockets
      PROVE  /\ f[s] \in Socket /\ h.socks[s] \in Socket
             /\ s \notin fits => f[s] = h.socks[s]
             /\ s \in fits => /\ f[s].queue = Append(h.socks[s].queue, x)
                              /\ f[s].state = h.socks[s].state /\ f[s].dev = h.socks[s].dev
                              /\ f[s].out = h.socks[s].out /\ f[s].attached = h.socks[s].attached
  <2>1. h.socks[s] \in Socket BY <1>0
  <2>2. Append(h.socks[s].queue, x) \in Seq(Envelope) BY <1>1, <2>1 DEF Socket
  <2>. QED BY <1>6, <2>1, <2>2 DEF Socket
<1>8. f \in [Sockets -> Socket] BY <1>3, <1>7
<1>9. g = [seq |-> h.seq + 1, socks |-> f, log |-> Append(h.log, u)]
  BY <1>0, <1>4 DEF Advanced, HubT
<1>10. Grown(h, g, u) BY <1>0, <1>8, <1>9, AdvancedType
<1>11. g.socks = f /\ g \in HubT BY <1>9, <1>10 DEF Grown
<1>12. Grown(h, h2, u)
  <2>1. h2 \in HubT /\ h2.seq = g.seq /\ h2.log = g.log BY <1>5, <1>11, DetachIs
  <2>. QED BY <1>10, <2>1 DEF Grown
<1>13. ASSUME NEW s \in Sockets
       PROVE  SocketShape(h2.socks[s]) /\ Published(h.socks[s], h2.socks[s], u, x)
  <2>1. PICK k, k2 : k = h.socks[s] /\ k2 = h2.socks[s] OBVIOUS
  <2>2. k \in Socket /\ SocketShape(k) BY <1>7, <2>1 DEF Shape
  <2>3. /\ k2 \in Socket /\ (s \notin full => k2 = f[s])
        /\ s \in full => /\ k2.state = f[s].state /\ k2.dev = f[s].dev /\ k2.queue = f[s].queue
                         /\ k2.out = f[s].out /\ ~k2.attached
    BY <1>5, <1>11, <2>1, DetachIs
  <2>4. s \in SinksOf(h, u) <=> k.attached /\ Owner[k.dev] = u BY <2>1 DEF SinksOf, Sinks
  <2>5. CASE s \in fits
    <3>1. s \notin full /\ s \in SinksOf(h, u) /\ k.attached /\ Owner[k.dev] = u
      BY <1>2, <2>4, <2>5
    <3>2. Len(k.queue) # QueueCapacity BY <1>2, <2>1, <2>5
    <3>3. Len(k.queue) \in Nat /\ Len(k.queue) <= QueueCapacity BY <2>2 DEF SocketShape, Socket
    <3>4. Len(k.queue) < QueueCapacity BY <3>2, <3>3, BoundsAssumption
    <3>5. ASSUME NEW y \in Pending(k) PROVE y.seq < x.seq
      <4>1. y.seq \in Nat BY <2>2, PendingType, SeqIsNumber
      <4>2. y.seq <= h.seq BY <2>1 DEF EventsInv, EventsOf
      <4>. QED BY <1>0, <1>1, <4>1, <4>2
    <3>6. /\ k2.queue = Append(k.queue, x) /\ k2.out = k.out /\ k2.state = k.state
          /\ k2.dev = k.dev /\ k2.attached = k.attached
      BY <1>7, <2>1, <2>3, <2>5, <3>1
    <3>7. SocketShape(k2) /\ Pending(k2) = Pending(k) \cup {x}
      BY <1>1, <2>2, <2>3, <3>1, <3>4, <3>5, <3>6, FilledSocket
    <3>. QED BY <2>1, <3>1, <3>6, <3>7 DEF Published
  <2>6. CASE s \notin fits
    <3>1. f[s] = k BY <1>7, <2>1, <2>6
    <3>2. s \in SinksOf(h, u) => s \in full BY <1>2, <2>6
    <3>3. /\ k2.state = k.state /\ k2.dev = k.dev /\ k2.queue = k.queue /\ k2.out = k.out
          /\ (k2.attached => k.attached /\ Owner[k.dev] # u)
      BY <2>3, <2>4, <3>1, <3>2
    <3>4. SocketShape(k2) /\ Pending(k2) = Pending(k) BY <2>2, <2>3, <3>3, QuietSocket
    <3>. QED BY <2>1, <3>3, <3>4 DEF Published
  <2>. QED BY <2>5, <2>6
<1>. QED BY <1>12, <1>13

\* The leases change from V to V2, and the runs claimed from K to K2, as event e to user u says.
Announces(V, V2, K, K2, u, e) ==
    /\ LeaseInv(V2, K2) /\ K \subseteq K2
    /\ \A v \in Users : v # u => V2[v] = V[v]
    /\ e.kind = "owner" => OwnerIn(V2, u) = <<e.dev, e.run>>
    /\ e.kind # "owner" => OwnerIn(V2, u) = OwnerIn(V, u)
    /\ \A r \in K : Dead(V, r) => Dead(V2, r)
    /\ e.kind \in Playback => e.run \in K
    /\ e.kind \in Ends => Dead(V2, e.run)
    /\ e.kind = "started" => ~Dead(V, e.run)

\* The part of ViewInv about one socket.
Viewed(V, C, ep, s, k) ==
    /\ \A e : LastOwner(k, e) => <<e.dev, e.run>> = OwnerIn(V, Owner[k.dev])
    /\ \A d \in Devices : C[d].sock = s => ShowsOwner(ep, C[d], k, OwnerIn(V, Owner[d]))

Older(k, x) == \A f \in Pending(k) : f.seq \in Nat /\ f.seq < x.seq
ReadBy(C, s, k) == \A d \in Devices : C[d].sock = s => k.dev = d

\* A socket of the user shows or is about to show the owner that was announced last.
LEMMA ViewPublished ==
  ASSUME NEW V, NEW V2, NEW C, NEW ep, NEW K, NEW K2, NEW u, NEW x \in Envelope,
         Announces(V, V2, K, K2, u, x),
         NEW k, NEW k2, Published(k, k2, u, x), Live(k2), Owner[k.dev] \in Users,
         Older(k, x), NEW s, ReadBy(C, s, k), Viewed(V, C, ep, s, k)
  PROVE  Viewed(V2, C, ep, s, k2)
<1>. USE DEF Older, ReadBy, Viewed
<1>0. k2.dev = k.dev /\ x.seq \in Nat BY SeqIsNumber DEF Published
<1>1. CASE Pending(k2) = Pending(k) /\ Owner[k.dev] # u
  <2>1. OwnerIn(V2, Owner[k.dev]) = OwnerIn(V, Owner[k.dev]) BY <1>1 DEF Announces, OwnerIn
  <2>2. \A e : LastOwner(k2, e) => LastOwner(k, e) BY <1>1 DEF LastOwner
  <2>3. \A d \in Devices : C[d].sock = s => ShowsOwner(ep, C[d], k2, OwnerIn(V, Owner[d]))
    BY <1>1 DEF ShowsOwner
  <2>. QED BY <1>0, <2>1, <2>2, <2>3
<1>2. CASE Pending(k2) = Pending(k) \cup {x} /\ Owner[k.dev] = u
  <2>1. CASE x.kind = "owner"
    <3>1. OwnerIn(V2, u) = <<x.dev, x.run>> BY <2>1 DEF Announces
    <3>2. ASSUME NEW e, LastOwner(k2, e) PROVE e = x
      <4>1. e \in Pending(k2) /\ x.seq <= e.seq BY <1>2, <2>1, <3>2 DEF LastOwner
      <4>2. e \notin Pending(k) BY <1>0, <4>1
      <4>. QED BY <1>2, <4>1, <4>2
    <3>3. \A d \in Devices : ShowsOwner(ep, C[d], k2, OwnerIn(V2, Owner[d]))
      BY <1>2, <2>1 DEF ShowsOwner
    <3>. QED BY <1>0, <1>2, <3>1, <3>2, <3>3
  <2>2. CASE x.kind # "owner"
    <3>1. OwnerIn(V2, u) = OwnerIn(V, u) BY <2>2 DEF Announces
    <3>2. \A e : LastOwner(k2, e) => LastOwner(k, e) BY <1>2, <2>2 DEF LastOwner
    <3>3. \A d \in Devices : C[d].sock = s => ShowsOwner(ep, C[d], k2, OwnerIn(V, Owner[d]))
      BY <1>2, <2>2 DEF ShowsOwner
    <3>. QED BY <1>0, <1>2, <3>1, <3>2, <3>3
  <2>. QED BY <2>1, <2>2
<1>3. k2.attached BY DEF Live
<1>. QED BY <1>1, <1>2, <1>3 DEF Published

\* Playback events and what the clients know of runs, with one more event pending.
LEMMA PlayPublished ==
  ASSUME NEW h, NEW V, NEW C, NEW ep, NEW K, PlayInv(h, V, C, ep, K),
         NEW h2, NEW V2, NEW K2, NEW u, NEW x, x.seq \in Nat, Announces(V, V2, K, K2, u, x),
         \A s \in Sockets : \A f \in Pending(h.socks[s]) : f.seq \in Nat /\ f.seq < x.seq,
         \A s \in Sockets : Pending(h2.socks[s]) \subseteq Pending(h.socks[s]) \cup {x}
  PROVE  PlayInv(h2, V2, C, ep, K2)
<1>0. /\ K \subseteq K2 /\ \A r \in K : Dead(V, r) => Dead(V2, r)
      /\ x.kind \in Playback => x.run \in K
      /\ x.kind \in Ends => Dead(V2, x.run)
      /\ x.kind = "started" => ~Dead(V, x.run)
      /\ Ends \subseteq Playback /\ "started" \notin Ends
  BY DEF Announces, Ends, Playback
<1>1. ASSUME NEW s \in Sockets, NEW e \in Pending(h2.socks[s]), e.kind \in Playback PROVE e.run \in K2
  BY <1>0, <1>1 DEF PlayInv
<1>2. ASSUME NEW s \in Sockets, NEW e \in Pending(h2.socks[s]), e.kind \in Ends PROVE Dead(V2, e.run)
  <2>1. CASE e = x BY <1>0, <1>2, <2>1
  <2>2. CASE e \in Pending(h.socks[s])
    <3>1. e.run \in K /\ Dead(V, e.run) BY <1>0, <1>2, <2>2 DEF PlayInv
    <3>. QED BY <1>0, <3>1
  <2>. QED BY <2>1, <2>2
<1>3. ASSUME NEW s \in Sockets, NEW t \in Sockets, NEW e \in Pending(h2.socks[s]),
             NEW f \in Pending(h2.socks[t]), e.kind \in Ends, f.kind = "started", e.run = f.run
      PROVE  f.seq < e.seq
  <2>1. CASE e = x
    <3>1. f \in Pending(h.socks[t]) BY <1>0, <1>3, <2>1
    <3>. QED BY <2>1, <3>1
  <2>2. CASE e \in Pending(h.socks[s]) /\ f \in Pending(h.socks[t])
    BY <1>3, <2>2 DEF PlayInv
  <2>3. CASE e \in Pending(h.socks[s]) /\ f = x
    <3>1. Dead(V, e.run) BY <1>3, <2>3 DEF PlayInv
    <3>. QED BY <1>0, <1>3, <2>3, <3>1
  <2>. QED BY <2>1, <2>2, <2>3
<1>4. ASSUME NEW d \in Devices, NEW r \in C[d].ended PROVE r \in K2 /\ Dead(V2, r)
  BY <1>0 DEF PlayInv
<1>5. ASSUME NEW d \in Devices, NEW s \in Sockets, NEW e \in Pending(h2.socks[s]),
             e.kind = "started", e.run \in C[d].ended
      PROVE  C[d].epoch = ep /\ e.seq <= C[d].seq
  <2>1. CASE e = x
    <3>1. Dead(V, x.run) BY <1>5, <2>1 DEF PlayInv
    <3>. QED BY <1>0, <1>5, <2>1, <3>1
  <2>2. CASE e \in Pending(h.socks[s]) BY <1>5, <2>2 DEF PlayInv
  <2>. QED BY <2>1, <2>2
<1>6. \A d \in Devices : ~C[d].restarted BY DEF PlayInv
<1>. QED BY <1>1, <1>2, <1>3, <1>4, <1>5, <1>6 DEF PlayInv

LEMMA GrownKeeps ==
  ASSUME NEW h, NEW V, NEW C, NEW ep, NEW K, Part(h, V, C, ep, K),
         NEW h2, NEW u, Grown(h, h2, u), NEW V2, NEW K2, NEW x \in Envelope,
         x.epoch = ep, x.seq = h2.seq, x.kind # "ready", Announces(V, V2, K, K2, u, x),
         \A s \in Sockets : SocketShape(h2.socks[s]) /\ Published(h.socks[s], h2.socks[s], u, x)
  PROVE  Part(h2, V2, C, ep, K2)
<1>0. /\ h \in HubT /\ h.seq \in Nat /\ h2.seq = h.seq + 1
      /\ \A s \in Sockets : h.socks[s] \in Socket /\ SocketShape(h.socks[s])
  BY BoundsAssumption DEF Part, Shape, HubT, Grown
<1>1. \A s \in Sockets : Pending(h.socks[s]) \subseteq Envelope BY <1>0, PendingType
<1>2. \A s \in Sockets : EventsOf(h, ep, h.socks[s]) BY DEF Part, EventsInv
<1>3. ASSUME NEW s \in Sockets, NEW f \in Pending(h.socks[s]) PROVE f.seq \in Nat /\ f.seq < x.seq
  <2>1. f.seq \in Nat BY <1>1, SeqIsNumber
  <2>2. f.seq <= h.seq BY <1>2 DEF EventsOf
  <2>. QED BY <1>0, <2>1, <2>2
<1>4. Shape(h2) BY DEF Shape, Grown
<1>5. EventsInv(h2, ep) BY <1>0, <1>1, <1>2, EventsPublished DEF EventsInv
<1>6. C \in [Devices -> Client] BY DEF Part, ClientInv
<1>7. \A d \in Devices : C[d].seq \in Nat /\ C[d].sock \in Sockets \cup {None}
  BY <1>6, BoundsAssumption DEF Client
<1>8. ClientInv(h2, C, ep)
  <2>1. ASSUME NEW d \in Devices, C[d].sock # None
        PROVE  ReaderOf(h2, ep, d, C[d], h2.socks[C[d].sock])
    <3>1. ReaderOf(h, ep, d, C[d], h.socks[C[d].sock]) /\ (C[d].epoch = ep => C[d].seq <= h.seq)
      BY <2>1 DEF Part, ClientInv
    <3>2. C[d].sock \in Sockets BY <1>7, <2>1
    <3>. QED BY <1>0, <1>1, <1>2, <1>7, <3>1, <3>2, ReaderPublished
  <2>2. \A d \in Devices : C[d].epoch <= ep /\ (C[d].epoch = ep => C[d].seq <= h2.seq)
    BY <1>0, <1>7 DEF Part, ClientInv
  <2>. QED BY <1>6, <2>1, <2>2 DEF ClientInv
<1>9. ViewInv(h2, V2, C, ep)
  <2>. SUFFICES ASSUME h2.seq < MaxSeq, NEW s \in Sockets, Live(h2.socks[s])
                PROVE  /\ \A e : LastOwner(h2.socks[s], e) =>
                              <<e.dev, e.run>> = OwnerIn(V2, Owner[h2.socks[s].dev])
                       /\ \A d \in Devices : C[d].sock = s =>
                              ShowsOwner(ep, C[d], h2.socks[s], OwnerIn(V2, Owner[d]))
    BY DEF ViewInv
  <2>1. PICK k, k2 : k = h.socks[s] /\ k2 = h2.socks[s] OBVIOUS
  <2>2. Published(k, k2, u, x) /\ Live(k2) /\ Live(k) BY <2>1 DEF Published, Live
  <2>3. k.dev \in Devices BY <1>0, <2>1, <2>2 DEF SocketShape, Live
  <2>4. Owner[k.dev] \in Users BY <2>3, OwnerAssumption
  <2>5. h.seq < MaxSeq BY <1>0, BoundsAssumption
  <2>6. Viewed(V, C, ep, s, k) BY <2>1, <2>2, <2>5 DEF Part, ViewInv, Viewed
  <2>7. ReadBy(C, s, k)
    <3>1. s # None BY NoneAssumption
    <3>. QED BY <2>1, <3>1 DEF Part, ClientInv, ReaderOf, ReadBy
  <2>8. Older(k, x) BY <1>3, <2>1 DEF Older
  <2>9. Viewed(V2, C, ep, s, k2) BY <2>2, <2>4, <2>6, <2>7, <2>8, ViewPublished
  <2>. QED BY <2>1, <2>9 DEF Viewed
<1>10. LeaseInv(V2, K2) BY DEF Announces
<1>11. PlayInv(h2, V2, C, ep, K2)
  <2>1. \A s \in Sockets : Pending(h2.socks[s]) \subseteq Pending(h.socks[s]) \cup {x} BY DEF Published
  <2>2. PlayInv(h, V, C, ep, K) /\ x.seq \in Nat BY SeqIsNumber DEF Part
  <2>. QED BY <1>3, <2>1, <2>2, PlayPublished
<1>. QED BY <1>4, <1>5, <1>8, <1>9, <1>10, <1>11 DEF Part

\* Inner::publish keeps the invariant, whether or not a number is left for the event.
LEMMA PublishKeeps ==
  ASSUME epoch \in 1 .. MaxEpoch, NEW h, NEW V, NEW C, NEW K, Part(h, V, C, epoch, K),
         NEW u \in Users, NEW e \in EventT, NEW V2, NEW K2, Announces(V, V2, K, K2, u, e)
  PROVE  Part(Publish(h, u, e), V2, C, epoch, K2)
<1>0. h \in HubT /\ Shape(h) /\ EventsInv(h, epoch) BY DEF Part, Shape
<1>1. CASE h.seq = MaxSeq
  <2>1. Publish(h, u, e) = h BY <1>1 DEF Publish, Exhausted
  <2>2. ViewInv(h, V2, C, epoch) BY <1>1, BoundsAssumption DEF ViewInv
  <2>3. PlayInv(h, V2, C, epoch, K2)
    <3>1. /\ PlayInv(h, V, C, epoch, K) /\ K \subseteq K2 /\ Ends \subseteq Playback
          /\ \A r \in K : Dead(V, r) => Dead(V2, r)
      BY DEF Part, Announces, Ends, Playback
    <3>2. ASSUME NEW s \in Sockets, NEW y \in Pending(h.socks[s]), y.kind \in Ends
          PROVE  Dead(V2, y.run)
      <4>1. y.run \in K /\ Dead(V, y.run) BY <3>1, <3>2 DEF PlayInv
      <4>. QED BY <3>1, <4>1
    <3>3. ASSUME NEW s \in Sockets, NEW y \in Pending(h.socks[s]), y.kind \in Playback
          PROVE  y.run \in K2
      BY <3>1, <3>3 DEF PlayInv
    <3>4. \A d \in Devices : \A r \in C[d].ended : r \in K2 /\ Dead(V2, r) BY <3>1 DEF PlayInv
    <3>. QED BY <3>1, <3>2, <3>3, <3>4 DEF PlayInv
  <2>. QED BY <2>1, <2>2, <2>3 DEF Part, Announces
<1>2. CASE h.seq # MaxSeq
  <2>1. PICK x, h2 : x = Numbered(h, e) /\ h2 = Publish(h, u, e) OBVIOUS
  <2>2. /\ x \in Envelope /\ x.epoch = epoch /\ x.seq = h.seq + 1 /\ x.kind = e.kind
        /\ x.dev = e.dev /\ x.run = e.run
    BY <1>0, <1>2, <2>1, NumberedIs DEF EventT
  <2>3. /\ Grown(h, h2, u)
        /\ \A s \in Sockets : SocketShape(h2.socks[s]) /\ Published(h.socks[s], h2.socks[s], u, x)
    BY <1>0, <1>2, <2>1, PublishIs
  <2>4. Announces(V, V2, K, K2, u, x) BY <2>2 DEF Announces
  <2>5. x.kind # "ready" /\ x.seq = h2.seq BY <2>2, <2>3 DEF EventT, NewKinds, Grown
  <2>6. Part(h2, V2, C, epoch, K2) BY <2>2, <2>3, <2>4, <2>5, GrownKeeps
  <2>. QED BY <2>1, <2>6
<1>. QED BY <1>1, <1>2

\* Inner::publish of an envelope that is too large takes a number and reaches nobody.
LEMMA LargeKeeps ==
  ASSUME epoch \in 1 .. MaxEpoch, NEW h, NEW V, NEW C, NEW K, Part(h, V, C, epoch, K),
         NEW u \in Users
  PROVE  Part(PublishLarge(h, u), V, C, epoch, K)
<1>0. h \in HubT /\ Shape(h) /\ h.socks \in [Sockets -> Socket] /\ Len(h.log) = h.seq
  BY DEF Part, Shape, HubT
<1>1. CASE h.seq = MaxSeq BY <1>1 DEF PublishLarge, Exhausted
<1>2. CASE h.seq # MaxSeq
  <2>1. PICK g, h2, e, x : /\ g = Advanced(h, u) /\ h2 = PublishLarge(h, u)
                           /\ e = Event("public", None, None) /\ x = Numbered(h, e)
    OBVIOUS
  <2>2. e \in EventT /\ e.kind = "public" BY <2>1 DEF Event, EventT, NewKinds
  <2>3. x \in Envelope /\ x.epoch = epoch /\ x.seq = h.seq + 1 /\ x.kind = "public"
    BY <1>0, <1>2, <2>1, <2>2, NumberedIs DEF EventT
  <2>4. h2 = Detach(g, SinksOf(h, u)) BY <1>2, <2>1 DEF PublishLarge, Exhausted
  <2>5. g = [seq |-> h.seq + 1, socks |-> h.socks, log |-> Append(h.log, u)]
    BY <1>0, <2>1 DEF Advanced, HubT
  <2>6. Grown(h, g, u) BY <1>0, <1>2, <2>5, AdvancedType
  <2>7. g.socks = h.socks /\ g \in HubT BY <2>5, <2>6 DEF Grown
  <2>8. h2 \in HubT /\ h2.seq = g.seq /\ h2.log = g.log BY <2>4, <2>7, DetachIs
  <2>9. Grown(h, h2, u) BY <2>6, <2>8 DEF Grown
  <2>10. ASSUME NEW s \in Sockets
         PROVE  SocketShape(h2.socks[s]) /\ Published(h.socks[s], h2.socks[s], u, x)
    <3>1. PICK k, k2 : k = h.socks[s] /\ k2 = h2.socks[s] OBVIOUS
    <3>2. k \in Socket /\ SocketShape(k) BY <1>0, <3>1 DEF Shape
    <3>3. /\ k2 \in Socket /\ k2.state = k.state /\ k2.dev = k.dev
          /\ k2.queue = k.queue /\ k2.out = k.out
          /\ (s \in SinksOf(h, u) => ~k2.attached) /\ (s \notin SinksOf(h, u) => k2 = k)
      BY <2>4, <2>7, <3>1, DetachIs
    <3>4. s \in SinksOf(h, u) <=> k.attached /\ Owner[k.dev] = u BY <3>1 DEF SinksOf, Sinks
    <3>5. k2.attached => k.attached /\ Owner[k.dev] # u BY <3>3, <3>4
    <3>6. SocketShape(k2) /\ Pending(k2) = Pending(k) BY <3>2, <3>3, <3>5, QuietSocket
    <3>. QED BY <3>1, <3>3, <3>5, <3>6 DEF Published
  <2>11. Announces(V, V, K, K, u, x) BY <2>3 DEF Announces, Part, Playback, Ends
  <2>12. Part(h2, V, C, epoch, K)
    BY <2>3, <2>6, <2>9, <2>10, <2>11, GrownKeeps DEF Grown
  <2>. QED BY <2>1, <2>12
<1>. QED BY <1>1, <1>2

-----------------------------------------------------------------------------
(* What the operations announce.                                            *)

LEMMA PublicAnnounced ==
  ASSUME NEW V, NEW K, LeaseInv(V, K), NEW u
  PROVE  /\ Event("public", None, None) \in EventT
         /\ Announces(V, V, K, K, u, Event("public", None, None))
BY DEF Announces, Event, EventT, NewKinds, Playback, Ends

\* A lease that ends, for whatever reason.
LEMMA ReleaseAnnounced ==
  ASSUME NEW V, NEW K, LeaseInv(V, K), NEW u \in Users, NEW V2, V2 = [V EXCEPT ![u] = None]
  PROVE  NoOwner \in EventT /\ Announces(V, V2, K, K, u, NoOwner)
<1>1. NoOwner \in EventT /\ NoOwner.kind = "owner" /\ NoOwner.dev = None /\ NoOwner.run = None
  BY DEF NoOwner, Event, EventT, NewKinds
<1>2. V \in Voices /\ V2 \in Voices /\ V2[u] = None /\ \A v \in Users : v # u => V2[v] = V[v]
  BY DEF LeaseInv, Voices
<1>3. \A v \in Users : V2[v] # None => V2[v] = V[v] BY <1>2
<1>4. LeaseInv(V2, K) BY <1>2, <1>3 DEF LeaseInv
<1>5. OwnerIn(V2, u) = <<None, None>> BY <1>2 DEF OwnerIn
<1>6. \A r : Dead(V, r) => Dead(V2, r) BY <1>3 DEF Dead
<1>. QED BY <1>1, <1>2, <1>4, <1>5, <1>6 DEF Announces, Playback, Ends

\* A claim, for no run or for one that was never claimed.
LEMMA ClaimAnnounced ==
  ASSUME NEW V, NEW K, LeaseInv(V, K), NEW d \in Devices, NEW r \in Runs \cup {None}, r \notin K,
         NEW lease, lease = [dev |-> d, run |-> r, left |-> LeaseLife, playback |-> None],
         NEW V2, V2 = [V EXCEPT ![Owner[d]] = lease]
  PROVE  /\ Event("owner", d, r) \in EventT
         /\ Announces(V, V2, K, K \cup ({r} \ {None}), Owner[d], Event("owner", d, r))
<1>. DEFINE e == Event("owner", d, r)
            u == Owner[d]
            K2 == K \cup ({r} \ {None})
<1>1. e \in EventT /\ e.kind = "owner" /\ e.dev = d /\ e.run = r
  BY DEF Event, EventT, NewKinds
<1>2. u \in Users BY OwnerAssumption
<1>3. lease \in Lease /\ lease.dev = d /\ lease.run = r /\ lease # None
  <2>1. lease \in Lease BY BoundsAssumption DEF Lease
  <2>. QED BY <2>1, LeaseAssumption
<1>4. V \in Voices /\ V2 \in Voices /\ V2[u] = lease /\ \A v \in Users : v # u => V2[v] = V[v]
  BY <1>2, <1>3 DEF LeaseInv, Voices
<1>5. LeaseInv(V2, K2)
  <2>1. K2 \subseteq Runs BY DEF LeaseInv
  <2>2. \A v \in Users : V2[v] # None => V2[v].run \in K2 \cup {None} BY <1>3, <1>4 DEF LeaseInv
  <2>3. ASSUME NEW v \in Users, NEW w \in Users, V2[v] # None, V2[w] # None,
               V2[v].run = V2[w].run, V2[v].run # None
        PROVE  v = w
    <3>1. CASE v # u /\ w # u BY <1>4, <2>3, <3>1 DEF LeaseInv
    <3>2. CASE v = u /\ w # u
      <4>1. V[w] # None /\ V[w].run = r /\ r # None BY <1>3, <1>4, <2>3, <3>2
      <4>. QED BY <4>1 DEF LeaseInv
    <3>3. CASE v # u /\ w = u
      <4>1. V[v] # None /\ V[v].run = r /\ r # None BY <1>3, <1>4, <2>3, <3>3
      <4>. QED BY <4>1 DEF LeaseInv
    <3>. QED BY <3>1, <3>2, <3>3
  <2>. QED BY <1>4, <2>1, <2>2, <2>3 DEF LeaseInv
<1>6. OwnerIn(V2, u) = <<d, r>> BY <1>3, <1>4 DEF OwnerIn
<1>7. ASSUME NEW q \in K, Dead(V, q) PROVE Dead(V2, q)
  <2>1. q # r OBVIOUS
  <2>. QED BY <1>3, <1>4, <1>7, <2>1 DEF Dead
<1>. QED BY <1>1, <1>4, <1>5, <1>6, <1>7 DEF Announces, Playback, Ends

\* A playback report that the hub takes.
LEMMA ReportAnnounced ==
  ASSUME NEW V, NEW K, LeaseInv(V, K), NEW d \in Devices, NEW r \in Runs, NEW p \in Playback,
         V[Owner[d]] # None, V[Owner[d]].run = r, V[Owner[d]].dev = d,
         V[Owner[d]].playback \notin {"stopped", "failed"},
         NEW V2, V2 = [V EXCEPT ![Owner[d]].playback = p]
  PROVE  /\ Event(p, d, r) \in EventT
         /\ Announces(V, V2, K, K, Owner[d], Event(p, d, r))
<1>. DEFINE e == Event(p, d, r)
            u == Owner[d]
<1>1. e \in EventT /\ e.kind = p /\ e.dev = d /\ e.run = r /\ p # "owner"
  BY DEF Event, EventT, NewKinds, Playback
<1>2. u \in Users BY OwnerAssumption
<1>3. V \in Voices /\ V[u] \in Lease BY <1>2 DEF LeaseInv, Voices
<1>4. V2[u] = [V[u] EXCEPT !.playback = p] /\ \A v \in Users : v # u => V2[v] = V[v]
  BY <1>2, <1>3 DEF Voices
<1>5. /\ V2[u] \in Lease /\ V2[u].run = r /\ V2[u].dev = d /\ V2[u].playback = p /\ V2[u] # None
  <2>1. V2[u] \in Lease /\ V2[u].run = r /\ V2[u].dev = d /\ V2[u].playback = p
    BY <1>3, <1>4 DEF Lease
  <2>. QED BY <2>1, LeaseAssumption
<1>6. V2 \in Voices BY <1>2, <1>3, <1>4, <1>5 DEF Voices
<1>7. \A v \in Users : (V2[v] # None <=> V[v] # None) /\ (V[v] # None => V2[v].run = V[v].run)
  BY <1>4, <1>5
<1>8. LeaseInv(V2, K) BY <1>6, <1>7 DEF LeaseInv
<1>9. OwnerIn(V2, u) = OwnerIn(V, u) BY <1>5 DEF OwnerIn
<1>10. ~Dead(V, r) BY <1>2 DEF Dead
<1>11. ASSUME NEW q \in K, Dead(V, q) PROVE Dead(V2, q)
  <2>1. q # r BY <1>10, <1>11
  <2>. QED BY <1>4, <1>5, <1>11, <2>1 DEF Dead
<1>12. r \in K /\ r # None BY <1>2, NoneAssumption DEF LeaseInv
<1>13. ASSUME p \in Ends PROVE Dead(V2, r)
  <2>1. \A v \in Users : V2[v] # None /\ V2[v].run = r => v = u
    BY <1>2, <1>5, <1>8, <1>12 DEF LeaseInv
  <2>. QED BY <1>5, <1>13, <2>1 DEF Dead, Ends
<1>. QED BY <1>1, <1>4, <1>8, <1>9, <1>10, <1>11, <1>12, <1>13 DEF Announces

-----------------------------------------------------------------------------
(* The purge of every lapsed lease is a fold of publications.               *)

HubSet == {h \in HubT : Shape(h) /\ EventsInv(h, epoch)}

LEMMA PublishType ==
  ASSUME epoch \in 1 .. MaxEpoch, NEW h \in HubSet, NEW u \in Users, NEW e \in EventT
  PROVE  Publish(h, u, e) \in HubSet
<1>0. h \in HubT /\ Shape(h) /\ EventsInv(h, epoch) BY DEF HubSet
<1>1. CASE h.seq = MaxSeq BY <1>1 DEF Publish, Exhausted
<1>2. CASE h.seq # MaxSeq
  <2>1. PICK x, h2 : x = Numbered(h, e) /\ h2 = Publish(h, u, e) OBVIOUS
  <2>2. x \in Envelope /\ x.epoch = epoch /\ x.seq = h.seq + 1 /\ x.kind # "ready"
    BY <1>0, <1>2, <2>1, NumberedIs DEF EventT, NewKinds
  <2>3. /\ Grown(h, h2, u)
        /\ \A s \in Sockets : SocketShape(h2.socks[s]) /\ Published(h.socks[s], h2.socks[s], u, x)
    BY <1>0, <1>2, <2>1, PublishIs
  <2>4. h2 \in HubT /\ Shape(h2) /\ x.seq = h2.seq BY <2>2, <2>3 DEF Grown, Shape
  <2>5. ASSUME NEW s \in Sockets PROVE EventsOf(h2, epoch, h2.socks[s])
    <3>1. h.socks[s] \in Socket /\ SocketShape(h.socks[s]) BY <1>0 DEF HubT, Shape
    <3>2. Pending(h.socks[s]) \subseteq Envelope BY <3>1, PendingType
    <3>3. EventsOf(h, epoch, h.socks[s]) BY <1>0 DEF EventsInv
    <3>. QED BY <1>0, <2>2, <2>3, <2>4, <3>2, <3>3, EventsPublished
  <2>. QED BY <2>1, <2>4, <2>5 DEF HubSet, EventsInv
<1>. QED BY <1>1, <1>2

\* The fold over a set S of users, as the function FoldSet defines.
IsPurge(f, h, S) ==
    f = [s \in SUBSET S |-> IF s = {} THEN h ELSE Publish(f[s \ {Any(s)}], Any(s), NoOwner)]

LEMMA PurgeExists ==
  ASSUME epoch \in 1 .. MaxEpoch, NEW h \in HubSet, NEW S \in SUBSET Users
  PROVE  \E f \in [SUBSET S -> HubSet] : IsPurge(f, h, S)
<1>0. IsFiniteSet(S) BY UsersAssumption, FS_Subset
<1>1. NoOwner \in EventT BY DEF NoOwner, Event, EventT, NewKinds
<1>2. PICK F : F = [x \in S \X HubSet |-> Publish(x[2], x[1], NoOwner)] OBVIOUS
<1>3. ASSUME NEW v \in S, NEW g \in HubSet
      PROVE  F[v, g] = Publish(g, v, NoOwner) /\ F[v, g] \in HubSet
  <2>1. F[v, g] = Publish(g, v, NoOwner) BY <1>2
  <2>2. v \in Users OBVIOUS
  <2>. QED BY <1>1, <2>1, <2>2, PublishType
<1>4. StaysIn(F, S, HubSet) BY <1>3 DEF StaysIn
<1>5. PICK f \in [SUBSET S -> HubSet] : IsFold(f, F, h, S) BY <1>0, <1>4, FoldExists
<1>6. ASSUME NEW s \in SUBSET S
      PROVE  f[s] = IF s = {} THEN h ELSE Publish(f[s \ {Any(s)}], Any(s), NoOwner)
  <2>1. CASE s = {} BY <1>5, <2>1 DEF PartFold, IsFold
  <2>2. CASE s # {}
    <3>1. Any(s) \in S /\ s \ {Any(s)} \in SUBSET S BY <2>2, AnyIsOne
    <3>2. f[s \ {Any(s)}] \in HubSet BY <3>1
    <3>3. f[s] = F[Any(s), f[s \ {Any(s)}]] BY <1>5, <2>2 DEF PartFold, IsFold
    <3>. QED BY <1>3, <2>2, <3>1, <3>2, <3>3
  <2>. QED BY <2>1, <2>2
<1>7. IsPurge(f, h, S) BY <1>6 DEF IsPurge
<1>. QED BY <1>7

PurgedHub == FoldSet(LAMBDA v, g : Publish(g, v, NoOwner), Hub, Purged)
KeptVoices == [v \in Users |-> IF v \in Purged THEN None ELSE voices[v]]

LEMMA PurgeKeeps ==
  ASSUME epoch \in 1 .. MaxEpoch, Part(Hub, voices, clients, epoch, claimed)
  PROVE  Part(PurgedHub, KeptVoices, clients, epoch, claimed)
<1>0. Purged \in SUBSET Users /\ IsFiniteSet(Purged) BY UsersAssumption, FS_Subset DEF Purged
<1>1. Hub \in HubSet BY DEF Part, Shape, HubSet
<1>2. PICK f : f = (CHOOSE g : IsPurge(g, Hub, Purged)) OBVIOUS
<1>3. IsPurge(f, Hub, Purged)
  <2>1. \E g : IsPurge(g, Hub, Purged) BY <1>0, <1>1, PurgeExists
  <2>. QED BY <1>2, <2>1, Zenon
<1>4. PurgedHub = f[Purged]
  BY <1>2, Zenon DEF PurgedHub, FoldSet, MapThenFoldSet, IsPurge, Any
<1>5. /\ f[{}] = Hub
      /\ \A s \in SUBSET Purged : s # {} => f[s] = Publish(f[s \ {Any(s)}], Any(s), NoOwner)
  BY <1>3 DEF IsPurge
<1>. DEFINE left(s) == [v \in Users |-> IF v \in s THEN None ELSE voices[v]]
            G == {s \in SUBSET Purged : Part(f[s], left(s), clients, epoch, claimed)}
<1>6. voices \in [Users -> Lease \cup {None}] /\ LeaseInv(voices, claimed)
  BY DEF Part, LeaseInv, Voices
<1>7. {} \in G
  <2>1. left({}) = voices BY <1>6
  <2>. QED BY <1>5, <2>1
<1>8. ASSUME NEW s \in SUBSET Purged, s # {}, \A x \in s : s \ {x} \in G PROVE s \in G
  <2>1. PICK x \in s : x = Any(s) BY <1>8, AnyIsOne
  <2>2. Part(f[s \ {x}], left(s \ {x}), clients, epoch, claimed) BY <1>8
  <2>3. x \in Users BY <1>0
  <2>4. left(s) = [left(s \ {x}) EXCEPT ![x] = None] BY <2>3
  <2>5. LeaseInv(left(s \ {x}), claimed) BY <2>2 DEF Part
  <2>6. PICK V, V2 : V = left(s \ {x}) /\ V2 = left(s) OBVIOUS
  <2>7. NoOwner \in EventT /\ Announces(V, V2, claimed, claimed, x, NoOwner)
    <3>. HIDE DEF left
    <3>. QED BY <2>3, <2>4, <2>5, <2>6, ReleaseAnnounced
  <2>8. Part(Publish(f[s \ {x}], x, NoOwner), V2, clients, epoch, claimed)
    <3>. HIDE DEF left
    <3>. QED BY <2>2, <2>3, <2>6, <2>7, PublishKeeps
  <2>9. f[s] = Publish(f[s \ {x}], x, NoOwner) BY <1>5, <1>8, <2>1
  <2>. QED BY <2>6, <2>8, <2>9
<1>9. \A s \in SUBSET Purged : s \in G
  <2>. HIDE DEF G
  <2>. QED BY <1>0, <1>7, <1>8, SubsetInduces
<1>10. Part(f[Purged], left(Purged), clients, epoch, claimed) BY <1>9
<1>. QED BY <1>4, <1>10 DEF KeptVoices

-----------------------------------------------------------------------------
(* The steps that publish.                                                  *)

Part0 == Part(Hub, voices, clients, epoch, claimed)

LEMMA HubStep ==
  ASSUME NEW h2, h2 \in HubT, SetHub(h2)
  PROVE  Hub' = h2
BY DEF HubT, SetHub, Hub

LEMMA PartHub ==
  ASSUME NEW h, NEW V, NEW C, NEW ep, NEW K, Part(h, V, C, ep, K)
  PROVE  h \in HubT
BY DEF Part, Shape

LEMMA PublishEventStep ==
  ASSUME IndInv, NEW u \in Users, PublishEvent(u)
  PROVE  Part0'
<1>1. Part0 /\ epoch \in 1 .. MaxEpoch /\ LeaseInv(voices, claimed) BY DEF IndInv, Part0, Part
<1>2. PICK h2 : h2 = Publish(Hub, u, Event("public", None, None)) OBVIOUS
<1>3. Part(h2, voices, clients, epoch, claimed)
  BY <1>1, <1>2, PublicAnnounced, PublishKeeps DEF Part0
<1>4. Hub' = h2 BY <1>2, <1>3, PartHub, HubStep DEF PublishEvent
<1>. QED BY <1>3, <1>4 DEF PublishEvent, Part0

LEMMA PublishTooLargeStep ==
  ASSUME IndInv, NEW u \in Users, PublishTooLarge(u)
  PROVE  Part0'
<1>1. Part0 /\ epoch \in 1 .. MaxEpoch BY DEF IndInv, Part0
<1>2. PICK h2 : h2 = PublishLarge(Hub, u) OBVIOUS
<1>3. Part(h2, voices, clients, epoch, claimed) BY <1>1, <1>2, LargeKeeps DEF Part0
<1>4. Hub' = h2 BY <1>2, <1>3, PartHub, HubStep DEF PublishTooLarge
<1>. QED BY <1>3, <1>4 DEF PublishTooLarge, Part0

\* Ending the lease of u from the hub h, which the steps below share.
LEMMA ReleaseKeeps ==
  ASSUME epoch \in 1 .. MaxEpoch, NEW h, NEW V, NEW C, NEW K, Part(h, V, C, epoch, K),
         NEW u \in Users
  PROVE  Part(Publish(h, u, NoOwner), [V EXCEPT ![u] = None], C, epoch, K)
<1>1. LeaseInv(V, K) BY DEF Part
<1>2. PICK V2 : V2 = [V EXCEPT ![u] = None] OBVIOUS
<1>3. NoOwner \in EventT /\ Announces(V, V2, K, K, u, NoOwner) BY <1>1, <1>2, ReleaseAnnounced
<1>4. Part(Publish(h, u, NoOwner), V2, C, epoch, K) BY <1>3, PublishKeeps
<1>. QED BY <1>2, <1>4

LEMMA LookKeeps ==
  ASSUME IndInv, NEW u \in Users
  PROVE  Part(LookedAt(Hub, u), LookedAtVoices(u), clients, epoch, claimed)
<1>1. Part0 /\ epoch \in 1 .. MaxEpoch BY DEF IndInv, Part0
<1>2. CASE Lapsed(u) BY <1>1, <1>2, ReleaseKeeps DEF LookedAt, LookedAtVoices, Part0
<1>3. CASE ~Lapsed(u) BY <1>1, <1>3 DEF LookedAt, LookedAtVoices, Part0
<1>. QED BY <1>2, <1>3

LEMMA AskOwnerStep ==
  ASSUME IndInv, NEW u \in Users, AskOwner(u)
  PROVE  Part0'
<1>1. PICK h2 : h2 = LookedAt(Hub, u) OBVIOUS
<1>2. Part(h2, LookedAtVoices(u), clients, epoch, claimed) BY <1>1, LookKeeps
<1>3. Hub' = h2 BY <1>1, <1>2, PartHub, HubStep DEF AskOwner
<1>. QED BY <1>2, <1>3 DEF AskOwner, Part0

LEMMA ReleaseVoiceStep ==
  ASSUME IndInv, NEW d \in Devices, NEW r, ReleaseVoice(d, r)
  PROVE  Part0'
<1>1. Part0 /\ epoch \in 1 .. MaxEpoch /\ Owner[d] \in Users
  BY OwnerAssumption DEF IndInv, Part0
<1>2. PICK h2 : h2 = Publish(Hub, Owner[d], NoOwner) OBVIOUS
<1>3. Part(h2, [voices EXCEPT ![Owner[d]] = None], clients, epoch, claimed)
  BY <1>1, <1>2, ReleaseKeeps DEF Part0
<1>4. Hub' = h2 BY <1>2, <1>3, PartHub, HubStep DEF ReleaseVoice
<1>. QED BY <1>3, <1>4 DEF ReleaseVoice, Part0

LEMMA ReportPlaybackStep ==
  ASSUME IndInv, NEW d \in Devices, NEW r \in Runs, NEW p \in Playback, ReportPlayback(d, r, p)
  PROVE  Part0'
<1>1. Part0 /\ epoch \in 1 .. MaxEpoch /\ LeaseInv(voices, claimed) /\ Owner[d] \in Users
  BY OwnerAssumption DEF IndInv, Part0, Part
<1>2. PICK h2, V2, e : /\ h2 = Publish(Hub, Owner[d], e) /\ e = Event(p, d, r)
                       /\ V2 = [voices EXCEPT ![Owner[d]].playback = p]
  OBVIOUS
<1>3. e \in EventT /\ Announces(voices, V2, claimed, claimed, Owner[d], e)
  BY <1>1, <1>2, ReportAnnounced DEF ReportPlayback, MayReport
<1>4. Part(h2, V2, clients, epoch, claimed) BY <1>1, <1>2, <1>3, PublishKeeps DEF Part0
<1>5. Hub' = h2 BY <1>2, <1>4, PartHub, HubStep DEF ReportPlayback
<1>. QED BY <1>2, <1>4, <1>5 DEF ReportPlayback, Part0

LEMMA ClaimVoiceStep ==
  ASSUME IndInv, NEW d \in Devices, NEW r \in Runs \cup {None}, ClaimVoice(d, r)
  PROVE  Part0'
<1>1. Part0 /\ epoch \in 1 .. MaxEpoch /\ Owner[d] \in Users /\ claimed \subseteq Runs
  BY OwnerAssumption DEF IndInv, Part0, Part, LeaseInv
<1>2. PICK h, kept : h = PurgedHub /\ kept = KeptVoices OBVIOUS
<1>3. Part(h, kept, clients, epoch, claimed) BY <1>1, <1>2, PurgeKeeps DEF Part0
<1>4. r \notin claimed BY <1>1, NoneAssumption DEF ClaimVoice
<1>5. CASE SetHub(h) /\ voices' = kept /\ UNCHANGED claimed
  <2>1. Hub' = h BY <1>3, <1>5, PartHub, HubStep
  <2>. QED BY <1>3, <1>5, <2>1 DEF ClaimVoice, Part0
<1>6. CASE /\ SetHub(Publish(h, Owner[d], Event("owner", d, r)))
           /\ voices' = [kept EXCEPT ![Owner[d]] = [dev |-> d, run |-> r, left |-> LeaseLife,
                                                    playback |-> None]]
           /\ claimed' = claimed \cup ({r} \ {None})
  <2>1. PICK lease, V2, K2, e, h2 :
           /\ lease = [dev |-> d, run |-> r, left |-> LeaseLife, playback |-> None]
           /\ V2 = [kept EXCEPT ![Owner[d]] = lease] /\ K2 = claimed \cup ({r} \ {None})
           /\ e = Event("owner", d, r) /\ h2 = Publish(h, Owner[d], e)
    OBVIOUS
  <2>2. LeaseInv(kept, claimed) BY <1>3 DEF Part
  <2>3. e \in EventT /\ Announces(kept, V2, claimed, K2, Owner[d], e)
    BY <1>4, <2>1, <2>2, ClaimAnnounced
  <2>4. Part(h2, V2, clients, epoch, K2) BY <1>1, <1>3, <2>1, <2>3, PublishKeeps
  <2>5. Hub' = h2 BY <1>6, <2>1, <2>4, PartHub, HubStep
  <2>. QED BY <1>6, <2>1, <2>4, <2>5 DEF ClaimVoice, Part0
<1>. QED BY <1>2, <1>5, <1>6 DEF ClaimVoice, PurgedHub, KeptVoices

LEMMA DisconnectOwnerStep ==
  ASSUME IndInv, NEW x \in Devices \cup Users, DisconnectOwner(x)
  PROVE  Part0'
<1>1. Part0 /\ epoch \in 1 .. MaxEpoch /\ Shape(Hub) /\ UserOf(x) \in Users
  BY OwnerAssumption DEF IndInv, Part0, Part, UserOf
<1>2. PICK h : h = Cut(x) OBVIOUS
<1>3. Part(h, voices, clients, epoch, claimed)
  <2>1. /\ h \in HubT /\ h.seq = Hub.seq /\ h.log = Hub.log
        /\ \A s \in Sockets : SocketShape(h.socks[s]) /\ Weaker(h.socks[s], Hub.socks[s])
    BY <1>1, <1>2, DetachWeakens DEF Cut
  <2>. QED BY <1>1, <2>1, WeakerKeeps DEF Part0
<1>4. CASE /\ voices' = [voices EXCEPT ![UserOf(x)] = None]
           /\ SetHub(Publish(Cut(x), UserOf(x), NoOwner))
  <2>1. PICK h2 : h2 = Publish(h, UserOf(x), NoOwner) OBVIOUS
  <2>2. Part(h2, [voices EXCEPT ![UserOf(x)] = None], clients, epoch, claimed)
    BY <1>1, <1>3, <2>1, ReleaseKeeps
  <2>3. Hub' = h2 BY <1>2, <1>4, <2>1, <2>2, PartHub, HubStep
  <2>. QED BY <1>4, <2>2, <2>3 DEF DisconnectOwner, Part0
<1>5. CASE SetHub(Cut(x)) /\ UNCHANGED voices
  <2>1. Hub' = h BY <1>2, <1>3, <1>5, PartHub, HubStep
  <2>. QED BY <1>3, <1>5, <2>1 DEF DisconnectOwner, Part0
<1>. QED BY <1>4, <1>5 DEF DisconnectOwner

-----------------------------------------------------------------------------
(* The steps of one socket's task.                                          *)

LEMMA HubFields == Hub.seq = seq /\ Hub.socks = socks /\ Hub.log = log
BY DEF Hub

LEMMA HubTypes ==
  ASSUME IndInv
  PROVE  /\ Part0 /\ epoch \in 1 .. MaxEpoch /\ Hub \in HubT
         /\ seq \in 0 .. MaxSeq /\ seq \in Nat /\ log \in Seq(Users \cup {None}) /\ Len(log) = seq
         /\ socks \in [Sockets -> Socket] /\ clients \in [Devices -> Client]
         /\ \A s \in Sockets : SocketShape(socks[s]) /\ EventsOf(Hub, epoch, socks[s])
         /\ \A s \in Sockets : Pending(socks[s]) \subseteq Envelope
<1>1. Part0 /\ epoch \in 1 .. MaxEpoch /\ Hub \in HubT /\ Len(Hub.log) = Hub.seq
  BY DEF IndInv, Part0, Part, Shape
<1>2. seq \in 0 .. MaxSeq /\ seq \in Nat /\ log \in Seq(Users \cup {None}) /\ socks \in [Sockets -> Socket]
  BY <1>1, HubFields, BoundsAssumption DEF HubT
<1>3. clients \in [Devices -> Client] BY <1>1 DEF Part0, Part, ClientInv
<1>4. \A s \in Sockets : SocketShape(socks[s]) /\ EventsOf(Hub, epoch, socks[s])
  BY <1>1, HubFields DEF Part0, Part, Shape, EventsInv
<1>5. \A s \in Sockets : Pending(socks[s]) \subseteq Envelope BY <1>2, <1>4, PendingType
<1>. QED BY <1>1, <1>2, <1>3, <1>4, <1>5, HubFields

LEMMA WeakerSelf ==
  ASSUME NEW k
  PROVE  Weaker(k, k)
BY DEF Weaker

LEMMA WeakerStep ==
  ASSUME IndInv, NEW s \in Sockets, socks' \in [Sockets -> Socket],
         \A t \in Sockets : t # s => socks'[t] = socks[t],
         SocketShape(socks'[s]), Weaker(socks'[s], socks[s]),
         UNCHANGED <<epoch, seq, log, voices, clients, claimed>>
  PROVE  Part0'
<1>1. PICK h2 : h2 = Hub' OBVIOUS
<1>2. h2.seq = seq /\ h2.log = log /\ h2.socks = socks' /\ h2 \in HubT
  BY <1>1, HubTypes DEF Hub, HubT
<1>3. \A t \in Sockets : SocketShape(h2.socks[t]) /\ Weaker(h2.socks[t], Hub.socks[t])
  BY <1>2, HubFields, HubTypes, WeakerSelf
<1>4. Part(h2, voices, clients, epoch, claimed)
  BY <1>2, <1>3, HubFields, HubTypes, WeakerKeeps DEF Part0
<1>. QED BY <1>1, <1>4 DEF Part0

LEMMA ReceiveStep ==
  ASSUME IndInv, NEW s \in Sockets, Receive(s)
  PROVE  Part0'
<1>0. socks \in [Sockets -> Socket] /\ socks[s] \in Socket /\ SocketShape(socks[s])
  BY HubTypes
<1>1. PICK k, k2 : k = socks[s] /\ k2 = socks'[s] OBVIOUS
<1>2. CASE /\ socks[s].attached /\ socks[s].queue # <<>>
           /\ socks' = [socks EXCEPT ![s].state = "sending", ![s].out = Head(socks[s].queue),
                                     ![s].queue = Tail(@)]
  <2>1. k.queue \in Seq(Envelope) /\ k.queue # <<>> BY <1>0, <1>1, <1>2 DEF Socket
  <2>2. Head(k.queue) \in Envelope /\ Tail(k.queue) \in Seq(Envelope) BY <2>1
  <2>3. /\ k2 \in Socket /\ k2.state = "sending" /\ k2.out = Head(k.queue)
        /\ k2.queue = Tail(k.queue) /\ k2.dev = k.dev /\ k2.attached = k.attached
    BY <1>0, <1>1, <1>2, <2>2 DEF Socket
  <2>4. k.state = "serving" BY <1>1 DEF Receive
  <2>5. SocketShape(k2) /\ Pending(k2) = Pending(k)
    BY <1>0, <1>1, <2>1, <2>3, <2>4, TakenSocket
  <2>6. Weaker(k2, k) BY <2>3, <2>4, <2>5 DEF Weaker, Live
  <2>7. socks' \in [Sockets -> Socket] /\ \A t \in Sockets : t # s => socks'[t] = socks[t]
    BY <1>0, <1>1, <1>2, <2>3
  <2>. QED BY <1>1, <2>5, <2>6, <2>7, WeakerStep DEF Receive
<1>3. CASE ~socks[s].attached /\ socks' = [socks EXCEPT ![s].state = "closing"]
  <2>1. /\ k2 \in Socket /\ k2.state = "closing" /\ k2.out = k.out
        /\ k2.queue = k.queue /\ k2.dev = k.dev /\ k2.attached = k.attached
    BY <1>0, <1>1, <1>3 DEF Socket
  <2>2. k.state = "serving" BY <1>1 DEF Receive
  <2>3. SocketShape(k2) /\ Pending(k2) = Pending(k) BY <1>0, <1>1, <2>1, <2>2, QuietSocket
  <2>4. Weaker(k2, k) BY <2>1, <2>2, <2>3 DEF Weaker, Live
  <2>5. socks' \in [Sockets -> Socket] /\ \A t \in Sockets : t # s => socks'[t] = socks[t]
    BY <1>0, <1>1, <1>3, <2>1
  <2>. QED BY <1>1, <2>3, <2>4, <2>5, WeakerStep DEF Receive
<1>. QED BY <1>2, <1>3 DEF Receive

LEMMA BreakStep ==
  ASSUME IndInv, NEW s \in Sockets, Break(s)
  PROVE  Part0'
<1>0. socks \in [Sockets -> Socket] /\ socks[s] \in Socket /\ SocketShape(socks[s])
  BY HubTypes
<1>1. PICK k, k2 : k = socks[s] /\ k2 = socks'[s] OBVIOUS
<1>2. /\ k2 \in Socket /\ k2.state = "closing" /\ k2.queue = k.queue /\ k2.dev = k.dev
      /\ k2.attached = k.attached
  BY <1>0, <1>1 DEF Break, Socket, NoEvent
<1>3. k.state \in {"serving", "sending"} BY <1>1 DEF Break
<1>4. SocketShape(k2) /\ Pending(k2) \subseteq Pending(k)
  <2>1. CASE k.state = "sending" BY <1>0, <1>1, <1>2, <2>1, WrittenSocket
  <2>2. CASE k.state = "serving"
    <3>1. Pending(k2) = Pending(k) BY <1>2, <2>2 DEF Pending
    <3>2. SocketShape(k2) BY <1>0, <1>1, <1>2, <2>2 DEF SocketShape, Sorted
    <3>. QED BY <3>1, <3>2
  <2>. QED BY <1>3, <2>1, <2>2
<1>5. Weaker(k2, k) BY <1>2, <1>3, <1>4 DEF Weaker, Live
<1>6. socks' \in [Sockets -> Socket] /\ \A t \in Sockets : t # s => socks'[t] = socks[t]
  BY <1>0, <1>1, <1>2 DEF Break
<1>. QED BY <1>1, <1>4, <1>5, <1>6, WeakerStep DEF Break

LEMMA HeartbeatStep ==
  ASSUME IndInv, NEW s \in Sockets, Heartbeat(s)
  PROVE  Part0'
<1>0. socks \in [Sockets -> Socket] /\ socks[s] \in Socket /\ SocketShape(socks[s])
  BY HubTypes
<1>1. PICK k, k2 : k = socks[s] /\ k2 = socks'[s] OBVIOUS
<1>2. k.state = "serving" /\ k.dev \in Devices /\ Owner[k.dev] \in Users
  BY <1>0, <1>1, OwnerAssumption DEF Heartbeat, SocketShape
<1>3. CASE socks' = [socks EXCEPT ![s].state = "closing"] /\ UNCHANGED <<seq, voices, log>>
  <2>1. /\ k2 \in Socket /\ k2.state = "closing" /\ k2.out = k.out
        /\ k2.queue = k.queue /\ k2.dev = k.dev /\ k2.attached = k.attached
    BY <1>0, <1>1, <1>3 DEF Socket
  <2>3. SocketShape(k2) /\ Pending(k2) = Pending(k) BY <1>0, <1>1, <1>2, <2>1, QuietSocket
  <2>4. Weaker(k2, k) BY <1>2, <2>1, <2>3 DEF Weaker, Live
  <2>5. socks' \in [Sockets -> Socket] /\ \A t \in Sockets : t # s => socks'[t] = socks[t]
    BY <1>0, <1>1, <1>3, <2>1
  <2>. QED BY <1>1, <1>3, <2>3, <2>4, <2>5, WeakerStep DEF Heartbeat
<1>4. CASE SetHub(LookedAt(Hub, Owner[k.dev])) /\ voices' = LookedAtVoices(Owner[k.dev])
  <2>1. PICK h2 : h2 = LookedAt(Hub, Owner[k.dev]) OBVIOUS
  <2>2. Part(h2, LookedAtVoices(Owner[k.dev]), clients, epoch, claimed) BY <1>2, <2>1, LookKeeps
  <2>3. Hub' = h2 BY <1>4, <2>1, <2>2, PartHub, HubStep
  <2>. QED BY <1>4, <2>2, <2>3 DEF Heartbeat, Part0
<1>. QED BY <1>1, <1>3, <1>4 DEF Heartbeat

-----------------------------------------------------------------------------
(* Connecting, leaving and closing.                                         *)

\* A socket that nobody reads starts over, with nothing pending.
LEMMA ResetKeeps ==
  ASSUME NEW h, NEW V, NEW C, NEW ep, NEW K, Part(h, V, C, ep, K),
         NEW h2 \in HubT, h2.seq = h.seq, h2.log = h.log, NEW s \in Sockets,
         \A t \in Sockets : t # s => h2.socks[t] = h.socks[t],
         SocketShape(h2.socks[s]), Pending(h2.socks[s]) = {}, ~h2.socks[s].attached,
         \A d \in Devices : C[d].sock # s
  PROVE  Part(h2, V, C, ep, K)
<1>0. \A k, low : Complete(h2, k, low) <=> Complete(h, k, low) BY DEF Complete
<1>1. Shape(h2) BY DEF Part, Shape
<1>2. EventsInv(h2, ep)
  <2>. SUFFICES ASSUME NEW t \in Sockets PROVE EventsOf(h2, ep, h2.socks[t]) BY DEF EventsInv
  <2>1. CASE t = s BY <2>1 DEF EventsOf
  <2>2. CASE t # s
    <3>1. EventsOf(h, ep, h.socks[t]) /\ h2.socks[t] = h.socks[t] BY <2>2 DEF Part, EventsInv
    <3>. QED BY <1>0, <3>1 DEF EventsOf
  <2>. QED BY <2>1, <2>2
<1>3. ClientInv(h2, C, ep)
  <2>. SUFFICES ASSUME NEW d \in Devices, C[d].sock # None
                PROVE  ReaderOf(h2, ep, d, C[d], h2.socks[C[d].sock])
    BY DEF Part, ClientInv
  <2>1. C[d].sock \in Sockets /\ C[d].sock # s BY DEF Part, ClientInv, Client
  <2>2. ReaderOf(h, ep, d, C[d], h.socks[C[d].sock]) BY DEF Part, ClientInv
  <2>3. h2.socks[C[d].sock] = h.socks[C[d].sock] BY <2>1
  <2>. QED BY <1>0, <2>2, <2>3 DEF ReaderOf
<1>4. ViewInv(h2, V, C, ep)
  <2>1. \A t \in Sockets : Live(h2.socks[t]) => t # s BY DEF Live
  <2>2. \A t \in Sockets : Live(h2.socks[t]) => h2.socks[t] = h.socks[t] BY <2>1
  <2>. QED BY <2>2 DEF Part, ViewInv
<1>5. PlayInv(h2, V, C, ep, K)
  <2>1. \A t \in Sockets : Pending(h2.socks[t]) \subseteq Pending(h.socks[t])
    <3>. SUFFICES ASSUME NEW t \in Sockets PROVE Pending(h2.socks[t]) \subseteq Pending(h.socks[t])
      OBVIOUS
    <3>1. CASE t = s BY <3>1
    <3>2. CASE t # s BY <3>2
    <3>. QED BY <3>1, <3>2
  <2>. QED BY <2>1 DEF Part, PlayInv
<1>. QED BY <1>1, <1>2, <1>3, <1>4, <1>5 DEF Part

\* A client that leaves its socket, or has just connected to one that is authed.
Joined(h, d, c) ==
    c.sock \in Sockets /\ c.voice = <<>> /\ h.socks[c.sock].dev = d /\ h.socks[c.sock].state = "authed"

LEMMA ClientsKeep ==
  ASSUME NEW h, NEW V, NEW C, NEW ep, NEW K, Part(h, V, C, ep, K),
         NEW C2 \in [Devices -> Client],
         \A d \in Devices :
            /\ C2[d].epoch = C[d].epoch /\ C2[d].seq = C[d].seq
            /\ C2[d].ended = C[d].ended /\ C2[d].restarted = C[d].restarted
            /\ C2[d].sock = None \/ C2[d] = C[d] \/ Joined(h, d, C2[d])
  PROVE  Part(h, V, C2, ep, K)
<1>1. ClientInv(h, C2, ep)
  <2>. SUFFICES ASSUME NEW d \in Devices, C2[d].sock # None
                PROVE  ReaderOf(h, ep, d, C2[d], h.socks[C2[d].sock])
    BY DEF Part, ClientInv
  <2>1. CASE C2[d] = C[d] BY <2>1 DEF Part, ClientInv
  <2>2. CASE Joined(h, d, C2[d])
    <3>1. PICK k : k = h.socks[C2[d].sock] OBVIOUS
    <3>2. SocketShape(k) BY <2>2, <3>1 DEF Part, Shape, Joined
    <3>3. k.dev = d /\ k.state = "authed" /\ C2[d].voice = <<>> BY <2>2, <3>1 DEF Joined
    <3>4. ~k.attached /\ k.queue = <<>> BY <3>2, <3>3 DEF SocketShape
    <3>5. Pending(k) = {} BY <3>3, <3>4, EmptySocket
    <3>6. Complete(h, k, C2[d].seq) BY <3>4, <3>5 DEF Complete, Reached
    <3>. QED BY <3>1, <3>3, <3>5, <3>6 DEF ReaderOf
  <2>. QED BY <2>1, <2>2
<1>2. ViewInv(h, V, C2, ep)
  <2>. SUFFICES ASSUME h.seq < MaxSeq, NEW s \in Sockets, Live(h.socks[s]),
                       NEW d \in Devices, C2[d].sock = s
                PROVE  ShowsOwner(ep, C2[d], h.socks[s], OwnerIn(V, Owner[d]))
    BY DEF Part, ViewInv
  <2>1. s # None BY NoneAssumption
  <2>2. C2[d] = C[d] BY <2>1 DEF Joined, Live
  <2>. QED BY <2>2 DEF Part, ViewInv
<1>3. PlayInv(h, V, C2, ep, K) BY DEF Part, PlayInv
<1>. QED BY <1>1, <1>2, <1>3 DEF Part

LEMMA ClientLeavesStep ==
  ASSUME IndInv, NEW d \in Devices, ClientLeaves(d)
  PROVE  Part0'
<1>1. clients \in [Devices -> Client] BY HubTypes
<1>2. clients' \in [Devices -> Client] BY <1>1 DEF ClientLeaves, Client
<1>3. \A x \in Devices :
         /\ clients'[x].epoch = clients[x].epoch /\ clients'[x].seq = clients[x].seq
         /\ clients'[x].ended = clients[x].ended /\ clients'[x].restarted = clients[x].restarted
         /\ clients'[x].sock = None \/ clients'[x] = clients[x] \/ Joined(Hub, x, clients'[x])
  BY <1>1 DEF ClientLeaves, Client
<1>4. Part(Hub, voices, clients', epoch, claimed) BY <1>2, <1>3, HubTypes, ClientsKeep DEF Part0
<1>5. Hub' = Hub BY DEF ClientLeaves, Hub
<1>. QED BY <1>4, <1>5 DEF ClientLeaves, Part0

\* A socket that ends: the client is told, and the socket is free.
LEMMA EndedStep ==
  ASSUME IndInv, NEW s \in Sockets, socks' = [socks EXCEPT ![s] = FreeSocket],
         clients' = [d \in Devices |->
             IF clients[d].sock = s THEN [clients[d] EXCEPT !.sock = None] ELSE clients[d]],
         UNCHANGED <<epoch, seq, log, voices, claimed>>
  PROVE  Part0'
<1>1. clients \in [Devices -> Client] /\ socks \in [Sockets -> Socket] /\ s # None
  BY HubTypes, NoneAssumption
<1>2. ASSUME NEW d \in Devices
      PROVE  /\ clients'[d] \in Client /\ clients'[d].sock # s
             /\ clients'[d].epoch = clients[d].epoch /\ clients'[d].seq = clients[d].seq
             /\ clients'[d].ended = clients[d].ended /\ clients'[d].restarted = clients[d].restarted
             /\ clients'[d].sock = None \/ clients'[d] = clients[d]
  <2>1. clients[d] \in Client BY <1>1
  <2>2. clients'[d] = IF clients[d].sock = s THEN [clients[d] EXCEPT !.sock = None] ELSE clients[d]
    OBVIOUS
  <2>. QED BY <1>1, <2>1, <2>2 DEF Client
<1>3. clients' \in [Devices -> Client] BY <1>2
<1>4. Part(Hub, voices, clients', epoch, claimed) BY <1>2, <1>3, HubTypes, ClientsKeep DEF Part0
<1>5. FreeSocket \in Socket BY DEF FreeSocket, Socket, NoEvent
<1>6. /\ FreeSocket.queue = <<>> /\ FreeSocket.state = "free" /\ ~FreeSocket.attached
      /\ FreeSocket.dev = None
  BY DEF FreeSocket
<1>7. Pending(FreeSocket) = {} BY <1>6, EmptySocket
<1>8. SocketShape(FreeSocket) BY <1>6, BoundsAssumption DEF SocketShape, Sorted
<1>9. PICK h2 : h2 = Hub' OBVIOUS
<1>10. h2.seq = seq /\ h2.log = log /\ h2.socks = socks' /\ h2 \in HubT
  BY <1>1, <1>5, <1>9, HubTypes DEF Hub, HubT
<1>11. h2.socks[s] = FreeSocket /\ \A t \in Sockets : t # s => h2.socks[t] = Hub.socks[t]
  BY <1>1, <1>10, HubFields
<1>12. PICK C2 : C2 = clients' OBVIOUS
<1>13. Part(Hub, voices, C2, epoch, claimed) /\ \A d \in Devices : C2[d].sock # s
  BY <1>2, <1>4, <1>12
<1>14. /\ SocketShape(h2.socks[s]) /\ Pending(h2.socks[s]) = {} /\ ~h2.socks[s].attached
       /\ h2.seq = Hub.seq /\ h2.log = Hub.log
  BY <1>6, <1>7, <1>8, <1>10, <1>11, HubFields
<1>15. Part(h2, voices, C2, epoch, claimed) BY <1>10, <1>11, <1>13, <1>14, ResetKeeps
<1>. QED BY <1>9, <1>12, <1>15 DEF Part0

LEMMA CloseStep ==
  ASSUME IndInv, NEW s \in Sockets, Close(s) \/ Refused(s)
  PROVE  Part0'
BY EndedStep DEF Close, Refused

LEMMA ConnectStep ==
  ASSUME IndInv, NEW d \in Devices, NEW s \in Sockets, Connect(d, s)
  PROVE  Part0'
<1>1. clients \in [Devices -> Client] /\ socks \in [Sockets -> Socket] /\ s # None
  BY HubTypes, NoneAssumption
<1>2. PICK k : k = [FreeSocket EXCEPT !.state = "authed", !.dev = d] OBVIOUS
<1>3. /\ k.queue = <<>> /\ k.state = "authed" /\ ~k.attached /\ k.dev = d /\ k \in Socket
  <2>1. k = [state |-> "authed", dev |-> d, attached |-> FALSE, queue |-> <<>>, out |-> NoEvent]
    BY <1>2 DEF FreeSocket
  <2>2. <<>> \in Seq(Envelope) OBVIOUS
  <2>. QED BY <2>1, <2>2 DEF Socket, NoEvent
<1>4. Pending(k) = {} BY <1>3, EmptySocket
<1>5. SocketShape(k) BY <1>3, BoundsAssumption DEF SocketShape, Sorted
<1>6. PICK h2 : h2 = Hub' OBVIOUS
<1>7. socks' = [socks EXCEPT ![s] = k] BY <1>2 DEF Connect
<1>8. h2.seq = seq /\ h2.log = log /\ h2.socks = socks' /\ h2 \in HubT
  BY <1>1, <1>3, <1>6, <1>7, HubTypes DEF Hub, HubT, Connect
<1>9. h2.socks[s] = k /\ \A t \in Sockets : t # s => h2.socks[t] = Hub.socks[t]
  BY <1>1, <1>7, <1>8, HubFields
<1>10. ASSUME NEW x \in Devices, clients[x].sock = s PROVE FALSE
  <2>1. ReaderOf(Hub, epoch, x, clients[x], socks[s])
    BY <1>1, <1>10, HubTypes, HubFields DEF Part0, Part, ClientInv
  <2>. QED BY <2>1 DEF ReaderOf, Connect
<1>11. Part(h2, voices, clients, epoch, claimed)
  BY <1>3, <1>4, <1>5, <1>8, <1>9, <1>10, HubTypes, HubFields, ResetKeeps DEF Part0
<1>12. clients' \in [Devices -> Client]
  <2>1. [clients[d] EXCEPT !.sock = s, !.voice = <<>>] \in Client BY <1>1 DEF Client
  <2>2. clients' = [clients EXCEPT ![d] = [clients[d] EXCEPT !.sock = s, !.voice = <<>>]]
    BY <1>1 DEF Connect
  <2>. QED BY <1>1, <2>1, <2>2
<1>13. ASSUME NEW x \in Devices
       PROVE  /\ clients'[x].epoch = clients[x].epoch /\ clients'[x].seq = clients[x].seq
              /\ clients'[x].ended = clients[x].ended /\ clients'[x].restarted = clients[x].restarted
              /\ clients'[x] = clients[x] \/ Joined(h2, x, clients'[x])
  <2>1. clients[x] \in Client BY <1>1
  <2>2. CASE x # d BY <1>1, <2>2 DEF Connect
  <2>3. CASE x = d
    <3>1. clients'[d] = [clients[d] EXCEPT !.sock = s, !.voice = <<>>] BY <1>1 DEF Connect
    <3>. QED BY <1>3, <1>9, <2>1, <2>3, <3>1 DEF Joined, Client
  <2>. QED BY <2>2, <2>3
<1>14. Part(h2, voices, clients', epoch, claimed) BY <1>11, <1>12, <1>13, ClientsKeep
<1>. QED BY <1>6, <1>14 DEF Connect, Part0

-----------------------------------------------------------------------------
(* Delivering an envelope.                                                  *)

\* Without its first envelope e, socket k still has everything above e.
LEMMA CompleteSent ==
  ASSUME NEW h, NEW h2, h2.seq = h.seq, h2.log = h.log, h.seq \in Nat, NEW k, NEW k2, NEW e,
         k2.dev = k.dev, k2.attached = k.attached, k.state # "closing",
         Pending(k2) = Pending(k) \ {e}, e.seq \in Nat, NEW low \in Nat, e.seq <= low,
         Complete(h, k, low)
  PROVE  Complete(h2, k2, low)
<1>. SUFFICES ASSUME NEW n \in 1 .. h.seq, low < n, h.log[n] = Owner[k.dev], Reached(k2, n)
              PROVE  \E f \in Pending(k2) : f.seq = n
  BY DEF Complete
<1>1. Reached(k, n) BY DEF Reached
<1>2. PICK f \in Pending(k) : f.seq = n BY <1>1 DEF Complete
<1>3. f # e BY <1>2
<1>. QED BY <1>2, <1>3

\* What is known of the socket that ends a write, of the client of its device and of the rest.
LEMMA SendFacts ==
  ASSUME IndInv, NEW s \in Sockets, Send(s), NEW k, k = socks[s], NEW k2, k2 = socks'[s],
         NEW e, e = k.out, NEW d, d = k.dev, NEW c, c = clients[d]
  PROVE  /\ d \in Devices /\ c \in Client /\ k.state = "sending" /\ k2.state = "serving"
         /\ k2.dev = d /\ k2.attached = k.attached /\ SocketShape(k2) /\ k2 \in Socket
         /\ e \in Pending(k) /\ e \in Envelope /\ e.epoch = epoch /\ e.seq <= seq
         /\ Pending(k2) = Pending(k) \ {e} /\ \A f \in Pending(k2) : e.seq < f.seq
         /\ socks' \in [Sockets -> Socket] /\ \A t \in Sockets : t # s => socks'[t] = socks[t]
         /\ \A x \in Devices : clients[x].sock = s => x = d
         /\ c.sock = s => ReaderOf(Hub, epoch, d, c, k)
         /\ c.sock = s /\ c.epoch = epoch => c.seq < e.seq
<1>0. socks \in [Sockets -> Socket] /\ k \in Socket /\ SocketShape(k) /\ EventsOf(Hub, epoch, k)
  BY HubTypes
<1>1. k.state = "sending" /\ d \in Devices BY <1>0 DEF Send, SocketShape
<1>2. c \in Client BY <1>1, HubTypes
<1>3. /\ k2 \in Socket /\ k2.state = "serving" /\ k2.queue = k.queue /\ k2.dev = k.dev
      /\ k2.attached = k.attached
  BY <1>0 DEF Send, Socket, NoEvent
<1>4. /\ SocketShape(k2) /\ e \in Pending(k) /\ e \in Envelope
      /\ Pending(k2) = Pending(k) \ {e} /\ \A f \in Pending(k2) : e.seq < f.seq
  BY <1>0, <1>1, <1>3, WrittenSocket
<1>5. socks' \in [Sockets -> Socket] /\ \A t \in Sockets : t # s => socks'[t] = socks[t]
  BY <1>0, <1>3 DEF Send
<1>6. e.epoch = epoch /\ e.seq <= seq BY <1>0, <1>4, HubFields DEF EventsOf
<1>7. ASSUME NEW x \in Devices, clients[x].sock = s
      PROVE  x = d /\ ReaderOf(Hub, epoch, x, clients[x], k)
  <2>1. ReaderOf(Hub, epoch, x, clients[x], k)
    BY <1>7, HubTypes, HubFields, NoneAssumption DEF Part0, Part, ClientInv
  <2>. QED BY <2>1 DEF ReaderOf
<1>8. c.sock = s => ReaderOf(Hub, epoch, d, c, k) BY <1>1, <1>7
<1>9. c.sock = s /\ c.epoch = epoch => c.seq < e.seq BY <1>4, <1>8 DEF ReaderOf
<1>. QED BY <1>1, <1>2, <1>3, <1>4, <1>5, <1>6, <1>7, <1>8, <1>9

\* The client after the write: it has applied e, or it was not reading in this epoch.
LEMMA SendClients ==
  ASSUME IndInv, NEW s \in Sockets, Send(s), NEW k, k = socks[s],
         NEW e, e = k.out, NEW d, d = k.dev, NEW c, c = clients[d]
  PROVE  \/ /\ c.sock = s /\ Accepts(c, e) /\ clients' = [clients EXCEPT ![d] = Applied(c, e)]
         \/ clients' = clients /\ (c.sock = s => c.epoch # epoch)
<1>1. PICK k2 : k2 = socks'[s] OBVIOUS
<1>2. /\ c \in Client /\ e \in Envelope /\ e.epoch = epoch
      /\ (c.sock = s /\ c.epoch = epoch => c.seq < e.seq)
  BY <1>1, SendFacts
<1>3. c.sock = s /\ c.epoch = epoch => Accepts(c, e)
  BY <1>2, SeqIsNumber, BoundsAssumption DEF Accepts, Client
<1>. QED BY <1>3 DEF Send

\* c2 is client c once it has applied e, which did not restart ended playback.
After(c2, c, e) ==
    /\ c2 \in Client /\ c2.sock = c.sock /\ c2.epoch = e.epoch /\ c2.seq = e.seq
    /\ c2.voice = IF e.kind = "owner" THEN <<e.dev, e.run>>
                  ELSE IF e.kind = "ready" THEN <<>> ELSE c.voice
    /\ c2.ended = IF e.kind \in Ends THEN c.ended \cup {e.run} ELSE c.ended
    /\ ~c2.restarted

LEMMA AppliedIs ==
  ASSUME NEW c \in Client, NEW e \in Envelope, e.kind \in Ends => e.run \in Runs,
         ~c.restarted, e.kind = "started" => e.run \notin c.ended
  PROVE  After(Applied(c, e), c, e)
<1>0. PICK c2 : c2 = Applied(c, e) OBVIOUS
<1>1. PICK vo, en, re :
         /\ vo = IF e.kind = "owner" THEN <<e.dev, e.run>>
                 ELSE IF e.kind = "ready" THEN <<>> ELSE c.voice
         /\ en = IF e.kind \in Ends THEN c.ended \cup {e.run} ELSE c.ended
         /\ re = FALSE
  OBVIOUS
<1>2. (c.restarted \/ (e.kind = "started" /\ e.run \in c.ended)) = re BY <1>1 DEF Client
<1>3. c2 = [c EXCEPT !.epoch = e.epoch, !.seq = e.seq, !.voice = vo, !.ended = en, !.restarted = re]
  BY <1>0, <1>1, <1>2, Zenon DEF Applied, Ends
<1>4. vo \in {<<>>} \cup (Devices \cup {None}) \X (Runs \cup {None}) /\ en \in SUBSET Runs /\ re \in BOOLEAN
  BY <1>1 DEF Client, Envelope
<1>5. /\ c2 \in Client /\ c2.sock = c.sock /\ c2.epoch = e.epoch /\ c2.seq = e.seq
      /\ c2.voice = vo /\ c2.ended = en /\ c2.restarted = re
  <2>1. c2 = [sock |-> c.sock, epoch |-> e.epoch, seq |-> e.seq, voice |-> vo, ended |-> en,
              restarted |-> re]
    BY <1>3 DEF Client
  <2>2. c.sock \in Sockets \cup {None} BY DEF Client
  <2>3. e.epoch \in 0 .. MaxEpoch /\ e.seq \in 0 .. MaxSeq BY BoundsAssumption DEF Envelope
  <2>4. c2 \in Client BY <1>4, <2>1, <2>2, <2>3 DEF Client
  <2>. QED BY <2>1, <2>4
<1>6. ~c2.restarted BY <1>1, <1>5
<1>. QED BY <1>0, <1>1, <1>5, <1>6 DEF After

\* The client of the device that ends a write, when it applied the envelope.
LEMMA SendApplied ==
  ASSUME IndInv, NEW s \in Sockets, Send(s), NEW k, k = socks[s],
         NEW e, e = k.out, NEW d, d = k.dev, NEW c, c = clients[d], Accepts(c, e)
  PROVE  After(Applied(c, e), c, e)
<1>1. PICK k2 : k2 = socks'[s] OBVIOUS
<1>2. /\ d \in Devices /\ c \in Client /\ e \in Pending(k) /\ e \in Envelope /\ e.epoch = epoch
  BY <1>1, SendFacts
<1>3. PlayInv(Hub, voices, clients, epoch, claimed) /\ claimed \subseteq Runs
  BY HubTypes DEF Part0, Part, LeaseInv
<1>4. e.kind \in Ends => e.run \in Runs BY <1>2, <1>3, HubFields DEF PlayInv, Ends, Playback
<1>5. ~c.restarted BY <1>2, <1>3 DEF PlayInv
<1>6. ASSUME e.kind = "started", e.run \in c.ended PROVE FALSE
  <2>1. c.epoch = epoch /\ e.seq <= c.seq BY <1>2, <1>3, <1>6, HubFields DEF PlayInv
  <2>2. e.seq > c.seq BY <1>2, <2>1 DEF Accepts
  <2>3. e.seq \in Nat /\ c.seq \in Nat BY <1>2, SeqIsNumber, BoundsAssumption DEF Client
  <2>. QED BY <2>1, <2>2, <2>3
<1>. QED BY <1>2, <1>4, <1>5, <1>6, AppliedIs

LEMMA SendStep ==
  ASSUME IndInv, NEW s \in Sockets, Send(s)
  PROVE  Part0'
<1>0. PICK k, k2, e, d, c : k = socks[s] /\ k2 = socks'[s] /\ e = k.out /\ d = k.dev /\ c = clients[d]
  OBVIOUS
<1>1. /\ d \in Devices /\ c \in Client /\ k.state = "sending" /\ k2.state = "serving"
      /\ k2.dev = d /\ k2.attached = k.attached /\ SocketShape(k2) /\ k2 \in Socket
      /\ e \in Pending(k) /\ e \in Envelope /\ e.epoch = epoch /\ e.seq <= seq
      /\ Pending(k2) = Pending(k) \ {e} /\ \A f \in Pending(k2) : e.seq < f.seq
      /\ socks' \in [Sockets -> Socket] /\ \A t \in Sockets : t # s => socks'[t] = socks[t]
      /\ \A x \in Devices : clients[x].sock = s => x = d
      /\ c.sock = s => ReaderOf(Hub, epoch, d, c, k)
  BY <1>0, SendFacts
<1>2. PICK h2, C2 : h2 = Hub' /\ C2 = clients' OBVIOUS
<1>3. h2.seq = seq /\ h2.log = log /\ h2.socks = socks' /\ h2 \in HubT
  BY <1>1, <1>2, HubTypes DEF Hub, HubT, Send
<1>4. \A j, low : Complete(h2, j, low) <=> Complete(Hub, j, low) BY <1>3, HubFields DEF Complete
<1>5. e.seq \in Nat /\ \A f \in Pending(k) : f.seq \in Nat BY <1>0, <1>1, SeqIsNumber, HubTypes
<1>6. EventsOf(Hub, epoch, k) /\ seq \in Nat BY <1>0, HubTypes
<1>7. ASSUME NEW f \in Pending(k), e.seq <= f.seq PROVE Complete(h2, k2, f.seq)
  <2>1. Complete(Hub, k, f.seq) BY <1>6 DEF EventsOf
  <2>2. h2.seq = Hub.seq /\ h2.log = Hub.log /\ Hub.seq \in Nat BY <1>3, <1>6, HubFields
  <2>3. k2.dev = k.dev /\ k2.attached = k.attached /\ k.state # "closing" BY <1>0, <1>1
  <2>4. Pending(k2) = Pending(k) \ {e} /\ e.seq \in Nat /\ f.seq \in Nat BY <1>1, <1>5
  <2>. QED BY <1>7, <2>1, <2>2, <2>3, <2>4, CompleteSent
<1>8. \/ /\ c.sock = s /\ Accepts(c, e) /\ C2 = [clients EXCEPT ![d] = Applied(c, e)]
      \/ C2 = clients /\ (c.sock = s => c.epoch # epoch)
  BY <1>0, <1>2, SendClients
<1>9. PICK c2 : c2 = C2[d] OBVIOUS
<1>10. clients \in [Devices -> Client] BY HubTypes
<1>11. c.sock = s /\ c2.epoch = epoch => Accepts(c, e) /\ After(c2, c, e)
  <2>1. CASE C2 = clients /\ (c.sock = s => c.epoch # epoch) BY <1>0, <1>9, <2>1
  <2>2. CASE c.sock = s /\ Accepts(c, e) /\ C2 = [clients EXCEPT ![d] = Applied(c, e)]
    <3>1. After(Applied(c, e), c, e) BY <1>0, <2>2, SendApplied
    <3>2. c2 = Applied(c, e) BY <1>1, <1>9, <1>10, <2>2
    <3>. QED BY <2>2, <3>1, <3>2
  <2>. QED BY <1>8, <2>1, <2>2
<1>12. C2 = clients \/ (c.sock = s /\ After(c2, c, e) /\ C2 = [clients EXCEPT ![d] = c2])
  <2>1. CASE C2 = clients BY <2>1
  <2>2. CASE c.sock = s /\ Accepts(c, e) /\ C2 = [clients EXCEPT ![d] = Applied(c, e)]
    <3>1. After(Applied(c, e), c, e) BY <1>0, <2>2, SendApplied
    <3>2. c2 = Applied(c, e) BY <1>1, <1>9, <1>10, <2>2
    <3>. QED BY <2>2, <3>1, <3>2
  <2>. QED BY <1>8, <2>1, <2>2
<1>13. /\ C2 \in [Devices -> Client]
       /\ \A x \in Devices : x # d => C2[x] = clients[x]
       /\ c2.sock = c.sock /\ \A x \in Devices : C2[x].sock = clients[x].sock
       /\ c.sock # s => c2 = c
  BY <1>0, <1>1, <1>9, <1>10, <1>12 DEF After
<1>14. Shape(h2)
  <2>1. \A t \in Sockets : SocketShape(h2.socks[t]) BY <1>0, <1>1, <1>3, HubTypes
  <2>. QED BY <1>3, <2>1, HubTypes DEF Shape
<1>15. EventsInv(h2, epoch)
  <2>. SUFFICES ASSUME NEW t \in Sockets PROVE EventsOf(h2, epoch, h2.socks[t]) BY DEF EventsInv
  <2>1. CASE t = s
    <3>1. \A f \in Pending(k2) : f \in Pending(k) /\ e.seq <= f.seq BY <1>1, <1>5
    <3>2. \A f \in Pending(k2) : Complete(h2, k2, f.seq) BY <1>7, <3>1
    <3>. QED BY <1>0, <1>3, <1>6, <2>1, <3>1, <3>2, HubFields DEF EventsOf
  <2>2. CASE t # s
    <3>1. EventsOf(Hub, epoch, socks[t]) /\ h2.socks[t] = socks[t] BY <1>1, <1>3, <2>2, HubTypes
    <3>. QED BY <1>3, <1>4, <3>1, HubFields DEF EventsOf
  <2>. QED BY <2>1, <2>2
<1>16. ClientInv(h2, C2, epoch)
  <2>1. ClientInv(Hub, clients, epoch) BY HubTypes DEF Part0, Part
  <2>2. ASSUME NEW x \in Devices
        PROVE  C2[x].epoch <= epoch /\ (C2[x].epoch = epoch => C2[x].seq <= h2.seq)
    <3>1. CASE C2[x] = clients[x] BY <1>3, <2>1, <3>1, HubFields DEF ClientInv
    <3>2. CASE C2[x] # clients[x]
      <4>1. x = d /\ c.sock = s /\ c2.epoch = epoch /\ C2[x] = c2 BY <1>1, <1>9, <1>12, <1>13, <3>2 DEF After
      <4>. QED BY <1>1, <1>3, <1>11, <4>1, HubTypes DEF After
    <3>. QED BY <3>1, <3>2
  <2>3. ASSUME NEW x \in Devices, C2[x].sock # None
        PROVE  ReaderOf(h2, epoch, x, C2[x], h2.socks[C2[x].sock])
    <3>1. clients[x].sock = C2[x].sock /\ C2[x].sock \in Sockets BY <1>10, <1>13, <2>3 DEF Client
    <3>2. CASE C2[x].sock = s
      <4>1. x = d /\ C2[x] = c2 /\ c.sock = s BY <1>0, <1>1, <1>9, <3>1, <3>2
      <4>2. CASE c2.epoch # epoch BY <1>0, <1>1, <1>3, <3>2, <4>1, <4>2 DEF ReaderOf
      <4>3. CASE c2.epoch = epoch
        <5>1. c2.seq = e.seq BY <1>11, <4>1, <4>3 DEF After
        <5>2. Complete(h2, k2, c2.seq) BY <1>1, <1>5, <1>7, <5>1
        <5>. QED BY <1>0, <1>1, <1>3, <3>2, <4>1, <5>1, <5>2 DEF ReaderOf
      <4>. QED BY <4>2, <4>3
    <3>3. CASE C2[x].sock # s
      <4>1. C2[x] = clients[x] BY <1>0, <1>9, <1>13, <3>1, <3>3
      <4>2. h2.socks[C2[x].sock] = socks[C2[x].sock] BY <1>1, <1>3, <3>1, <3>3
      <4>3. ReaderOf(Hub, epoch, x, clients[x], socks[clients[x].sock])
        BY <2>1, <2>3, <3>1, HubFields DEF ClientInv
      <4>. QED BY <1>4, <3>1, <4>1, <4>2, <4>3 DEF ReaderOf
    <3>. QED BY <3>2, <3>3
  <2>. QED BY <1>13, <2>2, <2>3 DEF ClientInv
<1>17. ViewInv(h2, voices, C2, epoch)
  <2>. SUFFICES ASSUME h2.seq < MaxSeq, NEW t \in Sockets, Live(h2.socks[t])
                PROVE  Viewed(voices, C2, epoch, t, h2.socks[t])
    BY DEF ViewInv, Viewed
  <2>0. \A j \in Sockets : Live(socks[j]) => Viewed(voices, clients, epoch, j, socks[j])
    BY <1>3, HubTypes, HubFields DEF Part0, Part, ViewInv, Viewed
  <2>1. CASE t # s
    <3>1. h2.socks[t] = socks[t] /\ Live(socks[t]) BY <1>1, <1>3, <2>1
    <3>2. \A x \in Devices : C2[x].sock = t => C2[x] = clients[x]
      BY <1>0, <1>9, <1>13, <2>1
    <3>. QED BY <1>13, <2>0, <3>1, <3>2 DEF Viewed
  <2>2. CASE t = s
    <3>1. h2.socks[t] = k2 /\ Live(k) /\ Viewed(voices, clients, epoch, s, k)
      BY <1>0, <1>1, <1>3, <2>0, <2>2 DEF Live
    <3>2. ASSUME NEW f, LastOwner(k2, f) PROVE LastOwner(k, f)
      <4>1. f \in Pending(k2) /\ e.seq < f.seq BY <1>1, <3>2 DEF LastOwner
      <4>2. e.seq <= f.seq /\ f \in Pending(k) BY <1>1, <1>5, <4>1
      <4>. QED BY <1>1, <3>2, <4>2 DEF LastOwner
    <3>3. ASSUME NEW x \in Devices, C2[x].sock = s, C2[x].epoch = epoch, C2[x].voice # <<>>,
                 \A f \in Pending(k2) : f.kind # "owner"
          PROVE  C2[x].voice = OwnerIn(voices, Owner[x])
      <4>1. x = d /\ C2[x] = c2 /\ c.sock = s BY <1>0, <1>1, <1>9, <1>13, <3>3
      <4>2. /\ Accepts(c, e)
            /\ c2.voice = IF e.kind = "owner" THEN <<e.dev, e.run>>
                          ELSE IF e.kind = "ready" THEN <<>> ELSE c.voice
        BY <1>11, <3>3, <4>1 DEF After
      <4>3. CASE e.kind = "owner"
        <5>1. LastOwner(k, e) BY <1>1, <1>5, <3>3, <4>3 DEF LastOwner
        <5>2. <<e.dev, e.run>> = OwnerIn(voices, Owner[d]) BY <1>0, <3>1, <5>1 DEF Viewed
        <5>. QED BY <4>1, <4>2, <4>3, <5>2
      <4>4. CASE e.kind # "owner"
        <5>1. e.kind # "ready" /\ c2.voice = c.voice BY <3>3, <4>1, <4>2, <4>4
        <5>2. c.epoch = epoch BY <1>1, <4>2, <5>1 DEF Accepts
        <5>3. \A f \in Pending(k) : f.kind # "owner" BY <1>1, <3>3, <4>4
        <5>4. ShowsOwner(epoch, c, k, OwnerIn(voices, Owner[d])) BY <1>0, <1>1, <3>1, <4>1 DEF Viewed
        <5>. QED BY <3>3, <4>1, <5>1, <5>2, <5>3, <5>4 DEF ShowsOwner
      <4>. QED BY <4>3, <4>4
    <3>. QED BY <1>0, <1>1, <2>2, <3>1, <3>2, <3>3 DEF Viewed, ShowsOwner
  <2>. QED BY <2>1, <2>2
<1>18. LeaseInv(voices, claimed) /\ PlayInv(Hub, voices, clients, epoch, claimed)
  BY HubTypes DEF Part0, Part
<1>19. PlayInv(h2, voices, C2, epoch, claimed)
  <2>1. ASSUME NEW t \in Sockets, NEW f \in Pending(h2.socks[t]) PROVE f \in Pending(socks[t])
    <3>1. CASE t = s BY <1>0, <1>1, <1>3, <3>1
    <3>2. CASE t # s BY <1>1, <1>3, <3>2
    <3>. QED BY <3>1, <3>2
  <2>2. ASSUME NEW x \in Devices, NEW r \in C2[x].ended PROVE r \in claimed /\ Dead(voices, r)
    <3>1. CASE r \in clients[x].ended BY <1>18, <3>1 DEF PlayInv
    <3>2. CASE r \notin clients[x].ended
      <4>1. x = d /\ c.sock = s /\ c2.epoch = epoch /\ C2[x] = c2 BY <1>1, <1>9, <1>12, <1>13, <3>2 DEF After
      <4>2. e.kind \in Ends /\ r = e.run BY <1>0, <1>11, <3>2, <4>1 DEF After
      <4>3. e.kind \in Playback BY <4>2 DEF Ends, Playback
      <4>. QED BY <1>0, <1>1, <1>18, <4>2, <4>3, HubFields DEF PlayInv
    <3>. QED BY <3>1, <3>2
  <2>3. ASSUME NEW x \in Devices, NEW t \in Sockets, NEW f \in Pending(h2.socks[t]),
               f.kind = "started", f.run \in C2[x].ended
        PROVE  C2[x].epoch = epoch /\ f.seq <= C2[x].seq
    <3>0. f \in Pending(socks[t]) /\ f.seq \in Nat BY <2>1, HubTypes, SeqIsNumber
    <3>1. CASE C2[x] = clients[x] BY <1>18, <2>3, <3>0, <3>1, HubFields DEF PlayInv
    <3>2. CASE C2[x] # clients[x]
      <4>1. x = d /\ c.sock = s /\ c2.epoch = epoch /\ C2[x] = c2 BY <1>1, <1>9, <1>12, <1>13, <3>2 DEF After
      <4>2. c2.seq = e.seq /\ Accepts(c, e) BY <1>11, <4>1 DEF After
      <4>3. CASE f.run \in c.ended
        <5>1. c.epoch = epoch /\ f.seq <= c.seq BY <1>0, <1>1, <1>18, <2>3, <3>0, <4>3, HubFields DEF PlayInv
        <5>2. c.seq < e.seq /\ c.seq \in Nat
          BY <1>1, <4>1, <5>1, BoundsAssumption DEF ReaderOf, Client
        <5>. QED BY <1>5, <3>0, <4>1, <4>2, <5>1, <5>2
      <4>4. CASE f.run \notin c.ended
        <5>1. e.kind \in Ends /\ f.run = e.run BY <1>11, <2>3, <4>1, <4>4 DEF After
        <5>2. f.seq < e.seq BY <1>0, <1>1, <1>18, <2>3, <3>0, <5>1, HubFields DEF PlayInv
        <5>. QED BY <1>5, <3>0, <4>1, <4>2, <5>2
      <4>. QED BY <4>3, <4>4
    <3>. QED BY <3>1, <3>2
  <2>4. ASSUME NEW x \in Devices PROVE ~C2[x].restarted
    <3>1. CASE C2[x] = clients[x] BY <1>18, <3>1 DEF PlayInv
    <3>2. CASE C2[x] # clients[x] BY <1>1, <1>9, <1>12, <1>13, <3>2 DEF After
    <3>. QED BY <3>1, <3>2
  <2>. QED BY <1>18, <2>1, <2>2, <2>3, <2>4, HubFields DEF PlayInv
<1>20. Part(h2, voices, C2, epoch, claimed)
  BY <1>14, <1>15, <1>16, <1>17, <1>18, <1>19 DEF Part
<1>. QED BY <1>2, <1>20 DEF Part0, Send

-----------------------------------------------------------------------------
(* Subscribing.                                                             *)

\* A number that goes to no user: the one of connection.ready.
LEMMA SkipKeeps ==
  ASSUME epoch \in 1 .. MaxEpoch, NEW h, NEW V, NEW C, NEW K, Part(h, V, C, epoch, K),
         h.seq # MaxSeq, NEW g, Grown(h, g, None), g.socks = h.socks
  PROVE  Part(g, V, C, epoch, K)
<1>0. h \in HubT /\ Shape(h) /\ g.seq = h.seq + 1 BY DEF Part, Shape, Grown
<1>1. PICK e, x : e = Event("public", None, None) /\ x = Numbered(h, e) OBVIOUS
<1>2. e \in EventT /\ e.kind = "public" BY <1>1 DEF Event, EventT, NewKinds
<1>3. x \in Envelope /\ x.epoch = epoch /\ x.seq = h.seq + 1 /\ x.kind = "public"
  BY <1>0, <1>1, <1>2, NumberedIs DEF EventT
<1>4. ASSUME NEW s \in Sockets
      PROVE  SocketShape(g.socks[s]) /\ Published(h.socks[s], g.socks[s], None, x)
  <2>1. SocketShape(h.socks[s]) /\ g.socks[s] = h.socks[s] BY <1>0 DEF Shape
  <2>2. h.socks[s].attached => Owner[h.socks[s].dev] # None
    BY <2>1, OwnerAssumption, NoneAssumption DEF SocketShape
  <2>. QED BY <2>1, <2>2 DEF Published
<1>5. Announces(V, V, K, K, None, x) BY <1>3 DEF Announces, Part, Playback, Ends
<1>6. x.seq = g.seq /\ x.kind # "ready" BY <1>0, <1>3
<1>. QED BY <1>3, <1>4, <1>5, <1>6, GrownKeeps

\* An authed socket starts to serve, with the ready envelope x in its queue.
LEMMA OpenKeeps ==
  ASSUME NEW h, NEW V, NEW C, NEW ep, NEW K, Part(h, V, C, ep, K),
         NEW h2 \in HubT, h2.seq = h.seq, h2.log = h.log, NEW s \in Sockets,
         \A t \in Sockets : t # s => h2.socks[t] = h.socks[t],
         NEW x \in Envelope, x.seq = h.seq, x.epoch = ep, x.kind = "ready",
         NEW k, k = h.socks[s], NEW k2, k2 = h2.socks[s],
         k.state = "authed", SocketShape(k2), Pending(k2) = {x}, k2.dev = k.dev, k2.state = "serving",
         \A d \in Devices : C[d].sock = s /\ C[d].epoch = ep => C[d].seq < x.seq
  PROVE  Part(h2, V, C, ep, K)
<1>0. \A j, low : Complete(h2, j, low) <=> Complete(h, j, low) BY DEF Complete
<1>1. Shape(h2) BY DEF Part, Shape
<1>2. x.seq \in Nat BY SeqIsNumber
<1>3. EventsInv(h2, ep)
  <2>. SUFFICES ASSUME NEW t \in Sockets PROVE EventsOf(h2, ep, h2.socks[t]) BY DEF EventsInv
  <2>1. CASE t = s
    <3>1. Complete(h2, k2, x.seq) BY <1>2 DEF Complete
    <3>. QED BY <1>2, <2>1, <3>1 DEF EventsOf
  <2>2. CASE t # s
    <3>1. EventsOf(h, ep, h.socks[t]) /\ h2.socks[t] = h.socks[t] BY <2>2 DEF Part, EventsInv
    <3>. QED BY <1>0, <3>1 DEF EventsOf
  <2>. QED BY <2>1, <2>2
<1>4. ASSUME NEW d \in Devices, C[d].sock = s PROVE k.dev = d /\ C[d].voice = <<>>
  <2>1. ReaderOf(h, ep, d, C[d], k) BY <1>4, NoneAssumption DEF Part, ClientInv
  <2>. QED BY <2>1 DEF ReaderOf
<1>5. ClientInv(h2, C, ep)
  <2>. SUFFICES ASSUME NEW d \in Devices, C[d].sock # None
                PROVE  ReaderOf(h2, ep, d, C[d], h2.socks[C[d].sock])
    BY DEF Part, ClientInv
  <2>1. CASE C[d].sock = s BY <1>4, <2>1 DEF ReaderOf
  <2>2. CASE C[d].sock # s
    <3>1. C[d].sock \in Sockets BY DEF Part, ClientInv, Client
    <3>2. ReaderOf(h, ep, d, C[d], h.socks[C[d].sock]) BY DEF Part, ClientInv
    <3>3. h2.socks[C[d].sock] = h.socks[C[d].sock] BY <2>2, <3>1
    <3>. QED BY <1>0, <3>2, <3>3 DEF ReaderOf
  <2>. QED BY <2>1, <2>2
<1>6. ViewInv(h2, V, C, ep)
  <2>. SUFFICES ASSUME h2.seq < MaxSeq, NEW t \in Sockets, Live(h2.socks[t])
                PROVE  Viewed(V, C, ep, t, h2.socks[t])
    BY DEF ViewInv, Viewed
  <2>1. CASE t = s
    <3>1. \A e : ~LastOwner(k2, e) BY DEF LastOwner
    <3>2. \A d \in Devices : C[d].sock = s => ShowsOwner(ep, C[d], k2, OwnerIn(V, Owner[d]))
      BY <1>4 DEF ShowsOwner
    <3>. QED BY <2>1, <3>1, <3>2 DEF Viewed
  <2>2. CASE t # s BY <2>2 DEF Part, ViewInv, Viewed
  <2>. QED BY <2>1, <2>2
<1>7. PlayInv(h2, V, C, ep, K)
  <2>1. ASSUME NEW t \in Sockets, NEW e \in Pending(h2.socks[t]), e.kind \in Playback
        PROVE  e \in Pending(h.socks[t])
    <3>1. CASE t = s BY <2>1, <3>1 DEF Playback
    <3>2. CASE t # s BY <2>1, <3>2
    <3>. QED BY <3>1, <3>2
  <2>2. Ends \subseteq Playback /\ "started" \in Playback BY DEF Ends, Playback
  <2>3. PlayInv(h, V, C, ep, K) BY DEF Part
  <2>. QED BY <2>1, <2>2, <2>3 DEF PlayInv
<1>. QED BY <1>1, <1>3, <1>5, <1>6, <1>7 DEF Part

LEMMA SubscribeStep ==
  ASSUME IndInv, NEW s \in Sockets, Subscribe(s)
  PROVE  Part0'
<1>0. /\ Hub \in HubT /\ socks \in [Sockets -> Socket] /\ Hub.seq # MaxSeq /\ Hub.socks = socks
      /\ Len(Hub.log) = Hub.seq /\ Hub.seq = seq /\ seq \in Nat /\ epoch \in 1 .. MaxEpoch
  BY HubTypes, HubFields DEF Subscribe, MaySubscribe, Exhausted
<1>1. PICK k, e, x, g : /\ k = socks[s] /\ e = Event("ready", socks[s].dev, None)
                        /\ x = Numbered(Hub, e) /\ g = Advanced(Hub, None)
  OBVIOUS
<1>2. k \in Socket /\ k.state = "authed" /\ SocketShape(k) /\ k.dev \in Devices
  BY <1>0, <1>1, HubTypes DEF Subscribe, SocketShape
<1>3. e.kind = "ready" /\ e.dev = k.dev /\ e.run = None BY <1>1 DEF Event
<1>4. x \in Envelope /\ x.epoch = epoch /\ x.seq = Hub.seq + 1 /\ x.kind = "ready"
  BY <1>0, <1>1, <1>2, <1>3, NumberedIs
<1>5. g = [seq |-> Hub.seq + 1, socks |-> Hub.socks, log |-> Append(Hub.log, None)]
  BY <1>0, <1>1 DEF Advanced, HubT
<1>6. Grown(Hub, g, None) /\ g.socks = Hub.socks BY <1>0, <1>5, AdvancedType
<1>7. Part(g, voices, clients, epoch, claimed) BY <1>0, <1>6, HubTypes, SkipKeeps DEF Part0
<1>8. PICK k2 : k2 = [k EXCEPT !.state = "serving", !.attached = TRUE, !.queue = <<x>>] OBVIOUS
<1>9. <<x>> \in Seq(Envelope) /\ Len(<<x>>) = 1 /\ DOMAIN <<x>> = {1} /\ <<x>>[1] = x
  BY <1>4
<1>10. k2 \in Socket /\ k2.state = "serving" /\ k2.queue = <<x>> /\ k2.dev = k.dev
  BY <1>2, <1>8, <1>9 DEF Socket
<1>11. SocketShape(k2) BY <1>2, <1>9, <1>10, BoundsAssumption DEF SocketShape, Sorted
<1>12. Pending(k2) = {x}
  <2>1. \A y : y \in Pending(k2) <=> y = x BY <1>9, <1>10, PendingIs
  <2>. QED BY <2>1
<1>13. PICK h2 : h2 = [g EXCEPT !.socks[s] = k2] OBVIOUS
<1>14. g \in HubT BY <1>6 DEF Grown
<1>15. /\ h2 \in HubT /\ h2.seq = g.seq /\ h2.log = g.log /\ h2.socks[s] = k2
       /\ \A t \in Sockets : t # s => h2.socks[t] = g.socks[t]
  BY <1>0, <1>6, <1>10, <1>13, <1>14 DEF HubT
<1>16. SetHub(h2)
  <2>1. g.socks[s] = k BY <1>0, <1>1, <1>6
  <2>. QED BY <1>1, <1>8, <1>13, <2>1 DEF Subscribe
<1>17. Hub' = h2 BY <1>15, <1>16, HubStep
<1>18. ASSUME NEW d \in Devices, clients[d].sock = s, clients[d].epoch = epoch
       PROVE  clients[d].seq < x.seq
  <2>1. clients[d].seq <= Hub.seq BY <1>18, HubTypes DEF Part0, Part, ClientInv
  <2>2. clients[d].seq \in Nat BY HubTypes, BoundsAssumption DEF Client
  <2>. QED BY <1>0, <1>4, <2>1, <2>2
<1>19. x.seq = g.seq /\ k = g.socks[s] BY <1>0, <1>1, <1>4, <1>6 DEF Grown
<1>20. Part(h2, voices, clients, epoch, claimed)
  BY <1>2, <1>4, <1>7, <1>10, <1>11, <1>12, <1>15, <1>18, <1>19, OpenKeeps
<1>. QED BY <1>17, <1>20 DEF Part0, Subscribe

-----------------------------------------------------------------------------
(* Time, revocation and restart.                                            *)

\* Leases that differ only in the time they have left.
SameLeases(V, V2) ==
    /\ V2 \in Voices
    /\ \A u \in Users : V2[u] = None <=> V[u] = None
    /\ \A u \in Users : V[u] # None =>
           V2[u].dev = V[u].dev /\ V2[u].run = V[u].run /\ V2[u].playback = V[u].playback

LEMMA LeasesKeep ==
  ASSUME NEW h, NEW V, NEW C, NEW ep, NEW K, Part(h, V, C, ep, K), NEW V2, SameLeases(V, V2)
  PROVE  Part(h, V2, C, ep, K)
<1>1. \A u \in Users : OwnerIn(V2, u) = OwnerIn(V, u) BY DEF SameLeases, OwnerIn
<1>2. \A r : Dead(V, r) <=> Dead(V2, r) BY DEF SameLeases, Dead
<1>3. LeaseInv(V2, K)
  <2>1. LeaseInv(V, K) BY DEF Part
  <2>2. \A u \in Users : V2[u] # None => V[u] # None /\ V2[u].run = V[u].run BY DEF SameLeases
  <2>3. ASSUME NEW u \in Users, V2[u] # None PROVE V2[u].run \in K \cup {None}
    BY <2>1, <2>2, <2>3 DEF LeaseInv
  <2>4. ASSUME NEW u \in Users, NEW v \in Users, V2[u] # None, V2[v] # None,
               V2[u].run = V2[v].run, V2[u].run # None
        PROVE  u = v
    BY <2>1, <2>2, <2>4 DEF LeaseInv
  <2>. QED BY <2>1, <2>3, <2>4 DEF LeaseInv, SameLeases
<1>4. ViewInv(h, V2, C, ep)
  <2>. SUFFICES ASSUME h.seq < MaxSeq, NEW s \in Sockets, Live(h.socks[s])
                PROVE  Viewed(V2, C, ep, s, h.socks[s])
    BY DEF ViewInv, Viewed
  <2>1. Viewed(V, C, ep, s, h.socks[s]) BY DEF Part, ViewInv, Viewed
  <2>2. h.socks[s].dev \in Devices BY DEF Part, Shape, SocketShape, Live
  <2>3. \A d \in Devices : OwnerIn(V2, Owner[d]) = OwnerIn(V, Owner[d]) BY <1>1, OwnerAssumption
  <2>. QED BY <2>1, <2>2, <2>3 DEF Viewed
<1>5. PlayInv(h, V2, C, ep, K) BY <1>2 DEF Part, PlayInv
<1>. QED BY <1>3, <1>4, <1>5 DEF Part

LEMMA LeftStep ==
  ASSUME IndInv, NEW u \in Users, voices[u] # None, NEW l \in 0 .. LeaseLife,
         voices' = [voices EXCEPT ![u].left = l],
         UNCHANGED <<epoch, seq, socks, clients, claimed, log>>
  PROVE  Part0'
<1>1. voices \in Voices /\ Part0 BY HubTypes DEF Part0, Part, LeaseInv
<1>2. voices[u] \in Lease BY <1>1 DEF Voices
<1>3. PICK w, V2 : w = [voices[u] EXCEPT !.left = l] /\ V2 = voices' OBVIOUS
<1>4. /\ w \in Lease /\ w.dev = voices[u].dev /\ w.run = voices[u].run
      /\ w.playback = voices[u].playback
  BY <1>2, <1>3 DEF Lease
<1>5. w # None BY <1>4, LeaseAssumption
<1>6. V2 = [voices EXCEPT ![u] = w] BY <1>1, <1>3 DEF Voices
<1>7. SameLeases(voices, V2) BY <1>1, <1>4, <1>5, <1>6 DEF SameLeases, Voices
<1>8. Part(Hub, V2, clients, epoch, claimed) BY <1>1, <1>7, LeasesKeep DEF Part0
<1>9. Hub' = Hub BY DEF Hub
<1>. QED BY <1>3, <1>8, <1>9 DEF Part0

LEMMA PongStep ==
  ASSUME IndInv, NEW s \in Sockets, Pong(s)
  PROVE  Part0'
<1>1. PICK d, u : d = socks[s].dev /\ u = Owner[d] OBVIOUS
<1>2. socks[s] \in Socket /\ SocketShape(socks[s]) BY HubTypes
<1>3. u \in Users BY <1>1, <1>2, OwnerAssumption DEF SocketShape, Pong
<1>4. LeaseLife \in 0 .. LeaseLife BY BoundsAssumption
<1>. QED BY <1>1, <1>3, <1>4, LeftStep DEF Pong

LEMMA LeaseTickStep ==
  ASSUME IndInv, NEW u \in Users, LeaseTick(u)
  PROVE  Part0'
<1>1. voices \in Voices BY HubTypes DEF Part0, Part, LeaseInv
<1>2. voices[u] \in Lease BY <1>1 DEF Voices, LeaseTick
<1>3. voices[u].left - 1 \in 0 .. LeaseLife BY <1>2, BoundsAssumption DEF Lease, LeaseTick
<1>. QED BY <1>3, LeftStep DEF LeaseTick

LEMMA RestartStep ==
  ASSUME IndInv, Restart
  PROVE  Part0'
<1>1. PICK h2, V2, C2, ep : h2 = Hub' /\ V2 = voices' /\ C2 = clients' /\ ep = epoch' OBVIOUS
<1>2. /\ epoch \in Nat /\ ep = epoch + 1 /\ clients \in [Devices -> Client]
      /\ V2 = [u \in Users |-> None]
  BY <1>1, HubTypes, BoundsAssumption DEF Restart
<1>3. FreeSocket \in Socket /\ SocketShape(FreeSocket) /\ Pending(FreeSocket) = {} /\ ~FreeSocket.attached
  <2>1. /\ FreeSocket.queue = <<>> /\ FreeSocket.state = "free" /\ ~FreeSocket.attached
        /\ FreeSocket.dev = None
    BY DEF FreeSocket
  <2>2. <<>> \in Seq(Envelope) OBVIOUS
  <2>3. FreeSocket \in Socket BY <2>2 DEF FreeSocket, Socket, NoEvent
  <2>4. Pending(FreeSocket) = {} BY <2>1, EmptySocket
  <2>5. SocketShape(FreeSocket) BY <2>1, BoundsAssumption DEF SocketShape, Sorted
  <2>. QED BY <2>1, <2>3, <2>4, <2>5
<1>4. h2.seq = 0 /\ h2.log = <<>> /\ h2.socks = [s \in Sockets |-> FreeSocket]
  BY <1>1 DEF Hub, Restart
<1>5. h2 \in HubT
  <2>1. <<>> \in Seq(Users \cup {None}) OBVIOUS
  <2>2. h2 = [seq |-> 0, socks |-> [s \in Sockets |-> FreeSocket], log |-> <<>>]
    BY <1>1 DEF Hub, Restart
  <2>3. [s \in Sockets |-> FreeSocket] \in [Sockets -> Socket] BY <1>3
  <2>. QED BY <2>1, <2>2, <2>3, BoundsAssumption DEF HubT
<1>6. Shape(h2) /\ EventsInv(h2, ep) BY <1>3, <1>4, <1>5 DEF Shape, EventsInv, EventsOf
<1>7. ASSUME NEW d \in Devices
      PROVE  /\ C2[d] \in Client /\ C2[d].sock = None /\ C2[d].epoch < ep
             /\ C2[d].ended = clients[d].ended /\ ~C2[d].restarted
  <2>1. PICK c : c = clients[d] OBVIOUS
  <2>2. c \in Client BY <1>2, <2>1
  <2>3. C2[d] = [c EXCEPT !.sock = None] BY <1>1, <2>1 DEF Restart
  <2>4. c.epoch <= epoch /\ ~c.restarted BY <2>1, HubTypes DEF Part0, Part, ClientInv, PlayInv
  <2>5. c.epoch \in Nat BY <2>2, BoundsAssumption DEF Client
  <2>6. /\ C2[d] \in Client /\ C2[d].sock = None /\ C2[d].epoch = c.epoch /\ C2[d].ended = c.ended
        /\ C2[d].restarted = c.restarted
    BY <2>2, <2>3 DEF Client
  <2>. QED BY <1>2, <2>1, <2>4, <2>5, <2>6
<1>8. C2 \in [Devices -> Client]
  <2>1. C2 = [d \in Devices |-> [clients[d] EXCEPT !.sock = None]] BY <1>1 DEF Restart
  <2>2. \A d \in Devices : C2[d] \in Client BY <1>7
  <2>. QED BY <2>1, <2>2
<1>9. ASSUME NEW d \in Devices
      PROVE  C2[d].epoch <= ep /\ C2[d].epoch # ep
  <2>1. C2[d].epoch \in Nat BY <1>7, BoundsAssumption DEF Client
  <2>. QED BY <1>2, <1>7, <2>1
<1>10. ClientInv(h2, C2, ep) BY <1>7, <1>8, <1>9 DEF ClientInv
<1>11. ViewInv(h2, V2, C2, ep) BY <1>3, <1>4 DEF ViewInv, Live
<1>12. LeaseInv(V2, claimed)
  <2>1. claimed \subseteq Runs BY HubTypes DEF Part0, Part, LeaseInv
  <2>. QED BY <1>2, <2>1 DEF LeaseInv, Voices
<1>13. \A r : Dead(V2, r) BY <1>2 DEF Dead
<1>14. \A s \in Sockets : Pending(h2.socks[s]) = {} BY <1>3, <1>4
<1>15. \A d \in Devices : \A r \in C2[d].ended : r \in claimed
  BY <1>7, HubTypes DEF Part0, Part, PlayInv
<1>16. PlayInv(h2, V2, C2, ep, claimed) BY <1>7, <1>13, <1>14, <1>15 DEF PlayInv
<1>17. Part(h2, V2, C2, ep, claimed) BY <1>6, <1>10, <1>11, <1>12, <1>16 DEF Part
<1>. QED BY <1>1, <1>17 DEF Part0, Restart

\* Steps that leave the hub, the leases and the clients alone.
LEMMA AsideStep ==
  ASSUME IndInv, UNCHANGED <<epoch, seq, socks, voices, clients, claimed, log>>
  PROVE  Part0'
<1>1. Hub' = Hub BY DEF Hub
<1>. QED BY <1>1, HubTypes DEF Part0

-----------------------------------------------------------------------------
(* The invariant, and the theorems it gives.                                *)

LEMMA InitPart ==
  ASSUME Init
  PROVE  IndInv
<1>1. FreeSocket \in Socket /\ SocketShape(FreeSocket) /\ Pending(FreeSocket) = {} /\ ~FreeSocket.attached
  <2>1. /\ FreeSocket.queue = <<>> /\ FreeSocket.state = "free" /\ ~FreeSocket.attached
        /\ FreeSocket.dev = None
    BY DEF FreeSocket
  <2>2. <<>> \in Seq(Envelope) OBVIOUS
  <2>3. FreeSocket \in Socket BY <2>2 DEF FreeSocket, Socket, NoEvent
  <2>4. Pending(FreeSocket) = {} BY <2>1, EmptySocket
  <2>5. SocketShape(FreeSocket) BY <2>1, BoundsAssumption DEF SocketShape, Sorted
  <2>. QED BY <2>1, <2>3, <2>4, <2>5
<1>2. /\ Hub.seq = 0 /\ Hub.log = <<>> /\ Hub.socks = [s \in Sockets |-> FreeSocket]
      /\ voices = [u \in Users |-> None]
  BY HubFields DEF Init
<1>3. Hub \in HubT
  <2>1. <<>> \in Seq(Users \cup {None}) OBVIOUS
  <2>2. Hub = [seq |-> 0, socks |-> [s \in Sockets |-> FreeSocket], log |-> <<>>] BY DEF Hub, Init
  <2>3. [s \in Sockets |-> FreeSocket] \in [Sockets -> Socket] BY <1>1
  <2>. QED BY <2>1, <2>2, <2>3, BoundsAssumption DEF HubT
<1>4. Shape(Hub) /\ EventsInv(Hub, epoch) BY <1>1, <1>2, <1>3 DEF Shape, EventsInv, EventsOf
<1>5. PICK c : c = [sock |-> None, epoch |-> 0, seq |-> 0, voice |-> <<>>, ended |-> {},
                    restarted |-> FALSE]
  OBVIOUS
<1>6. c \in Client BY <1>5, BoundsAssumption DEF Client
<1>7. clients = [d \in Devices |-> c] BY <1>5 DEF Init
<1>8. ClientInv(Hub, clients, epoch) BY <1>5, <1>6, <1>7 DEF ClientInv, Init
<1>9. ViewInv(Hub, voices, clients, epoch) BY <1>1, <1>2 DEF ViewInv, Live
<1>10. LeaseInv(voices, claimed) BY <1>2 DEF LeaseInv, Voices, Init
<1>11. \A s \in Sockets : Pending(Hub.socks[s]) = {} BY <1>1, <1>2
<1>12. \A d \in Devices : clients[d].ended = {} /\ ~clients[d].restarted BY <1>5, <1>7
<1>13. PlayInv(Hub, voices, clients, epoch, claimed) BY <1>11, <1>12 DEF PlayInv
<1>. QED BY <1>4, <1>8, <1>9, <1>10, <1>13, BoundsAssumption DEF IndInv, Part, Init

LEMMA IndStep ==
  ASSUME IndInv, [Next]_vars
  PROVE  IndInv'
<1>1. Part0'
  <2>1. ASSUME NEW d \in Devices, NEW s \in Sockets, Connect(d, s) PROVE Part0'
    BY <2>1, ConnectStep
  <2>2. ASSUME NEW s \in Sockets, Subscribe(s) \/ Refused(s) \/ Serve(s) \/ Break(s)
                                  \/ Heartbeat(s) \/ Pong(s)
        PROVE  Part0'
    BY <2>2, SubscribeStep, CloseStep, ReceiveStep, SendStep, BreakStep, HeartbeatStep, PongStep
       DEF Serve
  <2>3. ASSUME NEW d \in Devices, ClientLeaves(d) PROVE Part0' BY <2>3, ClientLeavesStep
  <2>4. ASSUME NEW d \in Devices, Logout(d) PROVE Part0' BY <2>4, AsideStep DEF Logout
  <2>5. ASSUME NEW x \in Devices \cup Users, Revoke(x) PROVE Part0' BY <2>5, AsideStep DEF Revoke
  <2>6. ASSUME NEW x \in Devices \cup Users, DisconnectOwner(x) PROVE Part0'
    BY <2>6, DisconnectOwnerStep
  <2>7. ASSUME NEW u \in Users, PublishEvent(u) \/ PublishTooLarge(u) \/ LeaseTick(u) \/ AskOwner(u)
        PROVE  Part0'
    BY <2>7, PublishEventStep, PublishTooLargeStep, LeaseTickStep, AskOwnerStep
  <2>8. ASSUME NEW d \in Devices, NEW r \in Runs \cup {None}, ClaimVoice(d, r) PROVE Part0'
    BY <2>8, ClaimVoiceStep
  <2>9. ASSUME NEW d \in Devices, NEW r \in Runs \cup {None}, ReleaseVoice(d, r) PROVE Part0'
    BY <2>9, ReleaseVoiceStep
  <2>10. ASSUME NEW d \in Devices, NEW r \in Runs, NEW p \in Playback, ReportPlayback(d, r, p)
         PROVE  Part0'
    BY <2>10, ReportPlaybackStep
  <2>11. CASE Restart BY <2>11, RestartStep
  <2>12. CASE UNCHANGED vars BY <2>12, AsideStep DEF vars
  <2>. QED BY <2>1, <2>2, <2>3, <2>4, <2>5, <2>6, <2>7, <2>8, <2>9, <2>10, <2>11, <2>12 DEF Next
<1>2. epoch' \in 1 .. MaxEpoch /\ inactive' \subseteq Devices /\ cutting' \subseteq Devices \cup Users
  <2>0. epoch \in 1 .. MaxEpoch /\ inactive \subseteq Devices /\ cutting \subseteq Devices \cup Users
    BY DEF IndInv
  <2>1. CASE Restart BY <2>0, <2>1, BoundsAssumption DEF Restart
  <2>2. CASE \E x \in Devices \cup Users : Revoke(x)
    <3>1. PICK x \in Devices \cup Users : Revoke(x) BY <2>2
    <3>2. Scope(x) \subseteq Devices BY DEF Scope
    <3>. QED BY <2>0, <3>1, <3>2 DEF Revoke
  <2>3. CASE \E d \in Devices : Logout(d) BY <2>0, <2>3 DEF Logout
  <2>4. CASE \E x \in Devices \cup Users : DisconnectOwner(x) BY <2>0, <2>4 DEF DisconnectOwner
  <2>5. CASE UNCHANGED <<epoch, inactive, cutting>> BY <2>0, <2>5
  <2>6. ASSUME NEW d \in Devices, NEW s \in Sockets, Connect(d, s) PROVE UNCHANGED <<epoch, inactive, cutting>>
    BY <2>6 DEF Connect
  <2>7. ASSUME NEW s \in Sockets, Subscribe(s) \/ Refused(s) \/ Break(s) \/ Pong(s) \/ Heartbeat(s)
        PROVE  UNCHANGED <<epoch, inactive, cutting>>
    BY <2>7, Zenon DEF Subscribe, Refused, Break, Pong, Heartbeat
  <2>8. ASSUME NEW s \in Sockets, Serve(s) PROVE UNCHANGED <<epoch, inactive, cutting>>
    BY <2>8, Zenon DEF Serve, Receive, Send, Close
  <2>9. ASSUME NEW d \in Devices, ClientLeaves(d) PROVE UNCHANGED <<epoch, inactive, cutting>>
    BY <2>9 DEF ClientLeaves
  <2>10. ASSUME NEW u \in Users, PublishEvent(u) \/ PublishTooLarge(u) \/ LeaseTick(u) \/ AskOwner(u)
         PROVE  UNCHANGED <<epoch, inactive, cutting>>
    BY <2>10, Zenon DEF PublishEvent, PublishTooLarge, LeaseTick, AskOwner
  <2>11. ASSUME NEW d \in Devices, NEW r \in Runs \cup {None}, ClaimVoice(d, r) \/ ReleaseVoice(d, r)
         PROVE  UNCHANGED <<epoch, inactive, cutting>>
    BY <2>11, Zenon DEF ClaimVoice, ReleaseVoice
  <2>12. ASSUME NEW d \in Devices, NEW r \in Runs, NEW p \in Playback, ReportPlayback(d, r, p)
         PROVE  UNCHANGED <<epoch, inactive, cutting>>
    BY <2>12, Zenon DEF ReportPlayback
  <2>. QED BY <2>1, <2>2, <2>3, <2>4, <2>5, <2>6, <2>7, <2>8, <2>9, <2>10, <2>11, <2>12 DEF Next, vars
<1>. QED BY <1>1, <1>2 DEF IndInv, Part0

LEMMA IndInvAlways == Spec => []IndInv
BY InitPart, IndStep, PTL DEF Spec

\* The hub, its sockets and queues, the leases and the clients keep their types, and no
\* queue exceeds QUEUE_CAPACITY.
THEOREM TypeCorrect == Spec => []TypeOK
<1>1. IndInv => TypeOK
  <2>. SUFFICES ASSUME IndInv PROVE TypeOK OBVIOUS
  <2>1. voices \in [Users -> Lease \cup {None}] /\ claimed \subseteq Runs
    BY HubTypes DEF Part0, Part, LeaseInv, Voices
  <2>2. \A s \in Sockets : Len(socks[s].queue) <= QueueCapacity BY HubTypes DEF SocketShape
  <2>. QED BY <2>1, <2>2, HubTypes DEF TypeOK, IndInv
<1>. QED BY <1>1, IndInvAlways, PTL

\* A client that has read everything sent to it shows the voice owner the hub has, as long
\* as sequence numbers last, and playback that ended is never announced as started again.
THEOREM VoiceIsConsistentAlways == Spec => []VoiceIsConsistent
<1>1. IndInv => VoiceIsConsistent
  <2>. SUFFICES ASSUME IndInv PROVE VoiceIsConsistent OBVIOUS
  <2>1. VoiceViewAgrees
    <3>. SUFFICES ASSUME seq < MaxSeq, NEW d \in Devices, clients[d].sock # None,
                         clients[d].epoch = epoch, Drained(clients[d].sock), clients[d].voice # <<>>
                  PROVE  clients[d].voice = OwnerOf(Owner[d])
      BY DEF VoiceViewAgrees
    <3>1. PICK s \in Sockets : s = clients[d].sock BY HubTypes DEF Client
    <3>2. Live(socks[s]) /\ socks[s].queue = <<>> /\ socks[s].state # "sending"
      BY <3>1 DEF Drained, Live
    <3>3. Pending(socks[s]) = {} BY <3>2, EmptySocket
    <3>4. ShowsOwner(epoch, clients[d], socks[s], OwnerIn(voices, Owner[d]))
      BY <3>1, <3>2, HubTypes, HubFields DEF Part0, Part, ViewInv
    <3>5. clients[d].voice = OwnerIn(voices, Owner[d]) BY <3>3, <3>4 DEF ShowsOwner
    <3>. QED BY <3>5 DEF OwnerIn, OwnerOf
  <2>2. PlaybackStaysEnded BY HubTypes DEF Part0, Part, PlayInv, PlaybackStaysEnded
  <2>. QED BY <2>1, <2>2 DEF VoiceIsConsistent
<1>. QED BY <1>1, IndInvAlways, PTL

\* A write that ends skips no event of the user on this connection.
LEMMA SendGap ==
  ASSUME IndInv, NEW s \in Sockets, Send(s)
  PROVE  GapStep
<1>0. clients \in [Devices -> Client] BY HubTypes
<1>2. PICK k, k2, e, d, c : k = socks[s] /\ k2 = socks'[s] /\ e = k.out /\ d = k.dev /\ c = clients[d]
  OBVIOUS
<1>3. /\ d \in Devices /\ c \in Client /\ k.state = "sending" /\ k2.state = "serving"
      /\ k2.dev = d /\ k2.attached = k.attached /\ SocketShape(k2) /\ k2 \in Socket
      /\ e \in Pending(k) /\ e \in Envelope /\ e.epoch = epoch /\ e.seq <= seq
      /\ Pending(k2) = Pending(k) \ {e} /\ \A f \in Pending(k2) : e.seq < f.seq
      /\ socks' \in [Sockets -> Socket] /\ \A t \in Sockets : t # s => socks'[t] = socks[t]
      /\ \A x \in Devices : clients[x].sock = s => x = d
      /\ c.sock = s => ReaderOf(Hub, epoch, d, c, k)
  BY <1>2, SendFacts
<1>. SUFFICES ASSUME NEW x \in Devices, clients'[x].seq # clients[x].seq,
                     clients'[x].epoch = clients[x].epoch, clients'[x].epoch = epoch,
                     clients'[x].sock # None, socks[clients'[x].sock].out.kind # "ready",
                     NEW n \in clients[x].seq + 1 .. clients'[x].seq - 1, log[n] = Owner[x]
              PROVE  FALSE
  BY DEF GapStep
<1>4. c.sock = s /\ Accepts(c, e) /\ clients' = [clients EXCEPT ![d] = Applied(c, e)] /\ x = d
  BY <1>0, <1>2, <1>3, SendClients
<1>5. After(Applied(c, e), c, e) /\ clients'[d] = Applied(c, e) BY <1>0, <1>2, <1>3, <1>4, SendApplied
<1>6. clients'[d].seq = e.seq /\ clients'[d].sock = s BY <1>4, <1>5 DEF After
<1>7. e.kind # "ready" /\ c.epoch = epoch BY <1>2, <1>4, <1>6
<1>8. \A f \in Pending(k) : f.kind # "ready"
  <2>. SUFFICES ASSUME NEW f \in Pending(k), f.kind = "ready" PROVE FALSE OBVIOUS
  <2>1. EventsOf(Hub, epoch, k) BY <1>2, HubTypes
  <2>2. f.seq <= e.seq BY <1>3, <2>1 DEF EventsOf
  <2>3. f # e BY <1>7
  <2>4. e.seq < f.seq BY <1>3, <2>3
  <2>5. e.seq \in Nat /\ f.seq \in Nat BY <1>2, <1>3, HubTypes, SeqIsNumber
  <2>. QED BY <2>2, <2>4, <2>5
<1>9. Complete(Hub, k, c.seq) /\ k.dev = d BY <1>3, <1>4, <1>7, <1>8 DEF ReaderOf
<1>10. e.seq \in Nat /\ c.seq \in Nat /\ seq \in Nat
  BY <1>3, HubTypes, SeqIsNumber, BoundsAssumption DEF Client
<1>11. n \in 1 .. seq /\ c.seq < n /\ n < e.seq BY <1>2, <1>3, <1>4, <1>6, <1>10
<1>12. Reached(k, n) BY <1>3, <1>11 DEF Reached
<1>13. PICK f \in Pending(k) : f.seq = n BY <1>4, <1>9, <1>11, <1>12, HubFields DEF Complete
<1>14. f # e BY <1>11, <1>13, <1>10
<1>15. e.seq < f.seq BY <1>3, <1>14
<1>. QED BY <1>10, <1>11, <1>13, <1>15

LEMMA GapKept ==
  ASSUME IndInv, [Next]_vars
  PROVE  [GapStep]_vars
<1>0. clients \in [Devices -> Client] BY HubTypes
<1>1. CASE \A d \in Devices : clients'[d].seq = clients[d].seq BY <1>1 DEF GapStep
<1>2. CASE \E s \in Sockets : Send(s) BY <1>2, SendGap
<1>3. CASE Restart
  <2>1. epoch' # epoch BY <1>3, HubTypes, BoundsAssumption DEF Restart
  <2>2. \A d \in Devices : clients'[d].seq = clients[d].seq BY <1>0, <1>3 DEF Restart, Client
  <2>. QED BY <2>2 DEF GapStep
<1>4. CASE \E s \in Sockets : Close(s) \/ Refused(s)
  <2>1. PICK s \in Sockets : Close(s) \/ Refused(s) BY <1>4
  <2>2. clients' = [d \in Devices |->
           IF clients[d].sock = s THEN [clients[d] EXCEPT !.sock = None] ELSE clients[d]]
    BY <2>1 DEF Close, Refused
  <2>3. ASSUME NEW d \in Devices PROVE clients'[d].seq = clients[d].seq BY <1>0, <2>2 DEF Client
  <2>. QED BY <1>1, <2>3
<1>5. CASE \E d \in Devices, s \in Sockets : Connect(d, s)
  <2>1. PICK d \in Devices, s \in Sockets : Connect(d, s) BY <1>5
  <2>2. clients' = [clients EXCEPT ![d] = [clients[d] EXCEPT !.sock = s, !.voice = <<>>]]
    BY <1>0, <2>1 DEF Connect
  <2>3. ASSUME NEW x \in Devices PROVE clients'[x].seq = clients[x].seq BY <1>0, <2>2 DEF Client
  <2>. QED BY <1>1, <2>3
<1>6. CASE \E d \in Devices : ClientLeaves(d)
  <2>1. PICK d \in Devices : ClientLeaves(d) BY <1>6
  <2>2. clients' = [clients EXCEPT ![d] = [clients[d] EXCEPT !.sock = None]]
    BY <1>0, <2>1 DEF ClientLeaves
  <2>3. ASSUME NEW x \in Devices PROVE clients'[x].seq = clients[x].seq BY <1>0, <2>2 DEF Client
  <2>. QED BY <1>1, <2>3
<1>7. CASE clients' = clients BY <1>1, <1>7
<1>8. ASSUME NEW s \in Sockets, Subscribe(s) \/ Receive(s) \/ Break(s) \/ Pong(s) \/ Heartbeat(s)
      PROVE  clients' = clients
  BY <1>8, Zenon DEF Subscribe, Receive, Break, Pong, Heartbeat
<1>9. ASSUME NEW d \in Devices, Logout(d) PROVE clients' = clients BY <1>9 DEF Logout
<1>10. ASSUME NEW x \in Devices \cup Users, Revoke(x) \/ DisconnectOwner(x) PROVE clients' = clients
  BY <1>10, Zenon DEF Revoke, DisconnectOwner
<1>11. ASSUME NEW u \in Users, PublishEvent(u) \/ PublishTooLarge(u) \/ LeaseTick(u) \/ AskOwner(u)
       PROVE  clients' = clients
  BY <1>11, Zenon DEF PublishEvent, PublishTooLarge, LeaseTick, AskOwner
<1>12. ASSUME NEW d \in Devices, NEW r \in Runs \cup {None}, ClaimVoice(d, r) \/ ReleaseVoice(d, r)
       PROVE  clients' = clients
  BY <1>12, Zenon DEF ClaimVoice, ReleaseVoice
<1>13. ASSUME NEW d \in Devices, NEW r \in Runs, NEW p \in Playback, ReportPlayback(d, r, p)
       PROVE  clients' = clients
  BY <1>13, Zenon DEF ReportPlayback
<1>. QED
  BY <1>2, <1>3, <1>4, <1>5, <1>6, <1>7, <1>8, <1>9, <1>10, <1>11, <1>12, <1>13 DEF Next, Serve, vars

\* A client never applies an event of its user behind which an earlier one of the same user
\* was skipped on the same connection (Inner::publish, serve, EventCursor::accept), whatever
\* the capacity of the queues.
THEOREM NoSilentGapAlways == Spec => NoSilentGap
BY IndInvAlways, GapKept, PTL DEF Spec, NoSilentGap

=============================================================================
