--------------------------- MODULE MC_RealtimeHub ---------------------------
(* Small instances of RealtimeHub for TLC. *)
EXTENDS RealtimeHub, TLC

CONSTANTS u1, d1, d2, r1, s1, s2

OneUser == {u1}
TwoDevices == {d1, d2}
SameOwner == (d1 :> u1) @@ (d2 :> u1)

\* Sockets are interchangeable, and so are the devices of one owner.
PeerSymmetry == Permutations(Sockets) \cup Permutations(Devices)

=============================================================================
