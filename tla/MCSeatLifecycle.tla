--------------------------- MODULE MCSeatLifecycle ---------------------------
(* Small instances of SeatLifecycle: device A with two connections, so that   *)
(* joins of one player race each other, and device B with one.                *)
EXTENDS SeatLifecycle, TLC

CONSTANTS A, B, a1, a2, a3, b1, r1, r2

BothAAndB == a1 :> A @@ a2 :> A @@ b1 :> B
ThreeAAndB == a1 :> A @@ a2 :> A @@ a3 :> A @@ b1 :> B
Nonces == 1..9

\* Nothing tells the connections of one device apart.
SocketSymmetry == Permutations({a1, a2, a3})
\* Nor the rooms: a socket holds one reservation at most, so nothing is chosen
\* between them.
SocketAndRoomSymmetry == Permutations({a1, a2}) \cup Permutations({r1, r2})
=============================================================================
