------------------------ MODULE SeatLifecycle_proofs ------------------------
(***************************************************************************)
(* One seat for each device, a host that can act, reservations that are    *)
(* held by somebody: proofs about SeatLifecycle, for any number of         *)
(* connections, devices, rooms and waiting joins.                          *)
(*                                                                         *)
(* The argument: what a single room must be (RoomOk) and what the rooms    *)
(* are to each other (Table) is kept by every operation on them, on the    *)
(* half-done rooms inside a step too; connections enter only in how a seat *)
(* follows its socket's session (LiveSeats) and a reservation the join     *)
(* that holds it (Joins).                                                  *)
(***************************************************************************)
EXTENDS SeatLifecycle, SequenceTheorems, FiniteSetTheorems, WellFoundedInduction, TLAPS

Seat == [device : Device, socket : Socket, off : BOOLEAN]
Timer == [id : Nat, armed : BOOLEAN]
Reservation == [socket : Socket \cup {None}, seatSocket : Socket \cup {None},
                timer : Nat, elapsed : BOOLEAN]
Room == [id : Nat, host : Socket \cup {None}, seats : Seq(Seat),
         status : {"lobby", "playing", "finished"}, window : BOOLEAN,
         timers : [Device -> Timer], nonce : [Device -> Nat],
         reserved : [Device -> Reservation]]

SeatSet(seats) == {seats[i] : i \in DOMAIN seats}
Distinct(seats) == \A i, k \in DOMAIN seats : seats[i].device = seats[k].device => i = k

\* A room by itself: its seats, timers and reservations are of their devices.
Sound(R) ==
  /\ R \in Room
  /\ Distinct(R.seats)
  /\ \A a \in SeatSet(R.seats) : DeviceOf[a.socket] = a.device
  /\ \A d \in Device : R.timers[d].armed => R.timers[d].id # 0
  /\ \A d \in Device : R.reserved[d] # NoReservation =>
       R.reserved[d].socket \in Socket /\ DeviceOf[R.reserved[d].socket] = d

\* HostCanAct of one room.
Hosted(R) ==
  (\E a \in SeatSet(R.seats) : ~a.off) =>
    \E a \in SeatSet(R.seats) : a.socket = R.host /\ (~a.off \/ R.timers[a.device] # NoTimer)

RoomOk(R) == Sound(R) /\ Hosted(R)

\* The rooms among themselves: a device sits in one, a socket reserves in one.
Table(rs) ==
  /\ rs \in [RoomId -> Room]
  /\ \A r \in RoomId : RoomOk(rs[r])
  /\ \A q, r \in RoomId : \A a \in SeatSet(rs[q].seats), b \in SeatSet(rs[r].seats) :
       a.device = b.device => q = r
  /\ \A q, r \in RoomId, d, e \in Device :
       /\ rs[q].reserved[d] # NoReservation /\ rs[r].reserved[e] # NoReservation
       /\ rs[q].reserved[d].socket = rs[r].reserved[e].socket
       => q = r /\ d = e

\* Only seats and reservations have gone.
Thinner(rs, rt) ==
  \A r \in RoomId : /\ SeatSet(rt[r].seats) \subseteq SeatSet(rs[r].seats)
                    /\ \A d \in Device : rt[r].reserved[d] \in {rs[r].reserved[d], NoReservation}

-----------------------------------------------------------------------------
(***************************************************************************)
(* Sequences of seats.                                                     *)
(***************************************************************************)

Less == {p \in Nat \X Nat : p[1] < p[2]}

LEMMA LeastIndex ==
  ASSUME NEW T \in SUBSET Nat, T # {}
  PROVE  \E i \in T : \A j \in T : i <= j
<1>1. Less = OpToRel(<, Nat)
  BY DEF OpToRel, Less
<1>2. IsWellFoundedOn(Less, Nat)
  BY <1>1, NatLessThanWellFounded DEF OpToRel
<1>3. PICK i \in T : \A j \in T : ~(<<j, i>> \in Less)
  BY <1>2, WFMin
<1>4. ASSUME NEW j \in T PROVE i <= j
  <2>1. i \in Nat /\ j \in Nat /\ <<j, i>> \notin Less
    BY <1>3
  <2>2. ~(j < i)
    BY <2>1 DEF Less
  <2> QED BY <2>1, <2>2
<1> QED BY <1>4

\* One seat is taken out; the others keep their order and their places' number.
LEMMA SeatRemoved ==
  ASSUME NEW seats \in Seq(Seat), Distinct(seats), NEW i \in DOMAIN seats
  PROVE  /\ RemoveAt(seats, i) \in Seq(Seat)
         /\ Distinct(RemoveAt(seats, i))
         /\ SeatSet(RemoveAt(seats, i)) = SeatSet(seats) \ {seats[i]}
<1> DEFINE a == SubSeq(seats, 1, i - 1)
           b == SubSeq(seats, i + 1, Len(seats))
           left == RemoveAt(seats, i)
<1>1. i \in 1..Len(seats) /\ Len(seats) \in Nat /\ DOMAIN seats = 1..Len(seats)
  OBVIOUS
<1>2. a \in Seq(Seat) /\ Len(a) = i - 1 /\ \A j \in 1..(i - 1) : a[j] = seats[j]
  BY <1>1
<1>3. b \in Seq(Seat) /\ Len(b) = Len(seats) - i /\ \A j \in 1..(Len(seats) - i) : b[j] = seats[i + j]
  BY <1>1
<1>4. left = a \o b
  BY DEF RemoveAt
<1> HIDE DEF a, b, left
<1>5. a \o b \in Seq(Seat) /\ Len(a \o b) = Len(seats) - 1
  <2>1. a \o b \in Seq(Seat) /\ Len(a \o b) = Len(a) + Len(b)
    BY <1>2, <1>3, ConcatProperties
  <2> QED BY <1>1, <1>2, <1>3, <2>1
<1>6. \A j \in 1..(Len(seats) - 1) : (a \o b)[j] = IF j < i THEN seats[j] ELSE seats[j + 1]
  <2> TAKE j \in 1..(Len(seats) - 1)
  <2>1. CASE j < i
    BY <1>1, <1>2, <1>3, <2>1
  <2>2. CASE ~(j < i)
    <3>1. (a \o b)[j] = b[j - (i - 1)]
      BY <1>1, <1>2, <1>3, <2>2
    <3>2. j - (i - 1) \in 1..(Len(seats) - i) /\ i + (j - (i - 1)) = j + 1
      BY <1>1, <2>2
    <3> QED BY <1>3, <2>2, <3>1, <3>2
  <2> QED BY <2>1, <2>2
<1>7. /\ left \in Seq(Seat) /\ DOMAIN left = 1..(Len(seats) - 1)
      /\ \A j \in 1..(Len(seats) - 1) : left[j] = IF j < i THEN seats[j] ELSE seats[j + 1]
  <2>1. DOMAIN left = 1..Len(left)
    BY <1>4, <1>5
  <2> QED BY <1>4, <1>5, <1>6, <2>1
<1>8. Distinct(left)
  <2> SUFFICES ASSUME NEW j \in DOMAIN left, NEW k \in DOMAIN left, left[j].device = left[k].device
               PROVE  j = k
    BY DEF Distinct
  <2> DEFINE at(n) == IF n < i THEN n ELSE n + 1
  <2>1. /\ at(j) \in DOMAIN seats /\ at(k) \in DOMAIN seats
        /\ left[j] = seats[at(j)] /\ left[k] = seats[at(k)]
    BY <1>1, <1>7
  <2>2. at(j) = at(k)
    BY <2>1 DEF Distinct
  <2> QED BY <1>1, <1>7, <2>2
<1>9. \A x : x \in SeatSet(left) <=> x \in SeatSet(seats) /\ x # seats[i]
  <2>1. ASSUME NEW x, x \in SeatSet(left)
        PROVE  x \in SeatSet(seats) /\ x # seats[i]
    <3>1. PICK j \in 1..(Len(seats) - 1) : x = left[j]
      BY <1>7, <2>1 DEF SeatSet
    <3>2. PICK k \in DOMAIN seats : x = seats[k] /\ k # i
      BY <1>1, <1>7, <3>1
    <3> QED BY <3>2 DEF SeatSet, Distinct
  <2>2. ASSUME NEW x, x \in SeatSet(seats), x # seats[i]
        PROVE  x \in SeatSet(left)
    <3>1. PICK k \in 1..Len(seats) : x = seats[k] /\ k # i
      BY <1>1, <2>2 DEF SeatSet
    <3>2. CASE k < i
      <4>1. k \in 1..(Len(seats) - 1) /\ left[k] = x
        BY <1>1, <1>7, <3>1, <3>2
      <4> QED BY <1>7, <4>1 DEF SeatSet
    <3>3. CASE k > i
      <4>1. k - 1 \in 1..(Len(seats) - 1) /\ left[k - 1] = x
        BY <1>1, <1>7, <3>1, <3>3
      <4> QED BY <1>7, <4>1 DEF SeatSet
    <3> QED BY <1>1, <3>1, <3>2, <3>3
  <2> QED BY <2>1, <2>2
<1> QED BY <1>7, <1>8, <1>9 DEF left

LEMMA SeatAdded ==
  ASSUME NEW seats \in Seq(Seat), Distinct(seats), NEW a \in Seat,
         \A b \in SeatSet(seats) : b.device # a.device
  PROVE  /\ Append(seats, a) \in Seq(Seat)
         /\ Distinct(Append(seats, a))
         /\ SeatSet(Append(seats, a)) = SeatSet(seats) \cup {a}
<1> DEFINE more == Append(seats, a)
<1>1. /\ more \in Seq(Seat) /\ DOMAIN more = 1..(Len(seats) + 1) /\ Len(seats) \in Nat
      /\ DOMAIN seats = 1..Len(seats)
      /\ \A j \in 1..Len(seats) : more[j] = seats[j]
      /\ more[Len(seats) + 1] = a
  OBVIOUS
<1> HIDE DEF more
<1>2. \A j \in 1..(Len(seats) + 1) : j \in 1..Len(seats) \/ j = Len(seats) + 1
  BY <1>1
<1>3. Distinct(more)
  BY <1>1, <1>2 DEF Distinct, SeatSet
<1>4. SeatSet(more) = SeatSet(seats) \cup {a}
  BY <1>1, <1>2 DEF SeatSet
<1> QED BY <1>1, <1>3, <1>4 DEF more

\* One seat changes hands, or drops off: its device stays.
LEMMA SeatChanged ==
  ASSUME NEW seats \in Seq(Seat), Distinct(seats), NEW i \in DOMAIN seats,
         NEW a \in Seat, a.device = seats[i].device
  PROVE  /\ [seats EXCEPT ![i] = a] \in Seq(Seat)
         /\ Distinct([seats EXCEPT ![i] = a])
         /\ SeatSet([seats EXCEPT ![i] = a]) = (SeatSet(seats) \ {seats[i]}) \cup {a}
<1> DEFINE new == [seats EXCEPT ![i] = a]
<1>1. /\ new \in Seq(Seat) /\ DOMAIN new = DOMAIN seats
      /\ \A j \in DOMAIN seats : new[j] = IF j = i THEN a ELSE seats[j]
  OBVIOUS
<1> HIDE DEF new
<1>2. Distinct(new)
  BY <1>1 DEF Distinct
<1>3. \A j, k \in DOMAIN seats : seats[j] = seats[k] => j = k
  BY DEF Distinct
<1>4. SeatSet(new) = (SeatSet(seats) \ {seats[i]}) \cup {a}
  BY <1>1, <1>3 DEF SeatSet
<1> QED BY <1>1, <1>2, <1>4 DEF new

-----------------------------------------------------------------------------
(***************************************************************************)
(* One room, changed.                                                      *)
(***************************************************************************)

LEMMA NoTimerTypes == NoTimer \in Timer /\ NoTimer.armed = FALSE /\ NoTimer.id = 0
BY DEF NoTimer, Timer

LEMMA NoReservationTypes == NoReservation \in Reservation /\ NoReservation.socket = None
BY DEF NoReservation, Reservation

LEMMA EmptyRoom ==
  /\ RoomOk(NoRoom) /\ NoRoom.seats = <<>> /\ SeatSet(NoRoom.seats) = {}
  /\ \A d \in Device : NoRoom.reserved[d] = NoReservation
<1>1. /\ NoRoom \in Room /\ NoRoom.seats = <<>>
      /\ \A d \in Device : NoRoom.reserved[d] = NoReservation /\ NoRoom.timers[d] = NoTimer
  <2>1. <<>> \in Seq(Seat)
    OBVIOUS
  <2> QED BY <2>1, NoTimerTypes, NoReservationTypes DEF NoRoom, Room
<1>2. SeatSet(NoRoom.seats) = {}
  BY <1>1 DEF SeatSet
<1>3. Distinct(NoRoom.seats)
  BY <1>1 DEF Distinct
<1> QED BY <1>1, <1>2, <1>3, NoTimerTypes DEF RoomOk, Sound, Hosted

\* What the code asks of a room, in terms of its seats.
LEMMA OnlineMeans ==
  ASSUME NEW R \in Room
  PROVE  /\ SomeoneOnline(R) <=> \E a \in SeatSet(R.seats) : ~a.off
         /\ HostSeatIsLost(R) <=> \A a \in SeatSet(R.seats) : a.socket = R.host =>
                                    a.off /\ R.timers[a.device] = NoTimer
         /\ \A d : Seated(R, d) <=> \E a \in SeatSet(R.seats) : a.device = d
         /\ \A s : Occupies(R, s) <=> \E a \in SeatSet(R.seats) : a.socket = s
         /\ \A d : Offline(R, d) <=> \E a \in SeatSet(R.seats) : a.device = d /\ a.off
BY DEF SomeoneOnline, HostSeatIsLost, Seated, Occupies, Offline, SeatSet

LEMMA SeatTypes ==
  ASSUME NEW R \in Room
  PROVE  /\ SeatSet(R.seats) \subseteq Seat
         /\ R.seats = <<>> <=> SeatSet(R.seats) = {}
         /\ R.seats \in Seq(Seat)
<1>1. R.seats \in Seq(Seat)
  BY DEF Room
<1>2. SeatSet(R.seats) \subseteq Seat
  BY <1>1 DEF SeatSet
<1>3. R.seats = <<>> <=> SeatSet(R.seats) = {}
  <2>1. R.seats # <<>> => 1 \in DOMAIN R.seats
    BY <1>1
  <2>2. R.seats = <<>> => DOMAIN R.seats = {}
    OBVIOUS
  <2> QED BY <2>1, <2>2 DEF SeatSet
<1> QED BY <1>1, <1>2, <1>3

\* The first connected seat is one of the seats.
LEMMA FirstOnlineIsSeated ==
  ASSUME NEW R \in Room, SomeoneOnline(R)
  PROVE  \E a \in SeatSet(R.seats) : a.socket = FirstOnline(R) /\ ~a.off
<1> DEFINE online == {i \in DOMAIN R.seats : ~R.seats[i].off}
<1>1. R.seats \in Seq(Seat)
  BY SeatTypes
<1>2. online \in SUBSET Nat /\ online # {}
  BY <1>1 DEF SomeoneOnline
<1>3. \E i \in online : \A j \in online : i <= j
  <2> HIDE DEF online
  <2> QED BY <1>2, LeastIndex
<1>4. (CHOOSE i \in online : \A j \in online : i <= j) \in online
  <2> HIDE DEF online
  <2> QED BY <1>3
<1> QED BY <1>4 DEF FirstOnline, SeatSet

\* promoteHostAfterLoss leaves a room with a host that can act.
LEMMA HostPromoted ==
  ASSUME NEW R, Sound(R)
  PROVE  LET Q == PromoteHostAfterLoss(R)
         IN RoomOk(Q) /\ Q.seats = R.seats /\ Q.reserved = R.reserved /\ Q.id = R.id /\ Q.timers = R.timers
<1> DEFINE Q == PromoteHostAfterLoss(R)
<1>1. R \in Room
  BY DEF Sound
<1>2. CASE HostSeatIsLost(R) /\ SomeoneOnline(R)
  <2>1. Q = [R EXCEPT !.host = FirstOnline(R)]
    BY <1>2 DEF PromoteHostAfterLoss
  <2>2. PICK a \in SeatSet(R.seats) : a.socket = FirstOnline(R) /\ ~a.off
    BY <1>1, <1>2, FirstOnlineIsSeated
  <2>3. a \in Seat
    BY <1>1, SeatTypes
  <2>4. FirstOnline(R) \in Socket
    BY <2>2, <2>3 DEF Seat
  <2>5. /\ Q \in Room /\ Q.host = FirstOnline(R) /\ Q.seats = R.seats /\ Q.reserved = R.reserved
        /\ Q.timers = R.timers /\ Q.id = R.id
    BY <1>1, <2>1, <2>4 DEF Room
  <2>6. Sound(Q)
    BY <2>5 DEF Sound
  <2>7. Hosted(Q)
    BY <2>2, <2>5 DEF Hosted
  <2> QED BY <2>5, <2>6, <2>7 DEF RoomOk
<1>3. CASE ~(HostSeatIsLost(R) /\ SomeoneOnline(R))
  <2>1. Q = R
    BY <1>3 DEF PromoteHostAfterLoss
  <2>2. Hosted(R)
    BY <1>1, <1>3, OnlineMeans DEF Hosted
  <2> QED BY <2>1, <2>2 DEF RoomOk
<1> QED BY <1>2, <1>3

LEMMA GameAborted ==
  ASSUME NEW R, RoomOk(R)
  PROVE  LET Q == AbortGameIfLowPlayers(R)
         IN RoomOk(Q) /\ Q.seats = R.seats /\ Q.reserved = R.reserved /\ Q.id = R.id /\ Q.timers = R.timers
<1> DEFINE Q == AbortGameIfLowPlayers(R)
<1>1. R \in Room
  BY DEF RoomOk, Sound
<1>2. CASE Q = R
  BY <1>2
<1>3. CASE Q = [R EXCEPT !.status = "lobby"]
  <2>1. /\ Q \in Room /\ Q.host = R.host /\ Q.seats = R.seats /\ Q.reserved = R.reserved
        /\ Q.timers = R.timers /\ Q.id = R.id
    BY <1>1, <1>3 DEF Room
  <2> QED BY <2>1 DEF RoomOk, Sound, Hosted
<1> QED BY <1>2, <1>3 DEF AbortGameIfLowPlayers

\* A seat's timer is cleared and the seat taken out, in either order.
LEMMA SeatTakenOut ==
  ASSUME NEW R, Sound(R), NEW i \in DOMAIN R.seats, NEW Q \in Room,
         Q.seats = RemoveAt(R.seats, i), Q.reserved = R.reserved,
         \A d \in Device : Q.timers[d] = IF d = R.seats[i].device THEN NoTimer ELSE R.timers[d]
  PROVE  /\ Sound(Q)
         /\ SeatSet(Q.seats) = SeatSet(R.seats) \ {R.seats[i]}
         /\ \A a \in SeatSet(Q.seats) : /\ a.device \in Device /\ a.device # R.seats[i].device
                                        /\ a.socket # R.seats[i].socket
                                        /\ Q.timers[a.device] = R.timers[a.device]
<1>1. /\ R.seats \in Seq(Seat) /\ Distinct(R.seats) /\ SeatSet(R.seats) \subseteq Seat
  BY SeatTypes DEF Sound
<1>2. Distinct(Q.seats) /\ SeatSet(Q.seats) = SeatSet(R.seats) \ {R.seats[i]}
  BY <1>1, SeatRemoved
<1>3. \A a \in SeatSet(R.seats) : a # R.seats[i] => a.device # R.seats[i].device
  BY DEF Sound, Distinct, SeatSet
<1>4. R.seats[i] \in SeatSet(R.seats)
  BY DEF SeatSet
<1>5. \A a \in SeatSet(Q.seats) : /\ a.device \in Device /\ a.device # R.seats[i].device
                                  /\ a.socket # R.seats[i].socket
                                  /\ Q.timers[a.device] = R.timers[a.device]
  BY <1>1, <1>2, <1>3, <1>4 DEF Sound, Seat
<1>6. Sound(Q)
  BY <1>2, NoTimerTypes DEF Sound
<1> QED BY <1>2, <1>5, <1>6

-----------------------------------------------------------------------------
(***************************************************************************)
(* The table of rooms, changed in one place.                               *)
(***************************************************************************)

Replaced(rs, rt, r, Q) == rt = [rs EXCEPT ![r] = Q]

\* A room gives way to one of the same devices, or fewer.
LEMMA RoomReplaced ==
  ASSUME NEW rs, Table(rs), NEW r \in RoomId, NEW Q, RoomOk(Q), NEW rt, Replaced(rs, rt, r, Q),
         \A b \in SeatSet(Q.seats) : \E a \in SeatSet(rs[r].seats) : a.device = b.device,
         \A d \in Device : Q.reserved[d] # NoReservation =>
           rs[r].reserved[d] # NoReservation /\ Q.reserved[d].socket = rs[r].reserved[d].socket
  PROVE  Table(rt) /\ rt[r] = Q /\ \A q \in RoomId : q # r => rt[q] = rs[q]
<1>2. Q \in Room /\ rs \in [RoomId -> Room]
  BY DEF RoomOk, Sound, Table
<1>3. /\ rt \in [RoomId -> Room] /\ rt[r] = Q
      /\ \A q \in RoomId : q # r => rt[q] = rs[q]
  BY <1>2 DEF Replaced
<1>4. \A q \in RoomId : RoomOk(rt[q])
  BY <1>3 DEF Table
<1>5. \A p, q \in RoomId : \A a \in SeatSet(rt[p].seats), b \in SeatSet(rt[q].seats) :
        a.device = b.device => p = q
  <2>1. \A q \in RoomId : \A b \in SeatSet(rt[q].seats) :
          \E a \in SeatSet(rs[q].seats) : a.device = b.device
    BY <1>3
  <2> QED BY <2>1 DEF Table
<1>6. \A q \in RoomId, d \in Device : rt[q].reserved[d] # NoReservation =>
        rs[q].reserved[d] # NoReservation /\ rt[q].reserved[d].socket = rs[q].reserved[d].socket
  BY <1>3
<1>7. \A p, q \in RoomId, d, e \in Device :
        /\ rt[p].reserved[d] # NoReservation /\ rt[q].reserved[e] # NoReservation
        /\ rt[p].reserved[d].socket = rt[q].reserved[e].socket
        => p = q /\ d = e
  BY <1>6 DEF Table
<1> QED BY <1>3, <1>4, <1>5, <1>7 DEF Table

\* A room gives way to one that has only lost seats, or reservations.
LEMMA RoomThinned ==
  ASSUME NEW rs, Table(rs), NEW r \in RoomId, NEW Q, RoomOk(Q), NEW rt, Replaced(rs, rt, r, Q),
         SeatSet(Q.seats) \subseteq SeatSet(rs[r].seats),
         \A d \in Device : Q.reserved[d] \in {rs[r].reserved[d], NoReservation}
  PROVE  /\ Table(rt) /\ Thinner(rs, rt) /\ rt[r] = Q
         /\ \A q \in RoomId : q # r => rt[q] = rs[q]
<1>1. Table(rt) /\ rt[r] = Q /\ \A q \in RoomId : q # r => rt[q] = rs[q]
  BY RoomReplaced
<1>2. Thinner(rs, rt)
  BY <1>1 DEF Thinner
<1> QED BY <1>1, <1>2

LEMMA RoomDeleted ==
  ASSUME NEW rs, Table(rs), NEW r \in RoomId, NEW rt, rt = DeleteRoom(rs, r)
  PROVE  /\ Table(rt) /\ Thinner(rs, rt) /\ rt[r] = NoRoom
         /\ \A q \in RoomId : q # r => rt[q] = rs[q]
<1>1. Replaced(rs, rt, r, NoRoom)
  BY DEF DeleteRoom, Replaced
<1>2. /\ SeatSet(NoRoom.seats) \subseteq SeatSet(rs[r].seats)
      /\ \A d \in Device : NoRoom.reserved[d] \in {rs[r].reserved[d], NoReservation}
  BY EmptyRoom
<1> QED BY <1>1, <1>2, EmptyRoom, RoomThinned

\* What is left of a room is what another room's steps leave of it.
Gone(rs, rt, r) == /\ Table(rt) /\ Thinner(rs, rt)
                   /\ \A q \in RoomId : q # r => rt[q] = rs[q]

LEMMA TimerCleared ==
  ASSUME NEW R \in Room, NEW d \in Device
  PROVE  LET Q == ClearDisconnectTimer(R, d)
         IN /\ Q \in Room /\ Q.seats = R.seats /\ Q.reserved = R.reserved /\ Q.host = R.host /\ Q.id = R.id
            /\ \A e \in Device : Q.timers[e] = IF e = d THEN NoTimer ELSE R.timers[e]
<1> DEFINE Q == ClearDisconnectTimer(R, d)
<1>1. Q = [R EXCEPT !.timers = [R.timers EXCEPT ![d] = NoTimer], !.nonce = [R.nonce EXCEPT ![d] = 0]]
  BY DEF ClearDisconnectTimer, Room
<1>2. R.timers \in [Device -> Timer] /\ R.nonce \in [Device -> Nat]
  BY DEF Room
<1>3. /\ [R.timers EXCEPT ![d] = NoTimer] \in [Device -> Timer]
      /\ [R.nonce EXCEPT ![d] = 0] \in [Device -> Nat]
      /\ \A e \in Device : [R.timers EXCEPT ![d] = NoTimer][e] = IF e = d THEN NoTimer ELSE R.timers[e]
  BY <1>2, NoTimerTypes
<1>4. PICK timers \in [Device -> Timer], nonce \in [Device -> Nat] :
        /\ Q = [R EXCEPT !.timers = timers, !.nonce = nonce]
        /\ \A e \in Device : timers[e] = IF e = d THEN NoTimer ELSE R.timers[e]
  BY <1>1, <1>3
<1> HIDE DEF Q
<1>5. /\ Q \in Room /\ Q.seats = R.seats /\ Q.reserved = R.reserved /\ Q.host = R.host /\ Q.id = R.id
      /\ Q.timers = timers
  BY <1>4 DEF Room
<1> QED BY <1>4, <1>5 DEF Q

\* expireDisconnectedSeat.
LEMMA SeatExpired ==
  ASSUME NEW rs, Table(rs), NEW r \in RoomId, NEW d \in Device
  PROVE  LET rt == ExpireDisconnectedSeat(rs, r, d)
         IN /\ Gone(rs, rt, r)
            /\ \/ rt[r] = NoRoom
               \/ /\ rt[r].reserved = rs[r].reserved
                  /\ \A a \in SeatSet(rs[r].seats) : a.device # d => a \in SeatSet(rt[r].seats)
<1> DEFINE rt == ExpireDisconnectedSeat(rs, r, d)
           stopped == ClearDisconnectTimer(rs[r], d)
           left == WithoutSeat(stopped, d)
<1>1. RoomOk(rs[r]) /\ Sound(rs[r]) /\ rs[r] \in Room
  BY DEF Table, RoomOk
<1>2. /\ stopped \in Room /\ stopped.seats = rs[r].seats /\ stopped.reserved = rs[r].reserved
      /\ stopped.host = rs[r].host
      /\ \A e \in Device : stopped.timers[e] = IF e = d THEN NoTimer ELSE rs[r].timers[e]
  BY <1>1, TimerCleared
<1> HIDE DEF stopped
<1>3. CASE ~Seated(rs[r], d)
  <2>1. \A a \in SeatSet(rs[r].seats) : a.device \in Device /\ a.device # d
    BY <1>1, <1>3, OnlineMeans, SeatTypes DEF Seat
  <2>2. RoomOk(stopped)
    BY <1>1, <1>2, <2>1, NoTimerTypes DEF RoomOk, Sound, Hosted
  <2>3. Replaced(rs, rt, r, stopped)
    BY <1>3 DEF ExpireDisconnectedSeat, Replaced, stopped
  <2> HIDE DEF rt
  <2>4. Table(rt) /\ Thinner(rs, rt) /\ rt[r] = stopped /\ \A q \in RoomId : q # r => rt[q] = rs[q]
    BY <1>2, <2>2, <2>3, RoomThinned
  <2> QED BY <1>2, <2>4 DEF Gone, rt
<1>4. CASE Seated(rs[r], d)
  <2> DEFINE i == SeatNo(stopped, d)
  <2>1. i \in DOMAIN rs[r].seats /\ rs[r].seats[i].device = d
    BY <1>2, <1>4 DEF SeatNo, Seated
  <2> HIDE DEF i
  <2>2. left = [stopped EXCEPT !.seats = RemoveAt(rs[r].seats, i)]
    BY <1>2 DEF WithoutSeat, i
  <2>3. rs[r].seats \in Seq(Seat) /\ Distinct(rs[r].seats)
    BY <1>1, SeatTypes DEF Sound
  <2>4. RemoveAt(rs[r].seats, i) \in Seq(Seat)
    BY <2>1, <2>3, SeatRemoved
  <2> HIDE DEF left
  <2>5. /\ left \in Room /\ left.seats = RemoveAt(rs[r].seats, i) /\ left.reserved = rs[r].reserved
        /\ left.timers = stopped.timers
    BY <1>2, <2>2, <2>4 DEF Room
  <2>6. Sound(left) /\ SeatSet(left.seats) = SeatSet(rs[r].seats) \ {rs[r].seats[i]}
    BY <1>1, <1>2, <2>1, <2>5, SeatTakenOut
  <2> DEFINE promoted == PromoteHostAfterLoss(left)
             Q == AbortGameIfLowPlayers(promoted)
  <2>7. RoomOk(promoted) /\ promoted.seats = left.seats /\ promoted.reserved = left.reserved
    BY <2>6, HostPromoted
  <2> HIDE DEF promoted
  <2>8. RoomOk(Q) /\ Q.seats = left.seats /\ Q.reserved = rs[r].reserved
    BY <2>5, <2>7, GameAborted
  <2>9. rt = DeleteRoom(rs, r) \/ Replaced(rs, rt, r, Q)
    BY <1>4 DEF ExpireDisconnectedSeat, Replaced, stopped, left, promoted
  <2> HIDE DEF Q, rt
  <2>10. CASE rt = DeleteRoom(rs, r)
    BY <2>10, RoomDeleted DEF Gone, rt
  <2>11. CASE Replaced(rs, rt, r, Q)
    <3>1. SeatSet(Q.seats) \subseteq SeatSet(rs[r].seats)
      BY <2>6, <2>8
    <3>2. Table(rt) /\ Thinner(rs, rt) /\ rt[r] = Q /\ \A q \in RoomId : q # r => rt[q] = rs[q]
      BY <2>8, <2>11, <3>1, RoomThinned
    <3>3. \A a \in SeatSet(rs[r].seats) : a.device # d => a \in SeatSet(rt[r].seats)
      BY <2>1, <2>6, <2>8, <3>2
    <3> QED BY <2>8, <3>2, <3>3 DEF Gone, rt
  <2> QED BY <2>9, <2>10, <2>11
<1> QED BY <1>3, <1>4

\* releaseReservation: nothing is reserved for the socket any more, and a seat
\* that goes with it is not reserved either.
LEMMA ReservationReleased ==
  ASSUME NEW rs, Table(rs), NEW s \in Socket
  PROVE  LET rt == ReleaseReservation(rs, s)
         IN /\ Table(rt) /\ Thinner(rs, rt)
            /\ \A r \in RoomId, d \in Device : rt[r].reserved[d].socket # s
            /\ \A r \in RoomId : \A a \in SeatSet(rs[r].seats) :
                 a \notin SeatSet(rt[r].seats) => rt[r].reserved[a.device] = NoReservation
<1> DEFINE rt == ReleaseReservation(rs, s)
           held == {rd \in RoomId \X Device : rs[rd[1]].reserved[rd[2]].socket = s}
<1>1. s # None
  BY NoneAssumption
<1>2. CASE held = {}
  <2>1. rt = rs
    BY <1>2 DEF ReleaseReservation
  <2>2. \A r \in RoomId, d \in Device : rs[r].reserved[d].socket # s
    <3> TAKE r \in RoomId, d \in Device
    <3>1. <<r, d>> \in RoomId \X Device /\ <<r, d>>[1] = r /\ <<r, d>>[2] = d
      OBVIOUS
    <3>2. <<r, d>> \notin held
      BY <1>2
    <3> QED BY <3>1, <3>2
  <2> QED BY SMTT(30), <2>1, <2>2 DEF Thinner
<1>3. CASE held # {}
  <2> DEFINE rd == CHOOSE x \in held : TRUE
             r == rd[1]
             d == rd[2]
             freed == [rs EXCEPT ![r].reserved[d] = NoReservation]
             Q == [rs[r] EXCEPT !.reserved = [rs[r].reserved EXCEPT ![d] = NoReservation]]
  <2>1. rd \in held
    BY <1>3
  <2>2. r \in RoomId /\ d \in Device /\ rs[r].reserved[d].socket = s
    <3> HIDE DEF rd
    <3> QED BY SMTT(30), <2>1
  <2>3. rt = freed \/ rt = ExpireDisconnectedSeat(freed, r, d)
    BY <1>3 DEF ReleaseReservation
  <2> HIDE DEF rd, r, d, held
  <2>4. rs[r] \in Room /\ RoomOk(rs[r]) /\ rs \in [RoomId -> Room]
    BY <2>2 DEF Table, RoomOk, Sound
  <2>5. /\ Q \in Room /\ Q.seats = rs[r].seats /\ Q.host = rs[r].host /\ Q.timers = rs[r].timers
        /\ \A e \in Device : Q.reserved[e] = IF e = d THEN NoReservation ELSE rs[r].reserved[e]
    <3>1. rs[r].reserved \in [Device -> Reservation]
      BY <2>4 DEF Room
    <3>2. /\ [rs[r].reserved EXCEPT ![d] = NoReservation] \in [Device -> Reservation]
          /\ \A e \in Device : [rs[r].reserved EXCEPT ![d] = NoReservation][e] =
                                 IF e = d THEN NoReservation ELSE rs[r].reserved[e]
      BY <3>1, NoReservationTypes
    <3>3. PICK f \in [Device -> Reservation] :
            /\ Q = [rs[r] EXCEPT !.reserved = f]
            /\ \A e \in Device : f[e] = IF e = d THEN NoReservation ELSE rs[r].reserved[e]
      BY <3>2
    <3>4. /\ Q \in Room /\ Q.seats = rs[r].seats /\ Q.host = rs[r].host /\ Q.timers = rs[r].timers
          /\ Q.reserved = f
      BY <2>4, <3>3 DEF Room
    <3> QED BY <3>3, <3>4
  <2>6. Replaced(rs, freed, r, Q)
    BY <2>2, <2>4 DEF Replaced, Room
  <2> HIDE DEF Q, freed
  <2>7. RoomOk(Q)
    BY <2>4, <2>5 DEF RoomOk, Sound, Hosted
  <2>8. /\ Table(freed) /\ Thinner(rs, freed) /\ freed[r] = Q
        /\ \A q \in RoomId : q # r => freed[q] = rs[q]
    <3>1. /\ SeatSet(Q.seats) \subseteq SeatSet(rs[r].seats)
          /\ \A e \in Device : Q.reserved[e] \in {rs[r].reserved[e], NoReservation}
      BY <2>5
    <3> QED BY <2>2, <2>6, <2>7, <3>1, RoomThinned
  <2>9. \A q \in RoomId, e \in Device : freed[q].reserved[e].socket # s
    <3> SUFFICES ASSUME NEW q \in RoomId, NEW e \in Device, freed[q].reserved[e].socket = s
                 PROVE  FALSE
      OBVIOUS
    <3>1. freed[q].reserved[e] = rs[q].reserved[e] /\ rs[q].reserved[e].socket = s
      BY <1>1, <2>5, <2>8, NoReservationTypes
    <3>2. rs[q].reserved[e] # NoReservation /\ rs[r].reserved[d] # NoReservation
      BY <1>1, <2>2, <3>1, NoReservationTypes
    <3>3. q = r /\ e = d
      BY <2>2, <3>1, <3>2 DEF Table
    <3> QED BY <1>1, <2>5, <2>8, <3>3, NoReservationTypes
  <2>10. CASE rt = freed
    <3>1. \A q \in RoomId : SeatSet(freed[q].seats) = SeatSet(rs[q].seats)
      BY <2>5, <2>8
    <3> QED BY <2>8, <2>9, <2>10, <3>1
  <2>11. CASE rt = ExpireDisconnectedSeat(freed, r, d)
    <3> HIDE DEF rt
    <3>1. /\ Gone(freed, rt, r)
          /\ \/ rt[r] = NoRoom
             \/ /\ rt[r].reserved = freed[r].reserved
                /\ \A a \in SeatSet(freed[r].seats) : a.device # d => a \in SeatSet(rt[r].seats)
      BY <2>2, <2>8, <2>11, SeatExpired
    <3>2. Table(rt) /\ Thinner(freed, rt) /\ \A q \in RoomId : q # r => rt[q] = rs[q]
      BY <2>8, <3>1 DEF Gone
    <3>3. Thinner(rs, rt)
      BY <2>8, <3>2 DEF Thinner
    <3>4. \A q \in RoomId, e \in Device : rt[q].reserved[e].socket # s
      BY <1>1, <2>9, <3>2, NoReservationTypes DEF Thinner
    <3>5. ASSUME NEW q \in RoomId, NEW a \in SeatSet(rs[q].seats), a \notin SeatSet(rt[q].seats)
          PROVE  rt[q].reserved[a.device] = NoReservation
      <4>1. q = r
        BY <3>2, <3>5
      <4>2. a \in SeatSet(freed[r].seats) /\ a.device \in Device
        <5>1. a \in Seat
          BY <2>4, <3>5, <4>1, SeatTypes
        <5> QED BY <2>5, <2>8, <3>5, <4>1, <5>1 DEF Seat
      <4>3. CASE rt[r] = NoRoom
        BY <4>1, <4>2, <4>3, EmptyRoom
      <4>4. CASE a.device = d /\ rt[r].reserved = freed[r].reserved
        BY <2>2, <2>5, <2>8, <4>1, <4>4
      <4> QED BY <3>1, <3>5, <4>1, <4>2, <4>3, <4>4
    <3> QED BY <3>2, <3>3, <3>4, <3>5 DEF rt
  <2> QED BY SMTT(30), <2>3, <2>10, <2>11
<1> QED BY <1>2, <1>3

\* handlePlayerLeave, explicit: the socket's seat goes, and with it perhaps the
\* room; the other seats stay as they are.
LEMMA SeatLeft ==
  ASSUME NEW rs, Table(rs), NEW r \in RoomId, NEW s, Occupies(rs[r], s)
  PROVE  LET rt == LeaveSeat(rs, r, s)
         IN /\ Gone(rs, rt, r)
            /\ \A a \in SeatSet(rt[r].seats) : a.socket # s
            /\ \/ rt[r] = NoRoom
               \/ /\ rt[r].reserved = rs[r].reserved
                  /\ \A a \in SeatSet(rs[r].seats) : a.socket # s => a \in SeatSet(rt[r].seats)
<1> DEFINE rt == LeaveSeat(rs, r, s)
           i == CHOOSE k \in DOMAIN rs[r].seats : rs[r].seats[k].socket = s
           d == rs[r].seats[i].device
           cut == [rs[r] EXCEPT !.seats = RemoveAt(@, i)]
           left == ClearDisconnectTimer(cut, d)
           handed == IF left.host = s THEN [left EXCEPT !.host = FirstOnline(left)] ELSE left
           Q == AbortGameIfLowPlayers(handed)
<1>1. RoomOk(rs[r]) /\ Sound(rs[r]) /\ rs[r] \in Room
  BY DEF Table, RoomOk
<1>2. i \in DOMAIN rs[r].seats /\ rs[r].seats[i].socket = s
  BY SMTT(30) DEF Occupies
<1>3. \/ rt = DeleteRoom(rs, r)
      \/ Replaced(rs, rt, r, Q) /\ (left.host = s => SomeoneOnline(left))
  BY DEF LeaveSeat, Replaced
<1> HIDE DEF i
<1>4. rs[r].seats \in Seq(Seat) /\ Distinct(rs[r].seats) /\ d \in Device
  <2>1. rs[r].seats \in Seq(Seat) /\ Distinct(rs[r].seats)
    BY <1>1, SeatTypes DEF Sound
  <2>2. rs[r].seats[i] \in Seat
    BY <1>2, <2>1
  <2> QED BY <2>1, <2>2 DEF Seat
<1>5. RemoveAt(rs[r].seats, i) \in Seq(Seat)
  BY <1>2, <1>4, SeatRemoved
<1>6. /\ cut \in Room /\ cut.seats = RemoveAt(rs[r].seats, i) /\ cut.reserved = rs[r].reserved
      /\ cut.timers = rs[r].timers /\ cut.host = rs[r].host
  BY <1>1, <1>5 DEF Room
<1> HIDE DEF cut, d
<1>7. /\ left \in Room /\ left.seats = RemoveAt(rs[r].seats, i) /\ left.reserved = rs[r].reserved
      /\ left.host = rs[r].host
      /\ \A e \in Device : left.timers[e] = IF e = d THEN NoTimer ELSE rs[r].timers[e]
  BY <1>4, <1>6, TimerCleared
<1> HIDE DEF left
<1>8. /\ Sound(left) /\ SeatSet(left.seats) = SeatSet(rs[r].seats) \ {rs[r].seats[i]}
      /\ \A a \in SeatSet(left.seats) : /\ a.device \in Device /\ a.socket # s
                                        /\ left.timers[a.device] = rs[r].timers[a.device]
  BY <1>1, <1>2, <1>7, SeatTakenOut DEF d
<1>9. CASE rt = DeleteRoom(rs, r)
  <2> HIDE DEF rt
  <2> QED BY <1>9, RoomDeleted, EmptyRoom DEF Gone, rt
<1>10. CASE Replaced(rs, rt, r, Q) /\ (left.host = s => SomeoneOnline(left))
  <2>1. RoomOk(handed) /\ handed.seats = left.seats /\ handed.reserved = left.reserved
    <3>1. CASE left.host = s
      <4>1. PICK a \in SeatSet(left.seats) : a.socket = FirstOnline(left) /\ ~a.off
        BY <1>7, <1>10, <3>1, FirstOnlineIsSeated
      <4>2. FirstOnline(left) \in Socket
        BY <1>7, <4>1, SeatTypes DEF Seat
      <4>3. /\ handed \in Room /\ handed.host = FirstOnline(left) /\ handed.seats = left.seats
            /\ handed.timers = left.timers /\ handed.reserved = left.reserved
        BY <1>7, <3>1, <4>2 DEF Room
      <4> HIDE DEF handed
      <4> QED BY <1>8, <4>1, <4>3 DEF RoomOk, Sound, Hosted
    <3>2. CASE left.host # s
      <4>1. handed = left
        BY <3>2
      <4>2. Hosted(left)
        <5> SUFFICES ASSUME NEW b \in SeatSet(left.seats), ~b.off
                     PROVE  \E a \in SeatSet(left.seats) :
                              a.socket = left.host /\ (~a.off \/ left.timers[a.device] # NoTimer)
          BY DEF Hosted
        <5>1. PICK a \in SeatSet(rs[r].seats) :
                a.socket = rs[r].host /\ (~a.off \/ rs[r].timers[a.device] # NoTimer)
          BY <1>1, <1>8 DEF RoomOk, Hosted
        <5>2. a \in SeatSet(left.seats)
          BY <1>2, <1>7, <1>8, <3>2, <5>1
        <5> QED BY <1>7, <1>8, <5>1, <5>2
      <4> QED BY <1>8, <4>1, <4>2 DEF RoomOk
    <3> QED BY <3>1, <3>2
  <2> HIDE DEF handed
  <2>2. RoomOk(Q) /\ Q.seats = left.seats /\ Q.reserved = rs[r].reserved
    BY <1>7, <2>1, GameAborted
  <2> HIDE DEF Q, rt
  <2>3. SeatSet(Q.seats) \subseteq SeatSet(rs[r].seats)
    BY <1>8, <2>2
  <2>4. Table(rt) /\ Thinner(rs, rt) /\ rt[r] = Q /\ \A q \in RoomId : q # r => rt[q] = rs[q]
    BY <1>10, <2>2, <2>3, RoomThinned
  <2>5. \A a \in SeatSet(rt[r].seats) : a.socket # s
    BY <1>8, <2>2, <2>4
  <2>6. \A a \in SeatSet(rs[r].seats) : a.socket # s => a \in SeatSet(rt[r].seats)
    BY <1>2, <1>8, <2>2, <2>4
  <2> QED BY <2>2, <2>4, <2>5, <2>6 DEF Gone, rt
<1> QED BY <1>3, <1>9, <1>10

\* handlePlayerLeave, disconnect: the socket's seat drops off and keeps its
\* device, unless the room goes.
LEMMA SeatDropped ==
  ASSUME NEW rs, Table(rs), NEW r \in RoomId, NEW s, Occupies(rs[r], s), FreshId \in Nat \ {0}
  PROVE  LET rt == DropSeat(rs, r, s)
         IN /\ Table(rt) /\ \A q \in RoomId : q # r => rt[q] = rs[q]
            /\ \/ rt[r] = NoRoom
               \/ /\ rt[r].reserved = rs[r].reserved
                  /\ \A a \in SeatSet(rt[r].seats) :
                       (a \in SeatSet(rs[r].seats) /\ a.socket # s) \/ (a.socket = s /\ a.off)
                  /\ \A a \in SeatSet(rs[r].seats) : \E b \in SeatSet(rt[r].seats) : b.device = a.device
<1> DEFINE rt == DropSeat(rs, r, s)
           R == rs[r]
           i == CHOOSE k \in DOMAIN rs[r].seats : rs[r].seats[k].socket = s
           seat == rs[r].seats[i]
           d == rs[r].seats[i].device
           dropped == [rs[r] EXCEPT !.seats[i].off = TRUE]
           kept == [dropped EXCEPT !.timers[d] = [id |-> FreshId, armed |-> TRUE], !.nonce[d] = FreshId]
           promoted == PromoteHostAfterLoss(dropped)
<1>1. RoomOk(R) /\ Sound(R) /\ R \in Room /\ R.seats \in Seq(Seat) /\ Distinct(R.seats)
  BY SeatTypes DEF Table, RoomOk, Sound
<1>2. i \in DOMAIN R.seats /\ seat.socket = s
  BY SMTT(30) DEF Occupies
<1>3. \/ rt = DeleteRoom(rs, r)
      \/ Replaced(rs, rt, r, kept) \/ Replaced(rs, rt, r, promoted)
  BY DEF DropSeat, Replaced
<1> HIDE DEF i, rt
<1> DEFINE gone == [seat EXCEPT !.off = TRUE]
           seats == [R.seats EXCEPT ![i] = gone]
<1>4. /\ seat \in Seat /\ gone \in Seat /\ gone.device = d /\ gone.socket = s /\ gone.off
      /\ d \in Device /\ seat \in SeatSet(R.seats) /\ DeviceOf[s] = d
  <2>1. seat \in Seat
    BY <1>1, <1>2
  <2>2. seat \in SeatSet(R.seats)
    BY <1>2 DEF SeatSet
  <2> QED BY <1>1, <1>2, <2>1, <2>2 DEF Seat, Sound
<1>5. dropped = [R EXCEPT !.seats = seats]
  <2>1. R.seats[i] = seat
    OBVIOUS
  <2> QED BY <1>1, <1>2, <2>1 DEF Room
<1>6. seats \in Seq(Seat) /\ Distinct(seats) /\ SeatSet(seats) = (SeatSet(R.seats) \ {seat}) \cup {gone}
  <2> HIDE DEF gone
  <2> QED BY SMTT(30), <1>1, <1>2, <1>4, SeatChanged
<1> HIDE DEF seats, gone, dropped
<1>7. /\ dropped \in Room /\ dropped.seats = seats /\ dropped.timers = R.timers /\ dropped.nonce = R.nonce
      /\ dropped.host = R.host /\ dropped.reserved = R.reserved
  <2> HIDE DEF R
  <2> QED BY <1>1, <1>5, <1>6 DEF Room
<1>8. Sound(dropped)
  BY <1>1, <1>4, <1>6, <1>7 DEF Sound
<1>9. \A a \in SeatSet(R.seats) : a # seat => a.socket # s
  BY <1>1, <1>2, <1>4 DEF Sound, Distinct, SeatSet
<1>10. ASSUME NEW Q, RoomOk(Q), Q.seats = seats, Q.reserved = R.reserved, Replaced(rs, rt, r, Q)
       PROVE  /\ Table(rt) /\ \A q \in RoomId : q # r => rt[q] = rs[q]
              /\ rt[r].reserved = rs[r].reserved
              /\ \A a \in SeatSet(rt[r].seats) :
                   (a \in SeatSet(rs[r].seats) /\ a.socket # s) \/ (a.socket = s /\ a.off)
              /\ \A a \in SeatSet(rs[r].seats) : \E b \in SeatSet(rt[r].seats) : b.device = a.device
  <2>1. \A b \in SeatSet(Q.seats) : \E a \in SeatSet(rs[r].seats) : a.device = b.device
    BY <1>4, <1>6, <1>10
  <2>2. Table(rt) /\ rt[r] = Q /\ \A q \in RoomId : q # r => rt[q] = rs[q]
    BY <1>10, <2>1, RoomReplaced
  <2>3. \A a \in SeatSet(rt[r].seats) :
          (a \in SeatSet(rs[r].seats) /\ a.socket # s) \/ (a.socket = s /\ a.off)
    BY <1>4, <1>6, <1>9, <1>10, <2>2
  <2>4. \A a \in SeatSet(rs[r].seats) : \E b \in SeatSet(rt[r].seats) : b.device = a.device
    BY <1>4, <1>6, <1>10, <2>2
  <2> QED BY <1>10, <2>2, <2>3, <2>4
<1>11. CASE rt = DeleteRoom(rs, r)
  BY <1>11, RoomDeleted DEF rt
<1>12. CASE Replaced(rs, rt, r, kept)
  <2> DEFINE timers == [dropped.timers EXCEPT ![d] = [id |-> FreshId, armed |-> TRUE]]
             nonce == [dropped.nonce EXCEPT ![d] = FreshId]
  <2>1. kept = [dropped EXCEPT !.timers = timers, !.nonce = nonce]
    BY <1>7 DEF Room
  <2>2. [id |-> FreshId, armed |-> TRUE] \in Timer /\ [id |-> FreshId, armed |-> TRUE] # NoTimer
    BY DEF Timer, NoTimer
  <2>3. /\ timers \in [Device -> Timer] /\ nonce \in [Device -> Nat]
        /\ timers[d] # NoTimer /\ timers[d].id # 0
        /\ \A e \in Device : e # d => timers[e] = R.timers[e]
    BY <1>4, <1>7, <2>2 DEF Room
  <2> HIDE DEF timers, nonce, d, kept
  <2>4. /\ kept \in Room /\ kept.seats = seats /\ kept.timers = timers /\ kept.reserved = R.reserved
        /\ kept.host = R.host
    BY <1>7, <2>1, <2>3 DEF Room
  <2>5. Sound(kept)
    BY <1>7, <1>8, <2>3, <2>4 DEF Sound
  <2>6. Hosted(kept)
    <3> SUFFICES ASSUME NEW b \in SeatSet(seats), ~b.off
                 PROVE  \E a \in SeatSet(seats) : a.socket = R.host /\ (~a.off \/ timers[a.device] # NoTimer)
      BY <2>4 DEF Hosted
    <3>1. b \in SeatSet(R.seats)
      BY <1>4, <1>6
    <3>2. PICK a \in SeatSet(R.seats) : a.socket = R.host /\ (~a.off \/ R.timers[a.device] # NoTimer)
      BY <1>1, <3>1 DEF RoomOk, Hosted
    <3>3. CASE a = seat
      BY <1>2, <1>4, <1>6, <2>3, <3>2, <3>3 DEF d
    <3>4. CASE a # seat
      <4>1. a \in SeatSet(seats) /\ a.device \in Device
        BY <1>1, <1>6, <3>4, SeatTypes DEF Seat
      <4>2. a.device = d => timers[a.device] # NoTimer
        BY <2>3
      <4> QED BY <2>3, <3>2, <4>1, <4>2
    <3> QED BY <3>3, <3>4
  <2> QED BY <1>10, <1>12, <2>4, <2>5, <2>6 DEF RoomOk, rt
<1>13. CASE Replaced(rs, rt, r, promoted)
  <2>1. RoomOk(promoted) /\ promoted.seats = seats /\ promoted.reserved = R.reserved
    BY <1>7, <1>8, HostPromoted
  <2> HIDE DEF promoted
  <2> QED BY <1>10, <1>13, <2>1 DEF rt
<1> QED BY <1>3, <1>11, <1>12, <1>13

\* The device's seat passes to another of its connections.
LEMMA SeatRetaken ==
  ASSUME NEW R, RoomOk(R), NEW s \in Socket, Seated(R, DeviceOf[s])
  PROVE  LET Q == RetakeSeat(R, s)
             d == DeviceOf[s]
             old == SeatAt(R, SeatNo(R, d))
             new == [device |-> d, socket |-> s, off |-> FALSE]
         IN /\ RoomOk(Q) /\ old \in SeatSet(R.seats) /\ old.device = d
            /\ SeatSet(Q.seats) = (SeatSet(R.seats) \ {old}) \cup {new}
            /\ \A e \in Device : Q.reserved[e] = IF e = d /\ R.reserved[d].socket = s
                                                 THEN NoReservation ELSE R.reserved[e]
<1> DEFINE Q == RetakeSeat(R, s)
           d == DeviceOf[s]
           i == SeatNo(R, d)
           old == R.seats[i]
           new == [device |-> d, socket |-> s, off |-> FALSE]
           taken == [R EXCEPT !.seats[i] = new,
                              !.host = IF @ = old.socket THEN s ELSE @,
                              !.reserved[d] = IF @.socket = s THEN NoReservation ELSE @]
           cleared == ClearDisconnectTimer(taken, d)
<1>1. Sound(R) /\ R \in Room /\ R.seats \in Seq(Seat) /\ Distinct(R.seats)
  BY SeatTypes DEF RoomOk, Sound
<1>2. i \in DOMAIN R.seats /\ old.device = d /\ old \in SeatSet(R.seats)
  <2>1. i \in DOMAIN R.seats /\ R.seats[i].device = d
    BY DEF SeatNo, Seated
  <2> QED BY <2>1 DEF SeatSet
<1>3. Q = PromoteHostAfterLoss(cleared)
  BY DEF RetakeSeat
<1>4. d \in Device /\ new \in Seat /\ new.device = d /\ new.socket = s /\ ~new.off
  BY DeviceAssumption DEF Seat
<1> HIDE DEF i, d, new
<1> DEFINE seats == [R.seats EXCEPT ![i] = new]
           host == IF R.host = old.socket THEN s ELSE R.host
           mine == IF R.reserved[d].socket = s THEN NoReservation ELSE R.reserved[d]
           reserved == [R.reserved EXCEPT ![d] = mine]
<1>5. taken = [R EXCEPT !.seats = seats, !.host = host, !.reserved = reserved]
  BY <1>1 DEF Room
<1>6. seats \in Seq(Seat) /\ Distinct(seats) /\ SeatSet(seats) = (SeatSet(R.seats) \ {old}) \cup {new}
  BY <1>1, <1>2, <1>4, SeatChanged
<1>7. /\ reserved \in [Device -> Reservation] /\ host \in Socket \cup {None}
      /\ \A e \in Device : reserved[e] = IF e = d /\ R.reserved[d].socket = s
                                         THEN NoReservation ELSE R.reserved[e]
  BY <1>1, <1>4, NoReservationTypes DEF Room
<1> HIDE DEF seats, host, mine, reserved, taken
<1>8. /\ taken \in Room /\ taken.seats = seats /\ taken.reserved = reserved /\ taken.timers = R.timers
  BY <1>1, <1>5, <1>6, <1>7 DEF Room
<1> HIDE DEF cleared, old
<1>9. /\ cleared \in Room /\ cleared.seats = seats /\ cleared.reserved = reserved
      /\ \A e \in Device : cleared.timers[e] = IF e = d THEN NoTimer ELSE R.timers[e]
  BY <1>4, <1>8, TimerCleared DEF cleared
<1>10. Sound(cleared)
  <2>1. \A a \in SeatSet(seats) : DeviceOf[a.socket] = a.device
    BY <1>1, <1>4, <1>6 DEF Sound, d
  <2>2. \A e \in Device : reserved[e] # NoReservation =>
          reserved[e].socket \in Socket /\ DeviceOf[reserved[e].socket] = e
    BY <1>1, <1>7 DEF Sound
  <2>3. \A e \in Device : cleared.timers[e].armed => cleared.timers[e].id # 0
    BY <1>1, <1>9, NoTimerTypes DEF Sound
  <2> QED BY <1>6, <1>9, <2>1, <2>2, <2>3 DEF Sound
<1>11. RoomOk(Q) /\ Q.seats = seats /\ Q.reserved = reserved
  BY <1>3, <1>9, <1>10, HostPromoted
<1> HIDE DEF Q
<1> QED BY <1>2, <1>6, <1>7, <1>11 DEF Q, d, old, i, new, SeatAt

\* A fresh seat at the end of a room.
LEMMA SeatTaken ==
  ASSUME NEW R, Sound(R), NEW s \in Socket, \A a \in SeatSet(R.seats) : a.device # DeviceOf[s]
  PROVE  LET Q == NewSeat(R, s)
             new == [device |-> DeviceOf[s], socket |-> s, off |-> FALSE]
         IN /\ RoomOk(Q) /\ Q.reserved = R.reserved
            /\ SeatSet(Q.seats) = SeatSet(R.seats) \cup {new}
<1> DEFINE Q == NewSeat(R, s)
           new == [device |-> DeviceOf[s], socket |-> s, off |-> FALSE]
           seats == Append(R.seats, new)
           more == [R EXCEPT !.seats = seats]
<1>1. R \in Room /\ R.seats \in Seq(Seat) /\ Distinct(R.seats)
  BY SeatTypes DEF Sound
<1>2. new \in Seat /\ new.device = DeviceOf[s] /\ new.socket = s
  BY DeviceAssumption DEF Seat
<1>3. Q = PromoteHostAfterLoss(more)
  BY DEF NewSeat
<1> HIDE DEF new, Q
<1>4. seats \in Seq(Seat) /\ Distinct(seats) /\ SeatSet(seats) = SeatSet(R.seats) \cup {new}
  BY <1>1, <1>2, SeatAdded
<1> HIDE DEF seats
<1>5. more \in Room /\ more.seats = seats /\ more.reserved = R.reserved /\ more.timers = R.timers
  BY <1>1, <1>4 DEF Room
<1> HIDE DEF more
<1>6. Sound(more)
  BY <1>2, <1>4, <1>5 DEF Sound
<1>7. RoomOk(Q) /\ Q.seats = seats /\ Q.reserved = R.reserved
  BY <1>3, <1>5, <1>6, HostPromoted
<1> QED BY <1>4, <1>7 DEF Q, new

-----------------------------------------------------------------------------
(***************************************************************************)
(* The server's state.                                                     *)
(***************************************************************************)

Call == [socket : Socket, room : RoomId, isReconnect : BOOLEAN, current : BOOLEAN,
         reserves : BOOLEAN, roomObject : Nat]

Connections == /\ sock \in [Socket -> {"new", "up", "down"}]
               /\ session \in [Socket -> RoomId \cup {None}]
               /\ channel \in [Socket -> SUBSET RoomId]

\* A seat follows its connection: off when it closed, and else in its session.
LiveSeat(a, r) ==
  IF a.off THEN sock[a.socket] = "down"
  ELSE sock[a.socket] = "up" /\ session[a.socket] = r /\ r \in channel[a.socket]
LiveSeats == \A r \in RoomId : \A a \in SeatSet(rooms[r].seats) : LiveSeat(a, r)

\* One join of a socket is the current one, and what is reserved, it reserves.
OneCurrent == \A j, k \in pending : j.socket = k.socket /\ j.current /\ k.current => j = k
Joins == pending \subseteq Call /\ OneCurrent /\ ReservationIsHeld

SeatInv == Table(rooms) /\ Connections /\ LiveSeats /\ Joins

\* A new timer or room gets an identity that is in use nowhere: the model draws
\* them from Nonce, where the code has the identities of objects.
IdsLeft == \E n \in Nonce : n \notin UsedIds

LEMMA FreshIdIsNew == ASSUME IdsLeft PROVE FreshId \in Nat \ {0}
BY NonceAssumption DEF IdsLeft, FreshId

-----------------------------------------------------------------------------
(***************************************************************************)
(* What a step leaves of the rooms.                                        *)
(***************************************************************************)

\* A seat that is off goes only together with what is reserved for its device.
Spared(rs, rt) ==
  \A r \in RoomId : \A a \in SeatSet(rs[r].seats) :
    a.off /\ a \notin SeatSet(rt[r].seats) => rt[r].reserved[a.device] = NoReservation

\* ReservedSeatKept, of a step that is not a kick.
SeatsKept ==
  \A r \in RoomId, d \in Device :
    Offline(rooms[r], d) /\ ~Seated(rooms[r]', d) => rooms[r]'.reserved[d] = NoReservation

\* No reservation is new.
Held(rs, rt) ==
  \A r \in RoomId, d \in Device : rt[r].reserved[d] # NoReservation =>
    rs[r].reserved[d] # NoReservation /\ rt[r].reserved[d].socket = rs[r].reserved[d].socket

ReservesNothing(rs, s) == \A r \in RoomId, d \in Device : rs[r].reserved[d].socket # s
SitsNowhere(rs, s) == \A r \in RoomId : \A a \in SeatSet(rs[r].seats) : a.socket # s

LEMMA TableSeat ==
  ASSUME NEW rs, Table(rs), NEW r \in RoomId, NEW a \in SeatSet(rs[r].seats)
  PROVE  a \in Seat /\ a.device \in Device /\ a.socket \in Socket /\ DeviceOf[a.socket] = a.device
<1>1. rs[r] \in Room /\ Sound(rs[r])
  BY DEF Table, RoomOk, Sound
<1>2. a \in Seat
  BY <1>1, SeatTypes
<1> QED BY <1>1, <1>2 DEF Seat, Sound

\* The seats of one device, or of one connection, are one seat.
LEMMA SeatIsOne ==
  ASSUME NEW rs, Table(rs), NEW q \in RoomId, NEW r \in RoomId,
         NEW a \in SeatSet(rs[q].seats), NEW b \in SeatSet(rs[r].seats),
         a.device = b.device \/ a.socket = b.socket
  PROVE  q = r /\ a = b
<1>1. a.device = b.device
  BY TableSeat
<1>2. q = r
  BY <1>1 DEF Table
<1>3. Distinct(rs[r].seats)
  BY DEF Table, RoomOk, Sound
<1> QED BY <1>1, <1>2, <1>3 DEF Distinct, SeatSet

LEMMA ThinnerTwice ==
  ASSUME NEW rs, NEW rm, NEW rt, Thinner(rs, rm), Thinner(rm, rt), Spared(rs, rm), Spared(rm, rt),
         Table(rs)
  PROVE  Thinner(rs, rt) /\ Spared(rs, rt)
<1>1. Thinner(rs, rt)
  BY DEF Thinner
<1>2. ASSUME NEW r \in RoomId, NEW a \in SeatSet(rs[r].seats), a.off, a \notin SeatSet(rt[r].seats)
      PROVE  rt[r].reserved[a.device] = NoReservation
  <2>1. a.device \in Device
    BY TableSeat
  <2>2. CASE a \in SeatSet(rm[r].seats)
    BY <1>2, <2>2 DEF Spared
  <2>3. CASE a \notin SeatSet(rm[r].seats)
    <3>1. rm[r].reserved[a.device] = NoReservation
      BY <1>2, <2>3 DEF Spared
    <3> QED BY <2>1, <3>1 DEF Thinner
  <2> QED BY <2>2, <2>3
<1> QED BY <1>1, <1>2 DEF Spared

LEMMA ThinnerIsHeld ==
  ASSUME NEW rs, NEW rt, Thinner(rs, rt)
  PROVE  Held(rs, rt) /\ \A s : ReservesNothing(rs, s) /\ s # None => ReservesNothing(rt, s)
BY NoReservationTypes DEF Thinner, Held, ReservesNothing

LEMMA SparedSeatsKept ==
  ASSUME SeatInv, Table(rooms'), Spared(rooms, rooms')
  PROVE  SeatsKept
<1> SUFFICES ASSUME NEW r \in RoomId, NEW d \in Device, Offline(rooms[r], d), ~Seated(rooms[r]', d)
             PROVE  rooms[r]'.reserved[d] = NoReservation
  BY DEF SeatsKept
<1>1. rooms[r] \in Room /\ rooms'[r] \in Room
  BY DEF SeatInv, Table
<1>2. PICK a \in SeatSet(rooms[r].seats) : a.device = d /\ a.off
  BY <1>1, OnlineMeans
<1>3. a \notin SeatSet(rooms'[r].seats)
  BY <1>1, <1>2, OnlineMeans
<1> QED BY <1>2, <1>3 DEF Spared

\* A connection that is up sits in the room its session names, or nowhere.
LEMMA SitsInSession ==
  ASSUME SeatInv, NEW s \in Socket, sock[s] = "up", NEW r \in RoomId,
         NEW a \in SeatSet(rooms[r].seats), a.socket = s
  PROVE  ~a.off /\ session[s] = r
BY DEF SeatInv, LiveSeats, LiveSeat

\* releaseReservation, of the rooms as they are.
LEMMA Released ==
  ASSUME NEW rs, Table(rs), NEW s \in Socket, NEW rt, rt = ReleaseReservation(rs, s)
  PROVE  Table(rt) /\ Thinner(rs, rt) /\ Spared(rs, rt) /\ ReservesNothing(rt, s)
BY ReservationReleased DEF Spared, ReservesNothing

\* The socket's session ends, and with it the seat it has.
LEMMA SeatGivenUp ==
  ASSUME SeatInv, NEW s \in Socket, sock[s] = "up",
         NEW rs, Table(rs), Thinner(rooms, rs),
         NEW rt, rt = IF HasSeat(rs, s) THEN LeaveSeat(rs, session[s], s) ELSE rs
  PROVE  /\ Table(rt) /\ Thinner(rs, rt) /\ Spared(rs, rt) /\ SitsNowhere(rt, s)
         /\ \A q \in RoomId : q # session[s] => rt[q] = rs[q]
<1>1. \A q \in RoomId : \A a \in SeatSet(rs[q].seats) : a \in SeatSet(rooms[q].seats)
  BY DEF Thinner
<1>2. \A q \in RoomId : \A a \in SeatSet(rs[q].seats) : a.socket = s => ~a.off /\ session[s] = q
  BY <1>1, SitsInSession
<1>3. CASE ~HasSeat(rs, s)
  <2>1. SitsNowhere(rs, s)
    <3> SUFFICES ASSUME NEW q \in RoomId, NEW a \in SeatSet(rs[q].seats), a.socket = s
                 PROVE  FALSE
      BY DEF SitsNowhere
    <3>1. session[s] = q /\ q # None
      BY <1>2, NoneAssumption
    <3>2. rs[q] \in Room
      BY DEF Table
    <3>3. Occupies(rs[q], s)
      BY <3>2, OnlineMeans
    <3> QED BY <1>3, <3>1, <3>3 DEF HasSeat
  <2>2. rt = rs
    BY <1>3
  <2> QED BY <2>1, <2>2 DEF Thinner, Spared
<1>4. CASE HasSeat(rs, s)
  <2> DEFINE r == session[s]
  <2>1. r \in RoomId /\ Occupies(rs[r], s) /\ rt = LeaveSeat(rs, r, s)
    BY <1>4 DEF HasSeat, SeatInv, Connections
  <2> HIDE DEF r
  <2>2. /\ Gone(rs, rt, r)
        /\ \A a \in SeatSet(rt[r].seats) : a.socket # s
        /\ \/ rt[r] = NoRoom
           \/ \A a \in SeatSet(rs[r].seats) : a.socket # s => a \in SeatSet(rt[r].seats)
    BY <2>1, SeatLeft
  <2>3. Table(rt) /\ Thinner(rs, rt) /\ \A q \in RoomId : q # r => rt[q] = rs[q]
    BY <2>2 DEF Gone
  <2>4. SitsNowhere(rt, s)
    BY <1>2, <2>2, <2>3 DEF SitsNowhere, r
  <2>5. ASSUME NEW q \in RoomId, NEW a \in SeatSet(rs[q].seats), a.off, a \notin SeatSet(rt[q].seats)
        PROVE  rt[q].reserved[a.device] = NoReservation
    <3>1. q = r /\ a.socket # s /\ a.device \in Device
      BY <1>2, <2>3, <2>5, TableSeat
    <3>2. rt[r] = NoRoom
      BY <2>2, <2>5, <3>1
    <3> QED BY <3>1, <3>2, EmptyRoom
  <2> QED BY <2>3, <2>4, <2>5 DEF Spared, r
<1> QED BY <1>3, <1>4

\* A room written in place of another, with what is new in it nowhere else.
LEMMA RoomRewritten ==
  ASSUME NEW rs, Table(rs), NEW r \in RoomId, NEW Q, RoomOk(Q), NEW rt, Replaced(rs, rt, r, Q),
         \A b \in SeatSet(Q.seats), q \in RoomId : q # r =>
           \A a \in SeatSet(rs[q].seats) : a.device # b.device,
         \A d \in Device : Q.reserved[d] # NoReservation =>
           \A q \in RoomId, e \in Device : q # r /\ rs[q].reserved[e] # NoReservation =>
             rs[q].reserved[e].socket # Q.reserved[d].socket
  PROVE  Table(rt) /\ rt[r] = Q /\ \A q \in RoomId : q # r => rt[q] = rs[q]
<1>1. Q \in Room /\ Sound(Q) /\ rs \in [RoomId -> Room]
  BY DEF RoomOk, Sound, Table
<1>2. rt \in [RoomId -> Room] /\ rt[r] = Q /\ \A q \in RoomId : q # r => rt[q] = rs[q]
  BY <1>1 DEF Replaced
<1>3. \A q \in RoomId : RoomOk(rt[q])
  BY <1>2 DEF Table
<1>4. \A p, q \in RoomId : \A a \in SeatSet(rt[p].seats), b \in SeatSet(rt[q].seats) :
        a.device = b.device => p = q
  BY <1>2 DEF Table
<1>5. ASSUME NEW p \in RoomId, NEW q \in RoomId, NEW d \in Device, NEW e \in Device,
             rt[p].reserved[d] # NoReservation, rt[q].reserved[e] # NoReservation,
             rt[p].reserved[d].socket = rt[q].reserved[e].socket
      PROVE  p = q /\ d = e
  <2>1. CASE p = r /\ q = r
    BY <1>1, <1>2, <1>5, <2>1 DEF Sound
  <2>2. CASE p # r /\ q # r
    BY <1>2, <1>5, <2>2 DEF Table
  <2>3. CASE p = r /\ q # r
    BY <1>2, <1>5, <2>3
  <2>4. CASE p # r /\ q = r
    BY <1>2, <1>5, <2>4
  <2> QED BY <2>1, <2>2, <2>3, <2>4
<1> QED BY <1>2, <1>3, <1>4, <1>5 DEF Table

-----------------------------------------------------------------------------
(***************************************************************************)
(* Joins that wait.                                                        *)
(***************************************************************************)

LEMMA SupersededMeans ==
  ASSUME pending \subseteq Call, NEW s, NEW P, P = Superseded(s)
  PROVE  /\ P \subseteq Call
         /\ \A j \in P : j.socket = s => ~j.current
         /\ \A j : j.socket # s => (j \in P <=> j \in pending)
<1> DEFINE over(j) == IF j.socket = s THEN [j EXCEPT !.current = FALSE] ELSE j
<1>1. ASSUME NEW j \in pending
      PROVE  over(j) \in Call /\ over(j).socket = j.socket /\ (j.socket = s => ~over(j).current)
  BY DEF Call
<1>2. P = {over(j) : j \in pending}
  BY DEF Superseded
<1>3. \A j : j.socket # s => over(j) = j
  OBVIOUS
<1> HIDE DEF over
<1> QED BY <1>1, <1>2, <1>3

\* A socket's reservation is its current join's, in that join's room.
LEMMA OwnReservation ==
  ASSUME SeatInv, NEW j \in pending, j.current,
         NEW q \in RoomId, NEW e \in Device, rooms[q].reserved[e].socket = j.socket
  PROVE  j.reserves /\ q = j.room /\ e = DeviceOf[j.socket]
<1>1. rooms[q].reserved[e] # NoReservation
  BY NoReservationTypes, NoneAssumption DEF SeatInv, Joins, Call
<1>2. PICK k \in pending : /\ k.current /\ k.reserves /\ k.room = q
                           /\ k.socket = rooms[q].reserved[e].socket /\ DeviceOf[k.socket] = e
  BY <1>1 DEF SeatInv, Joins, ReservationIsHeld
<1>3. k = j
  BY <1>2 DEF SeatInv, Joins, OneCurrent
<1> QED BY <1>2, <1>3

LEMMA JoinsStay ==
  ASSUME SeatInv, pending' = pending, Held(rooms, rooms')
  PROVE  Joins'
<1>1. ReservationIsHeld'
  BY DEF SeatInv, Joins, ReservationIsHeld, Held
<1> QED BY <1>1 DEF SeatInv, Joins, OneCurrent

\* The socket's joins are superseded and what they reserved is free.
LEMMA JoinsSuperseded ==
  ASSUME SeatInv, NEW s \in Socket, pending' = Superseded(s), Held(rooms, rooms'),
         ReservesNothing(rooms', s)
  PROVE  Joins'
<1>1. pending \subseteq Call
  BY DEF SeatInv, Joins
<1>2. /\ pending' \subseteq Call
      /\ \A j \in pending' : j.socket = s => ~j.current
      /\ \A j : j.socket # s => (j \in pending' <=> j \in pending)
  BY <1>1, SupersededMeans
<1>3. OneCurrent'
  BY <1>2 DEF SeatInv, Joins, OneCurrent
<1>4. ASSUME NEW r \in RoomId, NEW d \in Device, rooms[r]'.reserved[d] # NoReservation
      PROVE  \E j \in pending' : /\ j.current /\ j.reserves /\ j.room = r
                                 /\ j.socket = rooms[r]'.reserved[d].socket /\ DeviceOf[j.socket] = d
  <2>1. PICK j \in pending : /\ j.current /\ j.reserves /\ j.room = r
                             /\ j.socket = rooms[r].reserved[d].socket /\ DeviceOf[j.socket] = d
    BY <1>4 DEF SeatInv, Joins, ReservationIsHeld, Held
  <2>2. rooms[r]'.reserved[d].socket = j.socket /\ j.socket # s
    BY <1>4, <2>1 DEF Held, ReservesNothing
  <2> QED BY <1>2, <2>1, <2>2
<1> QED BY <1>2, <1>3, <1>4 DEF Joins, ReservationIsHeld

\* A join ends, and with it what it reserved.
LEMMA JoinsEnd ==
  ASSUME SeatInv, NEW j \in pending, pending' = pending \ {j}, Held(rooms, rooms'),
         j.current => ReservesNothing(rooms', j.socket)
  PROVE  Joins'
<1>1. pending' \subseteq Call /\ OneCurrent'
  BY DEF SeatInv, Joins, OneCurrent
<1>2. ASSUME NEW r \in RoomId, NEW d \in Device, rooms[r]'.reserved[d] # NoReservation
      PROVE  \E k \in pending' : /\ k.current /\ k.reserves /\ k.room = r
                                 /\ k.socket = rooms[r]'.reserved[d].socket /\ DeviceOf[k.socket] = d
  <2>1. PICK k \in pending : /\ k.current /\ k.reserves /\ k.room = r
                             /\ k.socket = rooms[r].reserved[d].socket /\ DeviceOf[k.socket] = d
    BY <1>2 DEF SeatInv, Joins, ReservationIsHeld, Held
  <2>2. rooms[r]'.reserved[d].socket = k.socket
    BY <1>2, <2>1 DEF Held
  <2>3. k # j
    BY <2>1, <2>2 DEF ReservesNothing
  <2> QED BY <2>1, <2>2, <2>3
<1> QED BY <1>1, <1>2 DEF Joins, ReservationIsHeld

-----------------------------------------------------------------------------
(***************************************************************************)
(* Connections.                                                            *)
(***************************************************************************)

Untouched(s) == sock'[s] = sock[s] /\ session'[s] = session[s] /\ channel'[s] = channel[s]

\* Seats stay live in a step that leaves their connections alone.
LEMMA LiveAsBefore ==
  ASSUME SeatInv, NEW T, SitsNowhere(rooms', T),
         \A r \in RoomId : SeatSet(rooms[r]'.seats) \subseteq SeatSet(rooms[r].seats),
         \A s \in Socket : s # T => Untouched(s)
  PROVE  LiveSeats'
<1> SUFFICES ASSUME NEW r \in RoomId, NEW a \in SeatSet(rooms[r]'.seats)
             PROVE  LiveSeat(a, r)'
  BY DEF LiveSeats
<1>1. a \in SeatSet(rooms[r].seats) /\ a.socket # T
  BY DEF SitsNowhere
<1>2. a.socket \in Socket
  BY <1>1, TableSeat DEF SeatInv
<1> QED BY <1>1, <1>2 DEF SeatInv, LiveSeats, LiveSeat, Untouched

LEMMA LiveUndisturbed ==
  ASSUME SeatInv, \A r \in RoomId : SeatSet(rooms[r]'.seats) \subseteq SeatSet(rooms[r].seats),
         UNCHANGED <<session, channel, sock>>
  PROVE  LiveSeats' /\ Connections'
<1>1. ASSUME NEW r \in RoomId, NEW a \in SeatSet(rooms[r]'.seats)
      PROVE  LiveSeat(a, r)'
  BY DEF SeatInv, LiveSeats, LiveSeat
<1> QED BY <1>1 DEF SeatInv, LiveSeats, Connections

-----------------------------------------------------------------------------
(***************************************************************************)
(* One lemma for each action: the invariant is kept, and so are reserved   *)
(* seats.                                                                  *)
(***************************************************************************)

LEMMA ConnectStep ==
  ASSUME SeatInv, NEW s \in Socket, Connect(s)
  PROVE  SeatInv' /\ SeatsKept
<1>1. Table(rooms') /\ Thinner(rooms, rooms') /\ Spared(rooms, rooms')
  BY DEF Connect, SeatInv, Thinner, Spared
<1>2. SitsNowhere(rooms', s)
  BY DEF Connect, SeatInv, LiveSeats, LiveSeat, SitsNowhere
<1>3. LiveSeats'
  <2>1. \A t \in Socket : t # s => Untouched(t)
    BY DEF Connect, SeatInv, Connections, Untouched
  <2> QED BY <1>1, <1>2, <2>1, LiveAsBefore DEF Thinner
<1>4. Connections'
  BY DEF Connect, SeatInv, Connections
<1>5. Joins'
  BY <1>1, ThinnerIsHeld, JoinsStay DEF Connect
<1> QED BY <1>1, <1>3, <1>4, <1>5, SparedSeatsKept DEF SeatInv

LEMMA LeaveStep ==
  ASSUME SeatInv, NEW s \in Socket, Leave(s)
  PROVE  SeatInv' /\ SeatsKept
<1> DEFINE rs == ReleaseReservation(rooms, s)
<1>1. Table(rooms) /\ s # None /\ sock[s] = "up"
  BY NoneAssumption DEF SeatInv, Leave
<1>2. Table(rs) /\ Thinner(rooms, rs) /\ Spared(rooms, rs) /\ ReservesNothing(rs, s)
  BY <1>1, Released
<1>3. rooms' = IF HasSeat(rs, s) THEN LeaveSeat(rs, session[s], s) ELSE rs
  BY DEF Leave
<1> HIDE DEF rs
<1>4. Table(rooms') /\ Thinner(rs, rooms') /\ Spared(rs, rooms') /\ SitsNowhere(rooms', s)
  BY <1>1, <1>2, <1>3, SeatGivenUp
<1>5. Thinner(rooms, rooms') /\ Spared(rooms, rooms')
  BY <1>1, <1>2, <1>4, ThinnerTwice
<1>6. Held(rooms, rooms') /\ ReservesNothing(rooms', s)
  BY <1>1, <1>2, <1>4, <1>5, ThinnerIsHeld
<1>7. Joins'
  BY <1>6, JoinsSuperseded DEF Leave
<1>8. LiveSeats'
  <2>1. \A t \in Socket : t # s => Untouched(t)
    BY DEF Leave, SeatInv, Connections, Untouched
  <2> QED BY <1>4, <1>5, <2>1, LiveAsBefore DEF Thinner
<1>9. Connections'
  BY DEF Leave, SeatInv, Connections
<1> QED BY <1>4, <1>5, <1>7, <1>8, <1>9, SparedSeatsKept DEF SeatInv

LEMMA JoinAbandonedStep ==
  ASSUME SeatInv, NEW j \in pending, JoinAbandoned(j)
  PROVE  SeatInv' /\ SeatsKept
<1>1. Table(rooms) /\ j.socket \in Socket /\ j.socket # None
  BY NoneAssumption DEF SeatInv, Joins, Call
<1>2. CASE j.current
  <2>1. rooms' = ReleaseReservation(rooms, j.socket)
    BY <1>2 DEF JoinAbandoned
  <2>2. /\ Table(rooms') /\ Thinner(rooms, rooms') /\ Spared(rooms, rooms')
        /\ ReservesNothing(rooms', j.socket)
    BY <1>1, <2>1, Released
  <2>3. Joins'
    BY <2>2, ThinnerIsHeld, JoinsEnd DEF JoinAbandoned
  <2>4. LiveSeats' /\ Connections'
    BY <2>2, LiveUndisturbed DEF JoinAbandoned, Thinner
  <2> QED BY <2>2, <2>3, <2>4, SparedSeatsKept DEF SeatInv
<1>3. CASE ~j.current
  <2>1. rooms' = rooms
    BY <1>3 DEF JoinAbandoned
  <2>2. Table(rooms') /\ Thinner(rooms, rooms') /\ Spared(rooms, rooms')
    BY <1>1, <2>1 DEF Thinner, Spared
  <2>3. Joins'
    BY <1>3, <2>2, ThinnerIsHeld, JoinsEnd DEF JoinAbandoned
  <2>4. LiveSeats' /\ Connections'
    BY <2>2, LiveUndisturbed DEF JoinAbandoned, Thinner
  <2> QED BY <2>2, <2>3, <2>4, SparedSeatsKept DEF SeatInv
<1> QED BY <1>2, <1>3

\* A join that moves leaves the room its session names, and no other.
LEMMA VacatedRooms ==
  ASSUME SeatInv, NEW s \in Socket, sock[s] = "up", NEW r \in RoomId, NEW rs, rs = Vacated(s, r)
  PROVE  /\ Table(rs) /\ Thinner(rooms, rs) /\ Spared(rooms, rs) /\ rs[r] = rooms[r]
         /\ \A q \in RoomId : q # r => \A a \in SeatSet(rs[q].seats) : a.socket # s
<1>1. Table(rooms) /\ Thinner(rooms, rooms) /\ Spared(rooms, rooms)
  BY DEF SeatInv, Thinner, Spared
<1>2. CASE Moves(s, r)
  <2>1. rs = IF HasSeat(rooms, s) THEN LeaveSeat(rooms, session[s], s) ELSE rooms
    BY <1>2 DEF Vacated
  <2>2. /\ Table(rs) /\ Thinner(rooms, rs) /\ Spared(rooms, rs) /\ SitsNowhere(rs, s)
        /\ \A q \in RoomId : q # session[s] => rs[q] = rooms[q]
    BY <1>1, <2>1, SeatGivenUp
  <2> QED BY <1>2, <2>2 DEF SitsNowhere, Moves
<1>3. CASE ~Moves(s, r)
  <2>1. rs = rooms
    BY <1>3 DEF Vacated
  <2>2. \A q \in RoomId : q # r => \A a \in SeatSet(rooms[q].seats) : a.socket # s
    BY <1>3, SitsInSession, NoneAssumption DEF Moves
  <2> QED BY <1>1, <2>1, <2>2
<1> QED BY <1>2, <1>3

LEMMA VacatedConnections ==
  ASSUME SeatInv, NEW s \in Socket, NEW r \in RoomId
  PROVE  /\ SessionVacated(s, r) \in [Socket -> RoomId \cup {None}]
         /\ ChannelVacated(s, r) \in [Socket -> SUBSET RoomId]
         /\ \A t \in Socket : t # s => /\ SessionVacated(s, r)[t] = session[t]
                                       /\ ChannelVacated(s, r)[t] = channel[t]
         /\ ~Moves(s, r) => SessionVacated(s, r) = session /\ ChannelVacated(s, r) = channel
BY DEF SeatInv, Connections, SessionVacated, ChannelVacated

LEMMA JoinRefusedStep ==
  ASSUME SeatInv, NEW j \in pending, JoinRefused(j)
  PROVE  SeatInv' /\ SeatsKept
<1> DEFINE s == j.socket
           r == j.room
           rs == Vacated(s, r)
<1>1. /\ Table(rooms) /\ s \in Socket /\ s # None /\ r \in RoomId /\ sock[s] = "up" /\ j.current
      /\ pending' = pending \ {j} /\ rooms' = ReleaseReservation(rs, s)
      /\ session' = SessionVacated(s, r) /\ channel' = ChannelVacated(s, r) /\ sock' = sock
  BY NoneAssumption DEF SeatInv, Joins, Call, JoinRefused, MayProceed, Refuse
<1>2. /\ Table(rs) /\ Thinner(rooms, rs) /\ Spared(rooms, rs) /\ rs[r] = rooms[r]
      /\ \A q \in RoomId : q # r => \A a \in SeatSet(rs[q].seats) : a.socket # s
  <2> HIDE DEF s, r
  <2> QED BY <1>1, VacatedRooms
<1> HIDE DEF s, r, rs
<1>3. Table(rooms') /\ Thinner(rs, rooms') /\ Spared(rs, rooms') /\ ReservesNothing(rooms', s)
  BY <1>1, <1>2, Released
<1>4. Thinner(rooms, rooms') /\ Spared(rooms, rooms')
  BY <1>1, <1>2, <1>3, ThinnerTwice
<1>5. Joins'
  BY <1>1, <1>3, <1>4, ThinnerIsHeld, JoinsEnd DEF s
<1>6. \A t \in Socket : t # s => Untouched(t)
  BY <1>1, VacatedConnections DEF Untouched
<1>7. LiveSeats'
  <2>1. CASE Moves(s, r)
    <3>1. SitsNowhere(rooms', s)
      <4>1. \A a \in SeatSet(rooms[r].seats) : a.socket # s
        BY <1>1, <2>1, SitsInSession DEF Moves
      <4> QED BY <1>2, <1>3, <4>1 DEF SitsNowhere, Thinner
    <3> QED BY <1>4, <1>6, <3>1, LiveAsBefore DEF Thinner
  <2>2. CASE ~Moves(s, r)
    <3>1. UNCHANGED <<session, channel, sock>>
      BY <1>1, <2>2, VacatedConnections
    <3> QED BY <1>4, <3>1, LiveUndisturbed DEF Thinner
  <2> QED BY <2>1, <2>2
<1>8. Connections'
  BY <1>1, VacatedConnections DEF SeatInv, Connections
<1> QED BY <1>3, <1>4, <1>5, <1>7, <1>8, SparedSeatsKept DEF SeatInv

\* A join that has taken a seat in r: what its two forms have in common.
LEMMA SeatedInRoom ==
  ASSUME SeatInv, NEW s \in Socket, sock[s] = "up", sock' = sock, NEW r \in RoomId,
         NEW rs, Thinner(rooms, rs),
         \A q \in RoomId : q # r => rooms'[q] = rs[q] /\ \A a \in SeatSet(rs[q].seats) : a.socket # s,
         \A a \in SeatSet(rooms'[r].seats) :
           (a.socket = s /\ ~a.off) \/ (a \in SeatSet(rs[r].seats) /\ a.socket # s),
         session'[s] = r, r \in channel'[s],
         \A t \in Socket : t # s =>
           /\ session'[t] = session[t]
           /\ \/ channel'[t] = channel[t]
              \/ channel'[t] = channel[t] \ {r} /\ \A a \in SeatSet(rooms'[r].seats) : a.socket # t
  PROVE  LiveSeats'
<1>1. ASSUME NEW q \in RoomId, NEW a \in SeatSet(rooms'[q].seats)
      PROVE  LiveSeat(a, q)'
  <2>1. CASE q = r /\ a.socket = s
    BY <1>1, <2>1 DEF LiveSeat
  <2>2. CASE ~(q = r /\ a.socket = s)
    <3>1. a \in SeatSet(rs[q].seats) /\ a.socket # s
      BY <1>1, <2>2
    <3>2. a \in SeatSet(rooms[q].seats)
      BY <3>1 DEF Thinner
    <3>3. a.socket \in Socket /\ LiveSeat(a, q)
      BY <3>2, TableSeat DEF SeatInv, LiveSeats
    <3>4. q \in channel[a.socket] => q \in channel'[a.socket]
      BY <1>1, <3>1, <3>3
    <3> QED BY <3>1, <3>3, <3>4 DEF LiveSeat
  <2> QED BY <2>1, <2>2
<1> QED BY <1>1 DEF LiveSeats

\* Seats that no operation on their room took out, and no room's deletion.
LEMMA KeptElsewhere ==
  ASSUME SeatInv, NEW r \in RoomId, NEW rs, Spared(rooms, rs), rs[r] = rooms[r], Table(rooms'),
         \A q \in RoomId : q # r => rooms[q]' = rs[q],
         \A a \in SeatSet(rooms[r].seats) : \E b \in SeatSet(rooms[r]'.seats) : b.device = a.device
  PROVE  SeatsKept
<1> SUFFICES ASSUME NEW q \in RoomId, NEW d \in Device, Offline(rooms[q], d), ~Seated(rooms[q]', d)
             PROVE  rooms[q]'.reserved[d] = NoReservation
  BY DEF SeatsKept
<1>1. rooms[q] \in Room /\ rooms'[q] \in Room
  BY DEF SeatInv, Table
<1>2. PICK a \in SeatSet(rooms[q].seats) : a.device = d /\ a.off
  BY <1>1, OnlineMeans
<1>3. \A b \in SeatSet(rooms'[q].seats) : b.device # d
  BY <1>1, OnlineMeans
<1>4. q # r
  BY <1>2, <1>3
<1> QED BY <1>2, <1>3, <1>4 DEF Spared

LEMMA JoinTakesSeatStep ==
  ASSUME SeatInv, IdsLeft, NEW j \in pending, JoinTakesSeat(j)
  PROVE  SeatInv' /\ SeatsKept
<1> DEFINE s == j.socket
           r == j.room
           d == DeviceOf[j.socket]
           rs == Vacated(s, r)
           new == [device |-> DeviceOf[s], socket |-> s, off |-> FALSE]
<1>1. /\ Table(rooms) /\ s \in Socket /\ s # None /\ r \in RoomId /\ sock[s] = "up" /\ j.current
      /\ d \in Device
      /\ pending' = pending \ {j} /\ sock' = sock /\ session' = [session EXCEPT ![s] = r]
      /\ channel' = [ChannelVacated(s, r) EXCEPT ![s] = @ \cup {r}]
      /\ j.reserves => rooms[r].reserved[d].socket = s
      /\ \A q \in RoomId : q # r => ~Seated(rs[q], d)
  BY NoneAssumption, DeviceAssumption DEF SeatInv, Joins, Call, JoinTakesSeat, MayProceed, Elsewhere
<1>2. \/ rs[r] = NoRoom /\ \E window \in BOOLEAN : rooms' = [rs EXCEPT ![r] = NewSeat(CreateRoom(s, window), s)]
      \/ /\ ~Seated(rs[r], d) /\ ~j.reserves
         /\ rooms' = [rs EXCEPT ![r] = NewSeat(rs[r], s)]
  BY DEF JoinTakesSeat
<1>3. /\ Table(rs) /\ Thinner(rooms, rs) /\ Spared(rooms, rs) /\ rs[r] = rooms[r]
      /\ \A q \in RoomId : q # r => \A a \in SeatSet(rs[q].seats) : a.socket # s
  <2> HIDE DEF s, r
  <2> QED BY <1>1, VacatedRooms
<1> HIDE DEF s, r, rs, new, d
<1>4. \A q \in RoomId : q # r => \A a \in SeatSet(rs[q].seats) : a.device # d
  BY <1>1, <1>3, OnlineMeans DEF Table
\* The room the seat is taken in, a new one or the one there is.
<1>5. PICK R : /\ Sound(R) /\ Replaced(rs, rooms', r, NewSeat(R, s))
               /\ SeatSet(R.seats) = SeatSet(rs[r].seats)
               /\ \A a \in SeatSet(R.seats) : a.device # d
               /\ \A e \in Device : R.reserved[e] = rs[r].reserved[e]
               /\ ~j.reserves
  <2>1. CASE rs[r] = NoRoom /\ \E window \in BOOLEAN : rooms' = [rs EXCEPT ![r] = NewSeat(CreateRoom(s, window), s)]
    <3>1. PICK window \in BOOLEAN : rooms' = [rs EXCEPT ![r] = NewSeat(CreateRoom(s, window), s)]
      BY <2>1
    <3> DEFINE R == CreateRoom(s, window)
    <3>2. FreshId \in Nat
      BY FreshIdIsNew
    <3>3. NoRoom \in Room /\ Sound(NoRoom)
      BY EmptyRoom DEF RoomOk, Sound
    <3>4. /\ R \in Room /\ R.seats = NoRoom.seats /\ R.reserved = NoRoom.reserved
          /\ R.timers = NoRoom.timers
      BY <1>1, <3>2, <3>3 DEF CreateRoom, Room
    <3>5. Replaced(rs, rooms', r, NewSeat(R, s))
      BY <3>1 DEF Replaced
    <3> HIDE DEF R
    <3>6. Sound(R)
      BY <3>3, <3>4 DEF Sound
    <3>7. SeatSet(R.seats) = {}
      BY <3>4, EmptyRoom
    <3>8. ~j.reserves
      BY <1>1, <1>3, <2>1, EmptyRoom, NoReservationTypes
    <3> QED BY <2>1, <3>4, <3>5, <3>6, <3>7, <3>8, EmptyRoom
  <2>2. CASE ~Seated(rs[r], d) /\ ~j.reserves /\ rooms' = [rs EXCEPT ![r] = NewSeat(rs[r], s)]
    <3>1. Sound(rs[r]) /\ rs[r] \in Room
      BY <1>1, <1>3 DEF Table, RoomOk, Sound
    <3>2. \A a \in SeatSet(rs[r].seats) : a.device # d
      BY <2>2, <3>1, OnlineMeans
    <3>3. Replaced(rs, rooms', r, NewSeat(rs[r], s))
      BY <2>2 DEF Replaced
    <3> QED BY <2>2, <3>1, <3>2, <3>3
  <2> QED BY <1>2, <2>1, <2>2
<1> DEFINE Q == NewSeat(R, s)
<1>6. RoomOk(Q) /\ Q.reserved = R.reserved /\ SeatSet(Q.seats) = SeatSet(R.seats) \cup {new}
  BY <1>1, <1>5, SeatTaken DEF new, d, s
<1>7. new.device = d /\ new.socket = s
  BY DEF new, d, s
<1> HIDE DEF Q
<1>8. Table(rooms') /\ rooms'[r] = Q /\ \A q \in RoomId : q # r => rooms'[q] = rs[q]
  <2>1. \A b \in SeatSet(Q.seats), q \in RoomId : q # r => \A a \in SeatSet(rs[q].seats) : a.device # b.device
    BY <1>1, <1>3, <1>4, <1>5, <1>6, <1>7 DEF Table
  <2>2. \A e \in Device : Q.reserved[e] # NoReservation =>
          \A q \in RoomId, f \in Device : q # r /\ rs[q].reserved[f] # NoReservation =>
            rs[q].reserved[f].socket # Q.reserved[e].socket
    BY <1>1, <1>3, <1>5, <1>6 DEF Table
  <2>3. Replaced(rs, rooms', r, Q)
    BY <1>5 DEF Q
  <2> QED BY <1>1, <1>3, <1>6, <2>1, <2>2, <2>3, RoomRewritten
<1>9. Held(rooms, rooms')
  <2>1. Held(rooms, rs)
    BY <1>3, ThinnerIsHeld
  <2> QED BY <1>5, <1>6, <1>8, <2>1 DEF Held
<1>10. ReservesNothing(rooms', s)
  <2> SUFFICES ASSUME NEW q \in RoomId, NEW e \in Device, rooms'[q].reserved[e].socket = s
               PROVE  FALSE
    BY DEF ReservesNothing
  <2>1. rooms'[q].reserved[e] # NoReservation
    BY <1>1, NoReservationTypes
  <2>2. rooms[q].reserved[e].socket = s
    BY <1>9, <2>1 DEF Held
  <2> QED BY <1>1, <1>5, <2>2, OwnReservation DEF s
<1>11. Joins'
  BY <1>1, <1>9, <1>10, JoinsEnd DEF s
<1>12. LiveSeats' /\ Connections'
  <2>1. /\ channel' \in [Socket -> SUBSET RoomId] /\ r \in channel'[s]
        /\ \A t \in Socket : t # s => channel'[t] = channel[t]
    <3>1. /\ ChannelVacated(s, r) \in [Socket -> SUBSET RoomId]
          /\ \A t \in Socket : t # s => ChannelVacated(s, r)[t] = channel[t]
      BY <1>1, VacatedConnections
    <3> QED BY <1>1, <3>1
  <2>4. /\ session' \in [Socket -> RoomId \cup {None}] /\ session'[s] = r
        /\ \A t \in Socket : t # s => session'[t] = session[t]
    BY <1>1 DEF SeatInv, Connections
  <2>5. Connections'
    BY <1>1, <2>1, <2>4 DEF SeatInv, Connections
  <2>2. \A a \in SeatSet(rooms'[r].seats) :
          (a.socket = s /\ ~a.off) \/ (a \in SeatSet(rs[r].seats) /\ a.socket # s)
    <3>1. \A a \in SeatSet(R.seats) : a.socket # s
      BY <1>1, <1>3, <1>5, TableSeat DEF d, s
    <3>2. new.socket = s /\ ~new.off
      BY DEF new
    <3> QED BY <1>5, <1>6, <1>8, <3>1, <3>2
  <2>3. \A q \in RoomId : q # r => rooms'[q] = rs[q] /\ \A a \in SeatSet(rs[q].seats) : a.socket # s
    BY <1>3, <1>8
  <2>6. LiveSeats'
    <3>1. sock' = sock /\ s \in Socket /\ sock[s] = "up" /\ r \in RoomId
      BY <1>1
    <3> QED BY <1>3, <2>1, <2>2, <2>3, <2>4, <3>1, SeatedInRoom
  <2> QED BY <2>5, <2>6
<1>13. SeatsKept
  <2>1. \A a \in SeatSet(rooms[r].seats) : \E b \in SeatSet(rooms'[r].seats) : b.device = a.device
    BY <1>3, <1>5, <1>6, <1>8
  <2> QED BY <1>1, <1>3, <1>8, <2>1, KeptElsewhere
<1> QED BY <1>8, <1>11, <1>12, <1>13 DEF SeatInv

LEMMA JoinRetakesSeatStep ==
  ASSUME SeatInv, NEW j \in pending, JoinRetakesSeat(j)
  PROVE  SeatInv' /\ SeatsKept
<1> DEFINE s == j.socket
           r == j.room
           d == DeviceOf[s]
           rs == Vacated(s, r)
           old == SeatAt(rs[r], SeatNo(rs[r], d))
           new == [device |-> d, socket |-> s, off |-> FALSE]
           Q == RetakeSeat(rs[r], s)
<1>1. /\ Table(rooms) /\ s \in Socket /\ s # None /\ r \in RoomId /\ sock[s] = "up" /\ j.current
      /\ pending' = pending \ {j} /\ sock' = sock /\ session' = [session EXCEPT ![s] = r]
      /\ channel' = TakeOver(ChannelVacated(s, r), s, r, old.socket)
      /\ Seated(rs[r], d)
      /\ \A q \in RoomId : q # r => ~Seated(rs[q], d)
  BY NoneAssumption DEF SeatInv, Joins, Call, JoinRetakesSeat, MayProceed, Elsewhere
<1>2. Replaced(rs, rooms', r, Q)
  BY DEF JoinRetakesSeat, Replaced
<1>3. /\ Table(rs) /\ Thinner(rooms, rs) /\ Spared(rooms, rs) /\ rs[r] = rooms[r]
      /\ \A q \in RoomId : q # r => \A a \in SeatSet(rs[q].seats) : a.socket # s
  <2> HIDE DEF s, r
  <2> QED BY <1>1, VacatedRooms
<1> HIDE DEF s, r, rs
<1>4. /\ RoomOk(Q) /\ old \in SeatSet(rs[r].seats) /\ old.device = d
      /\ SeatSet(Q.seats) = (SeatSet(rs[r].seats) \ {old}) \cup {new}
      /\ \A e \in Device : Q.reserved[e] = IF e = d /\ rs[r].reserved[d].socket = s
                                           THEN NoReservation ELSE rs[r].reserved[e]
  <2>1. RoomOk(rs[r])
    BY <1>1, <1>3 DEF Table
  <2> QED BY <1>1, <2>1, SeatRetaken
<1>5. new.device = d /\ new.socket = s /\ ~new.off
  OBVIOUS
<1> HIDE DEF Q, old, new
<1>6. Table(rooms') /\ rooms'[r] = Q /\ \A q \in RoomId : q # r => rooms'[q] = rs[q]
  <2>1. \A b \in SeatSet(Q.seats) : \E a \in SeatSet(rs[r].seats) : a.device = b.device
    BY <1>4, <1>5
  <2>2. \A e \in Device : Q.reserved[e] # NoReservation =>
          rs[r].reserved[e] # NoReservation /\ Q.reserved[e].socket = rs[r].reserved[e].socket
    BY <1>4
  <2> QED BY <1>1, <1>2, <1>3, <1>4, <2>1, <2>2, RoomReplaced
<1>7. Held(rooms, rooms')
  <2>1. Held(rooms, rs)
    BY <1>3, ThinnerIsHeld
  <2> QED BY <1>4, <1>6, <2>1 DEF Held
<1>8. ReservesNothing(rooms', s)
  <2> SUFFICES ASSUME NEW q \in RoomId, NEW e \in Device, rooms'[q].reserved[e].socket = s
               PROVE  FALSE
    BY DEF ReservesNothing
  <2>1. rooms'[q].reserved[e] # NoReservation
    BY <1>1, NoReservationTypes
  <2>2. rooms[q].reserved[e].socket = s
    BY <1>7, <2>1 DEF Held
  <2>3. q = r /\ e = d
    BY <1>1, <2>2, OwnReservation DEF s, r
  <2> QED BY <1>3, <1>4, <1>6, <2>1, <2>2, <2>3
<1>9. Joins'
  BY <1>1, <1>7, <1>8, JoinsEnd DEF s
<1>10. \A a \in SeatSet(rs[r].seats) : a # old => a.device # d /\ a.socket # s /\ a.socket # old.socket
  BY <1>1, <1>3, <1>4, SeatIsOne, TableSeat
<1>11. LiveSeats' /\ Connections'
  <2>1. /\ ChannelVacated(s, r) \in [Socket -> SUBSET RoomId]
        /\ \A t \in Socket : t # s => ChannelVacated(s, r)[t] = channel[t]
    BY <1>1, VacatedConnections
  <2>2. /\ channel' \in [Socket -> SUBSET RoomId] /\ r \in channel'[s]
        /\ \A t \in Socket : t # s => \/ channel'[t] = channel[t]
                                      \/ channel'[t] = channel[t] \ {r} /\ t = old.socket
    BY <1>1, <2>1 DEF TakeOver
  <2>3. /\ session' \in [Socket -> RoomId \cup {None}] /\ session'[s] = r
        /\ \A t \in Socket : t # s => session'[t] = session[t]
    BY <1>1 DEF SeatInv, Connections
  <2>4. Connections'
    BY <1>1, <2>2, <2>3 DEF SeatInv, Connections
  <2>5. \A a \in SeatSet(rooms'[r].seats) :
          (a.socket = s /\ ~a.off) \/ (a \in SeatSet(rs[r].seats) /\ a.socket # s /\ a.socket # old.socket)
    BY <1>4, <1>5, <1>6, <1>10
  <2>6. \A t \in Socket : t # s =>
          /\ session'[t] = session[t]
          /\ \/ channel'[t] = channel[t]
             \/ channel'[t] = channel[t] \ {r} /\ \A a \in SeatSet(rooms'[r].seats) : a.socket # t
    BY <2>2, <2>3, <2>5
  <2>7. \A q \in RoomId : q # r => rooms'[q] = rs[q] /\ \A a \in SeatSet(rs[q].seats) : a.socket # s
    BY <1>3, <1>6
  <2>8. LiveSeats'
    <3>1. sock' = sock /\ s \in Socket /\ sock[s] = "up" /\ r \in RoomId
      BY <1>1
    <3>2. \A a \in SeatSet(rooms'[r].seats) :
            (a.socket = s /\ ~a.off) \/ (a \in SeatSet(rs[r].seats) /\ a.socket # s)
      BY <2>5
    <3> QED BY <1>3, <2>2, <2>3, <2>6, <2>7, <3>1, <3>2, SeatedInRoom
  <2> QED BY <2>4, <2>8
<1>12. SeatsKept
  <2>1. \A a \in SeatSet(rooms[r].seats) : \E b \in SeatSet(rooms'[r].seats) : b.device = a.device
    BY <1>3, <1>4, <1>5, <1>6
  <2> QED BY <1>1, <1>3, <1>6, <2>1, KeptElsewhere
<1> QED BY <1>6, <1>9, <1>11, <1>12 DEF SeatInv

\* A join starts: it is the socket's current one, and may reserve a seat.
LEMMA JoinsStarted ==
  ASSUME SeatInv, NEW s \in Socket, NEW call \in Call, call.socket = s, call.current,
         pending' = Superseded(s) \cup {call},
         NEW rs, Held(rooms, rs), ReservesNothing(rs, s),
         \A q \in RoomId, e \in Device :
           \/ rooms'[q].reserved[e] = rs[q].reserved[e]
           \/ /\ call.reserves /\ call.room = q /\ e = DeviceOf[s]
              /\ rooms'[q].reserved[e].socket = s
  PROVE  Joins'
<1> DEFINE P == Superseded(s)
<1>1. pending \subseteq Call
  BY DEF SeatInv, Joins
<1>2. /\ P \subseteq Call
      /\ \A j \in P : j.socket = s => ~j.current
      /\ \A j : j.socket # s => (j \in P <=> j \in pending)
  BY <1>1, SupersededMeans
<1> HIDE DEF P
<1>3. pending' = P \cup {call}
  BY DEF P
<1>4. pending' \subseteq Call /\ OneCurrent'
  BY <1>2, <1>3 DEF SeatInv, Joins, OneCurrent
<1>5. ASSUME NEW r \in RoomId, NEW d \in Device, rooms[r]'.reserved[d] # NoReservation
      PROVE  \E j \in pending' : /\ j.current /\ j.reserves /\ j.room = r
                                 /\ j.socket = rooms[r]'.reserved[d].socket /\ DeviceOf[j.socket] = d
  <2>1. CASE /\ call.reserves /\ call.room = r /\ d = DeviceOf[s]
             /\ rooms'[r].reserved[d].socket = s
    BY <1>3, <2>1
  <2>2. CASE rooms'[r].reserved[d] = rs[r].reserved[d]
    <3>1. PICK j \in pending : /\ j.current /\ j.reserves /\ j.room = r
                               /\ j.socket = rooms[r].reserved[d].socket /\ DeviceOf[j.socket] = d
      BY <1>5, <2>2 DEF SeatInv, Joins, ReservationIsHeld, Held
    <3>2. rooms'[r].reserved[d].socket = j.socket /\ j.socket # s
      BY <1>5, <2>2, <3>1 DEF Held, ReservesNothing
    <3> QED BY <1>2, <1>3, <3>1, <3>2
  <2> QED BY <2>1, <2>2
<1> QED BY <1>4, <1>5 DEF Joins, ReservationIsHeld

Reserving(rs, rt, r, s) ==
  rt = [rs EXCEPT ![r].reserved[DeviceOf[s]] =
          [socket |-> s, seatSocket |-> SeatAt(rs[r], SeatNo(rs[r], DeviceOf[s])).socket,
           timer |-> rs[r].timers[DeviceOf[s]].id, elapsed |-> FALSE]]

\* The seat of a device that is off is reserved for the socket.
LEMMA SeatReserved ==
  ASSUME NEW rs, Table(rs), NEW s \in Socket, ReservesNothing(rs, s), NEW r \in RoomId,
         Offline(rs[r], DeviceOf[s]), NEW rt, Reserving(rs, rt, r, s)
  PROVE  /\ Table(rt) /\ \A q \in RoomId : rt[q].seats = rs[q].seats
         /\ \A q \in RoomId, e \in Device :
              \/ rt[q].reserved[e] = rs[q].reserved[e]
              \/ q = r /\ e = DeviceOf[s] /\ rt[q].reserved[e].socket = s
<1> DEFINE R == rs[r]
           d == DeviceOf[s]
           seat == SeatAt(R, SeatNo(R, d))
           mine == [socket |-> s, seatSocket |-> seat.socket, timer |-> R.timers[d].id, elapsed |-> FALSE]
           reserved == [R.reserved EXCEPT ![d] = mine]
           Q == [R EXCEPT !.reserved = reserved]
<1>1. R \in Room /\ RoomOk(R) /\ d \in Device /\ rs \in [RoomId -> Room]
  BY DeviceAssumption DEF Table
<1>2. seat.socket \in Socket
  <2>1. SeatNo(R, d) \in DOMAIN R.seats
    BY DEF Offline, SeatNo
  <2>2. R.seats \in Seq(Seat)
    BY <1>1, SeatTypes
  <2>3. seat \in Seat
    BY <2>1, <2>2 DEF SeatAt
  <2> QED BY <2>3 DEF Seat
<1>3. R.timers[d].id \in Nat
  BY <1>1 DEF Room, Timer
<1> HIDE DEF seat, d
<1>4. mine \in Reservation /\ mine.socket = s
  BY <1>2, <1>3 DEF Reservation
<1> HIDE DEF mine
<1>5. reserved \in [Device -> Reservation] /\ \A e \in Device : reserved[e] = IF e = d THEN mine ELSE R.reserved[e]
  BY <1>1, <1>4 DEF Room
<1>6. Replaced(rs, rt, r, Q)
  BY <1>1 DEF Replaced, Reserving, Room, mine, seat, d
<1> HIDE DEF reserved
<1>7. Q \in Room /\ Q.seats = R.seats /\ Q.timers = R.timers /\ Q.host = R.host /\ Q.reserved = reserved
  BY <1>1, <1>5 DEF Room
<1> HIDE DEF Q
<1>8. RoomOk(Q)
  BY <1>1, <1>4, <1>5, <1>7 DEF RoomOk, Sound, Hosted, d
<1>9. \A b \in SeatSet(Q.seats), q \in RoomId : q # r => \A a \in SeatSet(rs[q].seats) : a.device # b.device
  BY <1>7 DEF Table
<1>10. \A e \in Device : Q.reserved[e] # NoReservation =>
         \A q \in RoomId, f \in Device : q # r /\ rs[q].reserved[f] # NoReservation =>
           rs[q].reserved[f].socket # Q.reserved[e].socket
  BY <1>4, <1>5, <1>7 DEF Table, ReservesNothing
<1>11. Table(rt) /\ rt[r] = Q /\ \A q \in RoomId : q # r => rt[q] = rs[q]
  BY <1>6, <1>8, <1>9, <1>10, RoomRewritten
<1> QED BY <1>4, <1>5, <1>7, <1>11 DEF d

LEMMA JoinStartStep ==
  ASSUME SeatInv, NEW s \in Socket, NEW r \in RoomId, NEW isReconnect \in BOOLEAN,
         JoinStart(s, r, isReconnect)
  PROVE  SeatInv' /\ SeatsKept
<1> DEFINE d == DeviceOf[s]
           rs == ReleaseReservation(rooms, s)
           offline == Offline(rs[r], d)
           call == [socket |-> s, room |-> r, isReconnect |-> isReconnect, current |-> TRUE,
                    reserves |-> offline, roomObject |-> IF offline THEN rs[r].id ELSE 0]
<1>1. \/ pending' = Superseded(s) \cup {call} /\ offline /\ Reserving(rs, rooms', r, s)
      \/ pending' = Superseded(s) \cup {call} /\ ~offline /\ rooms' = rs
      \/ pending' = Superseded(s) /\ rooms' = rs
  BY DEF JoinStart, Reserving
<1>2. UNCHANGED <<session, channel, sock>> /\ Table(rooms) /\ s # None /\ d \in Device
  BY NoneAssumption, DeviceAssumption DEF JoinStart, SeatInv
<1>3. Table(rs) /\ Thinner(rooms, rs) /\ Spared(rooms, rs) /\ ReservesNothing(rs, s)
  BY <1>2, Released
<1> HIDE DEF rs
<1>4. call \in Call /\ call.socket = s /\ call.room = r /\ call.current /\ (offline => call.reserves)
  <2>1. rs[r].id \in Nat
    BY <1>3 DEF Table, Room
  <2>2. offline \in BOOLEAN
    BY DEF Offline
  <2> HIDE DEF offline
  <2> QED BY <2>1, <2>2 DEF Call
<1>5. Held(rooms, rs)
  BY <1>3, ThinnerIsHeld
<1> HIDE DEF call, d
<1>6. CASE rooms' = rs
  <2>1. Joins'
    <3>1. CASE pending' = Superseded(s)
      BY <1>3, <1>5, <1>6, <3>1, JoinsSuperseded
    <3>2. CASE pending' = Superseded(s) \cup {call}
      BY <1>3, <1>4, <1>5, <1>6, <3>2, JoinsStarted
    <3> QED BY <1>1, <3>1, <3>2
  <2>2. LiveSeats' /\ Connections'
    BY <1>2, <1>3, <1>6, LiveUndisturbed DEF Thinner
  <2> QED BY <1>3, <1>6, <2>1, <2>2, SparedSeatsKept DEF SeatInv
<1>7. CASE pending' = Superseded(s) \cup {call} /\ offline /\ Reserving(rs, rooms', r, s)
  <2>1. /\ Table(rooms') /\ \A q \in RoomId : rooms'[q].seats = rs[q].seats
        /\ \A q \in RoomId, e \in Device :
             \/ rooms'[q].reserved[e] = rs[q].reserved[e]
             \/ q = r /\ e = d /\ rooms'[q].reserved[e].socket = s
    BY <1>3, <1>7, SeatReserved DEF d
  <2>2. Joins'
    <3>1. \A q \in RoomId, e \in Device :
            \/ rooms'[q].reserved[e] = rs[q].reserved[e]
            \/ call.reserves /\ call.room = q /\ e = DeviceOf[s] /\ rooms'[q].reserved[e].socket = s
      BY <1>4, <1>7, <2>1 DEF d
    <3> QED BY <1>3, <1>4, <1>5, <1>7, <3>1, JoinsStarted
  <2>3. LiveSeats' /\ Connections'
    BY <1>2, <1>3, <2>1, LiveUndisturbed DEF Thinner
  <2>4. SeatsKept
    <3> SUFFICES ASSUME NEW q \in RoomId, NEW e \in Device, Offline(rooms[q], e), ~Seated(rooms[q]', e)
                 PROVE  rooms[q]'.reserved[e] = NoReservation
      BY DEF SeatsKept
    <3>1. rooms[q] \in Room /\ rs[q] \in Room /\ rooms'[q].seats = rs[q].seats
      BY <1>2, <1>3, <2>1 DEF Table
    <3>2. ~Seated(rs[q], e)
      BY <3>1 DEF Seated
    <3>3. ~Offline(rs[q], e)
      BY <3>2 DEF Seated, Offline
    <3>4. PICK a \in SeatSet(rooms[q].seats) : a.device = e /\ a.off
      BY <3>1, OnlineMeans
    <3>5. a \notin SeatSet(rs[q].seats)
      BY <3>1, <3>2, <3>4, OnlineMeans
    <3>6. rs[q].reserved[e] = NoReservation
      BY <1>3, <3>4, <3>5 DEF Spared
    <3> QED BY <1>7, <2>1, <3>3, <3>6
  <2> QED BY <2>1, <2>2, <2>3, <2>4 DEF SeatInv
<1> QED BY <1>1, <1>6, <1>7

LEMMA DisconnectStep ==
  ASSUME SeatInv, IdsLeft, NEW s \in Socket, Disconnect(s)
  PROVE  SeatInv' /\ SeatsKept
<1> DEFINE rs == ReleaseReservation(rooms, s)
           r == session[s]
<1>1. Table(rooms) /\ s # None /\ sock[s] = "up" /\ FreshId \in Nat \ {0}
  BY NoneAssumption, FreshIdIsNew DEF SeatInv, Disconnect
<1>2. Table(rs) /\ Thinner(rooms, rs) /\ Spared(rooms, rs) /\ ReservesNothing(rs, s)
  BY <1>1, Released
<1>3. rooms' = IF HasSeat(rs, s) THEN DropSeat(rs, r, s) ELSE rs
  BY DEF Disconnect
<1> HIDE DEF rs, r
<1>4. \A q \in RoomId : \A a \in SeatSet(rs[q].seats) : a.socket = s => r = q /\ ~a.off
  BY <1>1, <1>2, SitsInSession DEF Thinner, r
\* The seat of s is off by now, and the others are as they were.
<1>5. /\ Table(rooms')
      /\ \A q \in RoomId : \A a \in SeatSet(rooms'[q].seats) :
           (a \in SeatSet(rs[q].seats) /\ a.socket # s) \/ (a.socket = s /\ a.off)
      /\ \A q \in RoomId, e \in Device : rooms'[q].reserved[e] \in {rs[q].reserved[e], NoReservation}
      /\ \A q \in RoomId : \/ \A e \in Device : rooms'[q].reserved[e] = NoReservation
                           \/ \A a \in SeatSet(rs[q].seats) :
                                \E b \in SeatSet(rooms'[q].seats) : b.device = a.device
  <2>1. CASE ~HasSeat(rs, s)
    <3>1. rooms' = rs
      BY <1>3, <2>1
    <3>2. \A q \in RoomId : \A a \in SeatSet(rs[q].seats) : a.socket # s
      <4> SUFFICES ASSUME NEW q \in RoomId, NEW a \in SeatSet(rs[q].seats), a.socket = s
                   PROVE  FALSE
        OBVIOUS
      <4>1. r = q /\ q # None /\ rs[q] \in Room
        BY <1>2, <1>4, NoneAssumption DEF Table
      <4>2. Occupies(rs[q], s)
        BY <4>1, OnlineMeans
      <4> QED BY <2>1, <4>1, <4>2 DEF HasSeat, r
    <3> QED BY <1>2, <3>1, <3>2
  <2>2. CASE HasSeat(rs, s)
    <3>1. r \in RoomId /\ Occupies(rs[r], s) /\ rooms' = DropSeat(rs, r, s)
      BY <1>3, <2>2 DEF HasSeat, SeatInv, Connections, r
    <3>2. /\ Table(rooms') /\ \A q \in RoomId : q # r => rooms'[q] = rs[q]
          /\ \/ rooms'[r] = NoRoom
             \/ /\ rooms'[r].reserved = rs[r].reserved
                /\ \A a \in SeatSet(rooms'[r].seats) :
                     (a \in SeatSet(rs[r].seats) /\ a.socket # s) \/ (a.socket = s /\ a.off)
                /\ \A a \in SeatSet(rs[r].seats) : \E b \in SeatSet(rooms'[r].seats) : b.device = a.device
      BY <1>1, <1>2, <3>1, SeatDropped
    <3>3. \A q \in RoomId : q # r => \A a \in SeatSet(rs[q].seats) : a.socket # s
      BY <1>4
    <3> QED BY <3>2, <3>3, EmptyRoom
  <2> QED BY <2>1, <2>2
<1>6. Held(rooms, rooms') /\ ReservesNothing(rooms', s)
  BY <1>1, <1>2, <1>5, NoReservationTypes DEF Held, ReservesNothing, Thinner
<1>7. Joins'
  BY <1>6, JoinsSuperseded DEF Disconnect
<1>8. /\ \A t \in Socket : t # s => Untouched(t)
      /\ sock'[s] = "down" /\ Connections'
  BY DEF Disconnect, SeatInv, Connections, Untouched
<1>9. LiveSeats'
  <2> SUFFICES ASSUME NEW q \in RoomId, NEW a \in SeatSet(rooms'[q].seats)
               PROVE  LiveSeat(a, q)'
    BY DEF LiveSeats
  <2>1. CASE a.socket = s /\ a.off
    BY <1>8, <2>1 DEF LiveSeat
  <2>2. CASE a \in SeatSet(rs[q].seats) /\ a.socket # s
    <3>1. a \in SeatSet(rooms[q].seats)
      BY <1>2, <2>2 DEF Thinner
    <3>2. a.socket \in Socket /\ LiveSeat(a, q)
      BY <1>1, <3>1, TableSeat DEF SeatInv, LiveSeats
    <3> QED BY <1>8, <2>2, <3>2 DEF LiveSeat, Untouched
  <2> QED BY <1>5, <2>1, <2>2
<1>10. SeatsKept
  <2> SUFFICES ASSUME NEW q \in RoomId, NEW e \in Device, Offline(rooms[q], e), ~Seated(rooms[q]', e)
               PROVE  rooms[q]'.reserved[e] = NoReservation
    BY DEF SeatsKept
  <2>1. rooms[q] \in Room /\ rooms'[q] \in Room
    BY <1>1, <1>5 DEF Table
  <2>2. PICK a \in SeatSet(rooms[q].seats) : a.device = e /\ a.off
    BY <2>1, OnlineMeans
  <2>3. \A b \in SeatSet(rooms'[q].seats) : b.device # e
    BY <2>1, OnlineMeans
  <2>4. CASE a \in SeatSet(rs[q].seats)
    BY <1>5, <2>2, <2>3, <2>4
  <2>5. CASE a \notin SeatSet(rs[q].seats)
    <3>1. rs[q].reserved[e] = NoReservation
      BY <1>2, <2>2, <2>5 DEF Spared
    <3> QED BY <1>5, <3>1
  <2> QED BY <2>4, <2>5
<1> QED BY <1>5, <1>7, <1>8, <1>9, <1>10 DEF SeatInv

LEMMA KickStep ==
  ASSUME SeatInv, NEW s \in Socket, NEW t \in Socket, Kick(s, t)
  PROVE  SeatInv'
<1> DEFINE r == session[s]
           R == rooms[r]
           i == CHOOSE k \in DOMAIN rooms[r].seats : rooms[r].seats[k].socket = t
           d == rooms[r].seats[i].device
           left == [rooms[r] EXCEPT !.seats = RemoveAt(@, i),
                                    !.timers[rooms[r].seats[i].device] = NoTimer]
           unclaimed == IF HostSeatIsLost(left) /\ ~SomeoneOnline(left) /\ left.host = t
                        THEN [left EXCEPT !.host = None] ELSE left
           Q == AbortGameIfLowPlayers(PromoteHostAfterLoss(unclaimed))
<1>1. /\ Table(rooms) /\ r \in RoomId /\ Occupies(R, t) /\ RoomOk(R) /\ Sound(R) /\ R \in Room
      /\ R.seats \in Seq(Seat) /\ Distinct(R.seats)
  <2>1. Table(rooms) /\ r \in RoomId /\ Occupies(R, t)
    BY DEF Kick, SeatInv, Connections
  <2>2. RoomOk(R) /\ Sound(R) /\ R \in Room /\ Distinct(R.seats)
    BY <2>1 DEF Table, RoomOk, Sound
  <2> QED BY SMTT(30), <2>1, <2>2, SeatTypes
<1>2. i \in DOMAIN R.seats /\ R.seats[i].socket = t
  BY SMTT(30), <1>1 DEF Occupies
<1>3. \/ rooms' = DeleteRoom(rooms, r)
      \/ Replaced(rooms, rooms', r, Q)
  BY DEF Kick, Replaced
<1>4. /\ channel' = [channel EXCEPT ![t] = @ \ {r}]
      /\ UNCHANGED <<pending, session, sock>>
  BY DEF Kick
<1> HIDE DEF i, r
<1>5. R.seats[i] \in Seat /\ d \in Device
  <2>1. R.seats[i] \in Seat
    BY <1>1, <1>2
  <2> QED BY <2>1 DEF Seat
<1> HIDE DEF d
<1> DEFINE seats == RemoveAt(R.seats, i)
           timers == [R.timers EXCEPT ![d] = NoTimer]
<1>6. seats \in Seq(Seat) /\ timers \in [Device -> Timer]
      /\ \A e \in Device : timers[e] = IF e = d THEN NoTimer ELSE R.timers[e]
  <2>1. seats \in Seq(Seat)
    BY <1>1, <1>2, SeatRemoved
  <2>2. R.timers \in [Device -> Timer]
    BY <1>1 DEF Room
  <2> QED BY <2>1, <2>2, NoTimerTypes
<1>7. left = [R EXCEPT !.seats = seats, !.timers = timers]
  BY <1>1 DEF Room, d
<1> HIDE DEF seats, timers, left
<1>8. /\ left \in Room /\ left.seats = seats /\ left.timers = timers /\ left.reserved = R.reserved
  BY <1>1, <1>6, <1>7 DEF Room
<1>9. /\ Sound(left) /\ SeatSet(left.seats) = SeatSet(R.seats) \ {R.seats[i]}
      /\ \A a \in SeatSet(left.seats) : a.socket # t
  <2>1. left.seats = RemoveAt(R.seats, i)
    BY <1>8 DEF seats
  <2>2. \A e \in Device : left.timers[e] = IF e = R.seats[i].device THEN NoTimer ELSE R.timers[e]
    BY <1>6, <1>8 DEF d
  <2>3. Sound(R) /\ i \in DOMAIN R.seats /\ left \in Room /\ left.reserved = R.reserved
    BY <1>1, <1>2, <1>8
  <2> HIDE DEF R, Q, unclaimed
  <2>4. /\ Sound(left) /\ SeatSet(left.seats) = SeatSet(R.seats) \ {R.seats[i]}
        /\ \A a \in SeatSet(left.seats) : a.socket # R.seats[i].socket
    BY SMTT(30), <2>1, <2>2, <2>3, SeatTakenOut
  <2> QED BY <1>2, <2>4
<1>10. Sound(unclaimed) /\ unclaimed.seats = left.seats /\ unclaimed.reserved = left.reserved
  <2>1. CASE unclaimed = left
    BY <1>9, <2>1
  <2>2. CASE unclaimed = [left EXCEPT !.host = None]
    <3>1. /\ unclaimed \in Room /\ unclaimed.seats = left.seats /\ unclaimed.timers = left.timers
          /\ unclaimed.reserved = left.reserved
      BY <1>8, <2>2 DEF Room
    <3> HIDE DEF unclaimed
    <3> QED BY <1>9, <3>1 DEF Sound
  <2> QED BY <2>1, <2>2
<1> HIDE DEF unclaimed
<1>11. RoomOk(Q) /\ Q.seats = left.seats /\ Q.reserved = left.reserved
  <2> DEFINE promoted == PromoteHostAfterLoss(unclaimed)
  <2>1. RoomOk(promoted) /\ promoted.seats = left.seats /\ promoted.reserved = left.reserved
    BY <1>10, HostPromoted
  <2> HIDE DEF promoted
  <2>2. RoomOk(AbortGameIfLowPlayers(promoted)) /\ AbortGameIfLowPlayers(promoted).seats = promoted.seats
        /\ AbortGameIfLowPlayers(promoted).reserved = promoted.reserved
    BY <2>1, GameAborted
  <2> QED BY <2>1, <2>2 DEF promoted
<1> HIDE DEF Q
<1>12. /\ Table(rooms') /\ Thinner(rooms, rooms') /\ \A a \in SeatSet(rooms'[r].seats) : a.socket # t
  <2>1. CASE rooms' = DeleteRoom(rooms, r)
    BY <1>1, <2>1, RoomDeleted, EmptyRoom
  <2>2. CASE Replaced(rooms, rooms', r, Q)
    <3>1. SeatSet(Q.seats) \subseteq SeatSet(rooms[r].seats)
      BY <1>9, <1>11
    <3>2. \A e \in Device : Q.reserved[e] \in {rooms[r].reserved[e], NoReservation}
      BY <1>8, <1>11
    <3>3. Table(rooms') /\ Thinner(rooms, rooms') /\ rooms'[r] = Q
      BY <1>1, <1>11, <2>2, <3>1, <3>2, RoomThinned
    <3> QED BY <1>9, <1>11, <3>3
  <2> QED BY <1>3, <2>1, <2>2
<1>13. Joins'
  BY <1>4, <1>12, ThinnerIsHeld, JoinsStay
<1>14. Connections'
  BY <1>4 DEF SeatInv, Connections
<1>15. LiveSeats'
  <2> SUFFICES ASSUME NEW q \in RoomId, NEW a \in SeatSet(rooms'[q].seats)
               PROVE  LiveSeat(a, q)'
    BY DEF LiveSeats
  <2>1. a \in SeatSet(rooms[q].seats) /\ (q = r => a.socket # t)
    BY <1>12 DEF Thinner
  <2>2. a.socket \in Socket /\ LiveSeat(a, q)
    BY <1>1, <2>1, TableSeat DEF SeatInv, LiveSeats
  <2>3. q \in channel[a.socket] => q \in channel'[a.socket]
    BY <1>4, <2>1, <2>2 DEF SeatInv, Connections
  <2> QED BY <1>4, <2>2, <2>3 DEF LiveSeat
<1> QED BY <1>12, <1>13, <1>14, <1>15 DEF SeatInv

\* A step in one room that leaves its seats and what is reserved alone.
LEMMA SeatsStay ==
  ASSUME SeatInv, NEW r \in RoomId, NEW Q, RoomOk(Q), Replaced(rooms, rooms', r, Q),
         Q.seats = rooms[r].seats,
         \A d \in Device : Q.reserved[d] # NoReservation =>
           /\ rooms[r].reserved[d] # NoReservation
           /\ Q.reserved[d].socket = rooms[r].reserved[d].socket,
         UNCHANGED <<pending, session, channel, sock>>
  PROVE  SeatInv' /\ SeatsKept
<1>1. Table(rooms)
  BY DEF SeatInv
<1>2. Table(rooms') /\ rooms'[r] = Q /\ \A q \in RoomId : q # r => rooms'[q] = rooms[q]
  BY <1>1, RoomReplaced
<1>3. \A q \in RoomId : rooms'[q].seats = rooms[q].seats
  BY <1>2
<1>4. Joins'
  <2>1. Held(rooms, rooms')
    BY <1>2 DEF Held
  <2> QED BY <2>1, JoinsStay
<1>5. LiveSeats' /\ Connections'
  BY <1>3, LiveUndisturbed
<1>6. SeatsKept
  BY <1>3 DEF SeatsKept, Offline, Seated
<1> QED BY <1>2, <1>4, <1>5, <1>6 DEF SeatInv

LEMMA TimerFiresStep ==
  ASSUME SeatInv, NEW r \in RoomId, NEW d \in Device, TimerFires(r, d)
  PROVE  SeatInv' /\ SeatsKept
<1> DEFINE R == rooms[r]
<1>1. /\ R.timers[d].armed /\ UNCHANGED <<pending, session, channel, sock>>
      /\ Table(rooms) /\ RoomOk(R) /\ R \in Room
      /\ R.timers \in [Device -> Timer] /\ R.reserved \in [Device -> Reservation]
  BY DEF TimerFires, SeatInv, Table, Room
<1>2. CASE R.reserved[d] # NoReservation
  <2> DEFINE timer == [R.timers[d] EXCEPT !.armed = FALSE]
             late == [R.reserved[d] EXCEPT !.elapsed = TRUE]
             timers == [R.timers EXCEPT ![d] = timer]
             reserved == [R.reserved EXCEPT ![d] = late]
             Q == [R EXCEPT !.reserved = reserved, !.timers = timers]
  <2>1. Replaced(rooms, rooms', r, Q)
    BY <1>1, <1>2 DEF TimerFires, Replaced, Table, Room
  <2>2. R.timers[d] \in Timer /\ R.timers[d].id # 0
    BY <1>1 DEF RoomOk, Sound
  <2>3. timer \in Timer /\ ~timer.armed /\ timer # NoTimer
    <3>1. timer \in Timer /\ ~timer.armed /\ timer.id = R.timers[d].id
      BY <2>2 DEF Timer
    <3> QED BY <2>2, <3>1, NoTimerTypes
  <2>4. late \in Reservation /\ late.socket = R.reserved[d].socket
    BY <1>1 DEF Reservation
  <2> HIDE DEF timer, late
  <2>5. /\ timers \in [Device -> Timer] /\ reserved \in [Device -> Reservation]
        /\ \A e \in Device : /\ timers[e] = IF e = d THEN timer ELSE R.timers[e]
                             /\ reserved[e] = IF e = d THEN late ELSE R.reserved[e]
    BY <1>1, <2>3, <2>4
  <2> HIDE DEF timers, reserved
  <2>6. /\ Q \in Room /\ Q.seats = R.seats /\ Q.host = R.host
        /\ Q.timers = timers /\ Q.reserved = reserved
    BY <1>1, <2>5 DEF Room
  <2> HIDE DEF Q
  <2>7. Sound(Q)
    BY <1>1, <1>2, <2>3, <2>4, <2>5, <2>6 DEF RoomOk, Sound
  <2>8. Hosted(Q)
    <3>1. \A a \in SeatSet(R.seats) : a.device \in Device
      BY <1>1, TableSeat
    <3>2. \A a \in SeatSet(R.seats) : R.timers[a.device] # NoTimer => timers[a.device] # NoTimer
      BY <2>3, <2>5, <3>1
    <3> QED BY <1>1, <2>6, <3>2 DEF RoomOk, Hosted
  <2>9. \A e \in Device : Q.reserved[e] # NoReservation =>
          R.reserved[e] # NoReservation /\ Q.reserved[e].socket = R.reserved[e].socket
    BY <1>2, <2>4, <2>5, <2>6
  <2>10. Q.seats = rooms[r].seats /\ RoomOk(Q)
    BY <2>6, <2>7, <2>8 DEF RoomOk
  <2> QED BY <1>1, <2>1, <2>9, <2>10, SeatsStay
<1>3. CASE R.reserved[d] = NoReservation
  <2>1. rooms' = ExpireDisconnectedSeat(rooms, r, d)
    BY <1>3 DEF TimerFires
  <2>2. /\ Gone(rooms, rooms', r)
        /\ \/ rooms'[r] = NoRoom
           \/ \A a \in SeatSet(rooms[r].seats) : a.device # d => a \in SeatSet(rooms'[r].seats)
    BY <1>1, <2>1, SeatExpired
  <2>3. Table(rooms') /\ Thinner(rooms, rooms') /\ \A q \in RoomId : q # r => rooms'[q] = rooms[q]
    BY <2>2 DEF Gone
  <2>4. Spared(rooms, rooms')
    <3> SUFFICES ASSUME NEW q \in RoomId, NEW a \in SeatSet(rooms[q].seats), a \notin SeatSet(rooms'[q].seats)
                 PROVE  rooms'[q].reserved[a.device] = NoReservation
      BY DEF Spared
    <3>1. q = r /\ a.device \in Device
      BY <1>1, <2>3, TableSeat
    <3>2. CASE rooms'[r] = NoRoom
      BY <3>1, <3>2, EmptyRoom
    <3>3. CASE a.device = d
      BY <1>3, <2>3, <3>1, <3>3 DEF Thinner
    <3> QED BY <2>2, <3>1, <3>2, <3>3
  <2>5. Joins'
    BY <1>1, <2>3, ThinnerIsHeld, JoinsStay
  <2>6. LiveSeats' /\ Connections'
    BY <1>1, <2>3, LiveUndisturbed DEF Thinner
  <2> QED BY <2>3, <2>4, <2>5, <2>6, SparedSeatsKept DEF SeatInv
<1> QED BY <1>2, <1>3

\* The steps that only change the window or the phase of the game.
LEMMA PhaseStep ==
  ASSUME SeatInv, NEW r \in RoomId,
         NEW s, SetWindow(s, r) \/ StartGame(s, r) \/ FinishGame(r) \/ ResetGame(s, r)
  PROVE  SeatInv' /\ SeatsKept
<1>1. rooms[r] \in Room /\ RoomOk(rooms[r]) /\ rooms \in [RoomId -> Room]
  BY DEF SeatInv, Table
<1>2. UNCHANGED <<pending, session, channel, sock>>
  BY DEF SetWindow, StartGame, FinishGame, ResetGame
<1>3. PICK Q : /\ Q \in Room /\ Q.seats = rooms[r].seats /\ Q.host = rooms[r].host
               /\ Q.timers = rooms[r].timers /\ Q.reserved = rooms[r].reserved
               /\ Replaced(rooms, rooms', r, Q)
  <2>1. CASE SetWindow(s, r)
    <3> DEFINE Q == [rooms[r] EXCEPT !.window = ~@]
    <3>1. Replaced(rooms, rooms', r, Q)
      BY <1>1, <2>1 DEF SetWindow, Replaced
    <3>2. /\ Q \in Room /\ Q.seats = rooms[r].seats /\ Q.host = rooms[r].host
          /\ Q.timers = rooms[r].timers /\ Q.reserved = rooms[r].reserved
      BY <1>1 DEF Room
    <3> QED BY <3>1, <3>2
  <2>2. ASSUME NEW status \in {"lobby", "playing", "finished"}, rooms' = [rooms EXCEPT ![r].status = status]
        PROVE  \E Q : /\ Q \in Room /\ Q.seats = rooms[r].seats /\ Q.host = rooms[r].host
                      /\ Q.timers = rooms[r].timers /\ Q.reserved = rooms[r].reserved
                      /\ Replaced(rooms, rooms', r, Q)
    <3> DEFINE Q == [rooms[r] EXCEPT !.status = status]
    <3>1. Replaced(rooms, rooms', r, Q)
      BY <1>1, <2>2 DEF Replaced
    <3>2. /\ Q \in Room /\ Q.seats = rooms[r].seats /\ Q.host = rooms[r].host
          /\ Q.timers = rooms[r].timers /\ Q.reserved = rooms[r].reserved
      BY <1>1 DEF Room
    <3> QED BY <3>1, <3>2
  <2> QED BY <2>1, <2>2 DEF StartGame, FinishGame, ResetGame
<1>4. RoomOk(Q)
  BY <1>1, <1>3 DEF RoomOk, Sound, Hosted
<1> QED BY <1>2, <1>3, <1>4, SeatsStay

-----------------------------------------------------------------------------
(***************************************************************************)
(* The theorems.                                                           *)
(***************************************************************************)

LEMMA InitHolds == ASSUME Init PROVE SeatInv
<1>1. \A r \in RoomId : rooms[r] = NoRoom
  BY DEF Init
<1>2. Table(rooms)
  <2>1. rooms \in [RoomId -> Room]
    <3>1. NoRoom \in Room
      BY EmptyRoom DEF RoomOk, Sound
    <3> QED BY <3>1 DEF Init
  <2>2. \A r \in RoomId : RoomOk(rooms[r]) /\ SeatSet(rooms[r].seats) = {}
    BY <1>1, EmptyRoom
  <2>3. \A r \in RoomId, d \in Device : rooms[r].reserved[d] = NoReservation
    BY <1>1, EmptyRoom
  <2> QED BY <2>1, <2>2, <2>3 DEF Table
<1>3. LiveSeats
  BY <1>1, EmptyRoom DEF LiveSeats
<1>4. Connections
  BY DEF Init, Connections
<1>5. ReservationIsHeld
  BY <1>1, EmptyRoom DEF ReservationIsHeld
<1> QED BY <1>2, <1>3, <1>4, <1>5 DEF Init, SeatInv, Joins, OneCurrent

LEMMA NextHolds ==
  ASSUME SeatInv, IdsLeft, Next
  PROVE  SeatInv' /\ (SeatsKept \/ \E s, t \in Socket : Kick(s, t))
<1>1. ASSUME NEW s \in Socket, Connect(s) \/ Leave(s) \/ Disconnect(s)
      PROVE  SeatInv' /\ SeatsKept
  BY <1>1, ConnectStep, LeaveStep, DisconnectStep
<1>2. ASSUME NEW s \in Socket, NEW r \in RoomId, NEW isReconnect \in BOOLEAN, JoinStart(s, r, isReconnect)
      PROVE  SeatInv' /\ SeatsKept
  BY <1>2, JoinStartStep
<1>3. ASSUME NEW j \in pending, JoinFinish(j)
      PROVE  SeatInv' /\ SeatsKept
  BY <1>3, JoinAbandonedStep, JoinRefusedStep, JoinTakesSeatStep, JoinRetakesSeatStep DEF JoinFinish
<1>4. ASSUME NEW s \in Socket, NEW t \in Socket, Kick(s, t)
      PROVE  SeatInv' /\ \E p, q \in Socket : Kick(p, q)
  BY <1>4, KickStep
<1>5. ASSUME NEW r \in RoomId, NEW d \in Device, TimerFires(r, d)
      PROVE  SeatInv' /\ SeatsKept
  BY <1>5, TimerFiresStep
<1>6. ASSUME NEW s \in Socket, NEW r \in RoomId, SetWindow(s, r) \/ StartGame(s, r) \/ ResetGame(s, r)
      PROVE  SeatInv' /\ SeatsKept
  BY <1>6, PhaseStep
<1>7. ASSUME NEW r \in RoomId, FinishGame(r)
      PROVE  SeatInv' /\ SeatsKept
  BY <1>7, PhaseStep
<1> QED BY <1>1, <1>2, <1>3, <1>4, <1>5, <1>6, <1>7 DEF Next

\* Every reachable state of the seats is sound, as long as a new timer or room
\* always finds an identity.
THEOREM SeatsAreSound == Spec /\ []IdsLeft => []SeatInv
<1>1. Init => SeatInv
  BY InitHolds
<1>2. SeatInv /\ IdsLeft /\ [Next]_vars => SeatInv'
  <2> SUFFICES ASSUME SeatInv, IdsLeft, [Next]_vars PROVE SeatInv'
    OBVIOUS
  <2>1. CASE Next
    BY <2>1, NextHolds
  <2>2. CASE UNCHANGED vars
    BY <2>2 DEF vars, SeatInv, Connections, LiveSeats, LiveSeat, Joins, OneCurrent, ReservationIsHeld
  <2> QED BY <2>1, <2>2
<1> QED BY <1>1, <1>2, PTL DEF Spec

\* A seat shown as connected has a live connection, in this room's session and
\* channel (joinRoom's checks after its await, disconnect, leaveRoom).
THEOREM ConnectedSeatsAreLive == Spec /\ []IdsLeft => []ConnectedSeatIsLive
<1>1. SeatInv => ConnectedSeatIsLive
  <2> SUFFICES ASSUME SeatInv, NEW r \in RoomId, NEW i \in DOMAIN rooms[r].seats, ~rooms[r].seats[i].off
               PROVE  LET seat == rooms[r].seats[i]
                      IN /\ sock[seat.socket] = "up"
                         /\ session[seat.socket] = r
                         /\ r \in channel[seat.socket]
    BY DEF ConnectedSeatIsLive
  <2>1. rooms[r].seats[i] \in SeatSet(rooms[r].seats)
    BY DEF SeatSet
  <2> QED BY <2>1 DEF SeatInv, LiveSeats, LiveSeat
<1> QED BY <1>1, SeatsAreSound, PTL

\* A device never has two seats on the server (device_in_other_room).
THEOREM DevicesSitOnce == Spec /\ []IdsLeft => []OneSeatPerDevice
<1>1. SeatInv => OneSeatPerDevice
  <2> SUFFICES ASSUME SeatInv, NEW q \in RoomId, NEW r \in RoomId,
                      NEW i \in DOMAIN rooms[q].seats, NEW k \in DOMAIN rooms[r].seats,
                      rooms[q].seats[i].device = rooms[r].seats[k].device
               PROVE  q = r /\ i = k
    BY DEF OneSeatPerDevice
  <2>1. rooms[q].seats[i] \in SeatSet(rooms[q].seats) /\ rooms[r].seats[k] \in SeatSet(rooms[r].seats)
    BY DEF SeatSet
  <2>2. q = r
    BY <2>1 DEF SeatInv, Table
  <2>3. Distinct(rooms[r].seats)
    BY DEF SeatInv, Table, RoomOk, Sound
  <2> QED BY <2>2, <2>3 DEF Distinct
<1> QED BY <1>1, SeatsAreSound, PTL

\* A room with a connected seat has a host that is connected or may yet come
\* back (promoteHostAfterLoss, on every path that takes a seat or its timer).
THEOREM HostsCanAct == Spec /\ []IdsLeft => []HostCanAct
<1>1. SeatInv => HostCanAct
  <2> SUFFICES ASSUME SeatInv, NEW r \in RoomId, SomeoneOnline(rooms[r]), HostSeatIsLost(rooms[r])
               PROVE  FALSE
    BY DEF HostCanAct
  <2>1. rooms[r] \in Room /\ Hosted(rooms[r])
    BY DEF SeatInv, Table, RoomOk
  <2> QED BY <2>1, OnlineMeans DEF Hosted
<1> QED BY <1>1, SeatsAreSound, PTL

\* What is reserved is reserved for a join that is still waiting: no path
\* through joinRoom leaks a reservation.
THEOREM ReservationsAreHeld == Spec /\ []IdsLeft => []ReservationIsHeld
<1>1. SeatInv => ReservationIsHeld
  BY DEF SeatInv, Joins
<1> QED BY <1>1, SeatsAreSound, PTL

\* Only a kick takes a seat that is off while a reservation for it stands.
THEOREM ReservedSeatsStay == Spec /\ []IdsLeft => ReservedSeatKept
<1>1. SeatInv /\ IdsLeft /\ [Next]_vars =>
        [\A r \in RoomId, d \in Device :
           /\ rooms[r].reserved[d] # NoReservation
           /\ Offline(rooms[r], d) /\ ~Seated(rooms'[r], d)
           /\ rooms'[r].reserved[d] # NoReservation
           => \E s, t \in Socket : Kick(s, t)]_vars
  <2> SUFFICES ASSUME SeatInv, IdsLeft, Next, NEW r \in RoomId, NEW d \in Device,
                      Offline(rooms[r], d), ~Seated(rooms'[r], d),
                      rooms'[r].reserved[d] # NoReservation
               PROVE  \E s, t \in Socket : Kick(s, t)
    OBVIOUS
  <2>1. CASE SeatsKept
    BY <2>1 DEF SeatsKept, Seated
  <2> QED BY <2>1, NextHolds
<1> QED BY <1>1, SeatsAreSound, PTL DEF Spec, ReservedSeatKept

-----------------------------------------------------------------------------
(***************************************************************************)
(* Identities do not run out: only finitely many are in use at a time.     *)
(***************************************************************************)

Values(f) == {f[x] : x \in DOMAIN f}

LEMMA FiniteImage ==
  ASSUME NEW f, IsFiniteSet(DOMAIN f)
  PROVE  IsFiniteSet(Values(f))
<1> DEFINE T == Values(f)
<1>1. [x \in DOMAIN f |-> f[x]] \in Surjection(DOMAIN f, T)
  BY DEF Surjection, Values
<1> HIDE DEF T
<1>2. IsFiniteSet(T)
  BY <1>1, FS_Surjection
<1> QED BY <1>2 DEF T

LEMMA UsedIdsAreFinite ==
  ASSUME IsFiniteSet(RoomId), IsFiniteSet(Device), IsFiniteSet(pending)
  PROVE  IsFiniteSet(UsedIds)
<1> DEFINE id == [r \in RoomId |-> rooms[r].id]
           timer == [rd \in RoomId \X Device |-> rooms[rd[1]].timers[rd[2]].id]
           nonce == [rd \in RoomId \X Device |-> rooms[rd[1]].nonce[rd[2]]]
           reserved == [rd \in RoomId \X Device |-> rooms[rd[1]].reserved[rd[2]].timer]
           object == [j \in pending |-> j.roomObject]
           all == Values(id) \cup Values(timer) \cup Values(nonce) \cup Values(reserved) \cup Values(object)
<1>1. /\ DOMAIN id = RoomId /\ DOMAIN timer = RoomId \X Device /\ DOMAIN nonce = RoomId \X Device
      /\ DOMAIN reserved = RoomId \X Device /\ DOMAIN object = pending
  OBVIOUS
<1>2. \A r \in RoomId : id[r] = rooms[r].id
  OBVIOUS
<1>3. \A r \in RoomId, d \in Device : <<r, d>> \in RoomId \X Device
  OBVIOUS
<1>4. \A r \in RoomId, d \in Device : /\ timer[<<r, d>>] = rooms[r].timers[d].id
                                      /\ nonce[<<r, d>>] = rooms[r].nonce[d]
                                      /\ reserved[<<r, d>>] = rooms[r].reserved[d].timer
  BY <1>3
<1>5. \A j \in pending : object[j] = j.roomObject
  OBVIOUS
<1> HIDE DEF id, timer, nonce, reserved, object
<1>6. IsFiniteSet(all)
  <2>1. IsFiniteSet(RoomId \X Device)
    BY FS_Product
  <2>2. /\ IsFiniteSet(Values(id)) /\ IsFiniteSet(Values(timer)) /\ IsFiniteSet(Values(nonce))
        /\ IsFiniteSet(Values(reserved)) /\ IsFiniteSet(Values(object))
    BY <1>1, <2>1, FiniteImage
  <2> QED BY <2>2, FS_Union
<1>7. UsedIds \subseteq all
  <2> SUFFICES ASSUME NEW v \in UsedIds PROVE v \in all
    OBVIOUS
  <2>1. \/ \E r \in RoomId : v = rooms[r].id
        \/ \E r \in RoomId, d \in Device : \/ v = rooms[r].timers[d].id
                                           \/ v = rooms[r].nonce[d]
                                           \/ v = rooms[r].reserved[d].timer
        \/ \E j \in pending : v = j.roomObject
    BY DEF UsedIds
  <2>2. CASE \E r \in RoomId : v = rooms[r].id
    BY <1>1, <1>2, <2>2 DEF Values
  <2>3. CASE \E r \in RoomId, d \in Device : \/ v = rooms[r].timers[d].id
                                             \/ v = rooms[r].nonce[d]
                                             \/ v = rooms[r].reserved[d].timer
    <3>1. PICK r \in RoomId, d \in Device : \/ v = timer[<<r, d>>]
                                            \/ v = nonce[<<r, d>>]
                                            \/ v = reserved[<<r, d>>]
      BY <1>4, <2>3
    <3>2. PICK rd \in RoomId \X Device : v = timer[rd] \/ v = nonce[rd] \/ v = reserved[rd]
      BY <1>3, <3>1
    <3> QED BY <1>1, <3>2 DEF Values
  <2>4. CASE \E j \in pending : v = j.roomObject
    BY <1>1, <1>5, <2>4 DEF Values
  <2> QED BY <2>1, <2>2, <2>3, <2>4
<1> HIDE DEF all
<1> QED BY <1>6, <1>7, FS_Subset

LEMMA SupersededIsFinite ==
  ASSUME IsFiniteSet(pending), NEW s
  PROVE  IsFiniteSet(Superseded(s))
<1> DEFINE f == [j \in pending |-> IF j.socket = s THEN [j EXCEPT !.current = FALSE] ELSE j]
<1>1. Superseded(s) = Values(f) /\ DOMAIN f = pending
  BY DEF Superseded, Values
<1> HIDE DEF f
<1>2. IsFiniteSet(Values(f))
  BY <1>1, FiniteImage
<1> QED BY <1>1, <1>2

PendingIsFinite == IsFiniteSet(pending)

LEMMA PendingStaysFinite ==
  ASSUME PendingIsFinite, [Next]_vars
  PROVE  PendingIsFinite'
<1>1. \/ pending' = pending
      \/ \E s \in Socket : pending' = Superseded(s)
      \/ \E s \in Socket : \E call : pending' = Superseded(s) \cup {call}
      \/ \E j \in pending : pending' = pending \ {j}
  <2>1. CASE UNCHANGED vars
    BY <2>1 DEF vars
  <2>2. ASSUME NEW s \in Socket, NEW r \in RoomId, NEW isReconnect \in BOOLEAN, JoinStart(s, r, isReconnect)
        PROVE  pending' = Superseded(s) \/ \E call : pending' = Superseded(s) \cup {call}
    BY <2>2 DEF JoinStart
  <2>3. ASSUME NEW s \in Socket, Connect(s) \/ Leave(s) \/ Disconnect(s)
        PROVE  pending' = pending \/ pending' = Superseded(s)
    BY <2>3 DEF Connect, Leave, Disconnect
  <2>4. ASSUME NEW j \in pending, JoinFinish(j)
        PROVE  pending' = pending \ {j}
    BY <2>4 DEF JoinFinish, JoinAbandoned, JoinRefused, JoinTakesSeat, JoinRetakesSeat
  <2>5. ASSUME \/ \E s, t \in Socket : Kick(s, t)
               \/ \E r \in RoomId, d \in Device : TimerFires(r, d)
               \/ \E s \in Socket, r \in RoomId : SetWindow(s, r) \/ StartGame(s, r) \/ ResetGame(s, r)
               \/ \E r \in RoomId : FinishGame(r)
        PROVE  pending' = pending
    BY ZenonT(60), <2>5 DEF Kick, TimerFires, SetWindow, StartGame, ResetGame, FinishGame
  <2> QED BY ZenonT(60), <2>1, <2>2, <2>3, <2>4, <2>5 DEF Next
<1>2. \A s \in Socket : IsFiniteSet(Superseded(s))
  BY SupersededIsFinite DEF PendingIsFinite
<1> QED BY <1>1, <1>2, FS_AddElement, FS_RemoveElement DEF PendingIsFinite

\* With as many identities as there are objects, and finitely many rooms and
\* devices, the premise of the theorems above always holds.
THEOREM IdentitiesLast ==
  ASSUME IsFiniteSet(RoomId), IsFiniteSet(Device), ~IsFiniteSet(Nonce)
  PROVE  Spec => []IdsLeft
<1>1. Init => PendingIsFinite
  BY FS_EmptySet DEF Init, PendingIsFinite
<1>2. PendingIsFinite /\ [Next]_vars => PendingIsFinite'
  BY PendingStaysFinite
<1>3. PendingIsFinite => IdsLeft
  <2> SUFFICES ASSUME PendingIsFinite, ~IdsLeft PROVE FALSE
    OBVIOUS
  <2>1. IsFiniteSet(UsedIds)
    BY UsedIdsAreFinite DEF PendingIsFinite
  <2>2. Nonce \in SUBSET UsedIds
    BY DEF IdsLeft
  <2> QED BY <2>1, <2>2, FS_Subset
<1> QED BY <1>1, <1>2, <1>3, PTL DEF Spec
=============================================================================
