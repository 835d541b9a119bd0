---------------------------- MODULE SeatLifecycle ----------------------------
(***************************************************************************)
(* Who sits in which room: joining, dropping off, coming back, leaving,    *)
(* being kicked, and when a room is freed.                                 *)
(*                                                                         *)
(* joinRoom is the one handler that awaits: it is two steps, JoinStart up  *)
(* to the statistics read and JoinFinish after it, and everything else may *)
(* happen in between, another join of the same socket or device included.  *)
(* A seat whose connection drops is kept for a reconnect window; a rejoin  *)
(* that arrives within it reserves the seat, and a deadline that passes    *)
(* during the read is deferred.                                            *)
(*                                                                         *)
(* Abstracted: names (a name conflict is a free choice where the code      *)
(* checks for one), the per-address cap (with MAX_ROOMS one cap on rooms), *)
(* the turn order behind a removal (RoomGame has it), rate limits (a join  *)
(* may be refused at the door).  A device keeps its id, as the client's    *)
(* storage does.                                                           *)
(***************************************************************************)
EXTENDS Naturals, Sequences, FiniteSets, SequencesExt

CONSTANTS Socket,       \* connections; an id is never used twice
          Device,
          DeviceOf,     \* the device behind a connection
          RoomId,
          Nonce,        \* identities of timers and of room objects
          MaxRooms,     \* MAX_ROOMS
          MaxPending,   \* bound of the model: joins awaiting at once
          None          \* null; also UNCLAIMED_HOST

ASSUME DeviceAssumption == DeviceOf \in [Socket -> Device]
ASSUME NonceAssumption == Nonce \subseteq Nat \ {0}
ASSUME NoneAssumption == None \notin Socket /\ None \notin Device /\ None \notin RoomId

VARIABLES
  rooms,     \* room id -> room object, or NoRoom
  pending,   \* joinRoom calls awaiting the statistics read
  session,   \* session.roomId of each socket: set by a join, cleared by a leave
  channel,   \* the room channels a socket is subscribed to
  sock       \* "new", "up" or "down"

vars == <<rooms, pending, session, channel, sock>>

NoTimer == [id |-> 0, armed |-> FALSE]
NoReservation == [socket |-> None, seatSocket |-> None, timer |-> 0, elapsed |-> FALSE]
NoRoom == [id |-> 0, host |-> None, seats |-> <<>>, status |-> "lobby", window |-> FALSE,
           timers |-> [d \in Device |-> NoTimer], nonce |-> [d \in Device |-> 0],
           reserved |-> [d \in Device |-> NoReservation]]

-----------------------------------------------------------------------------
\* Reading a room.

SeatAt(room, i) == room.seats[i]
SeatNo(room, d) == CHOOSE i \in DOMAIN room.seats : room.seats[i].device = d
Seated(room, d) == \E i \in DOMAIN room.seats : room.seats[i].device = d
Occupies(room, s) == \E i \in DOMAIN room.seats : room.seats[i].socket = s
Offline(room, d) == \E i \in DOMAIN room.seats : room.seats[i].device = d /\ room.seats[i].off
SomeoneOnline(room) == \E i \in DOMAIN room.seats : ~room.seats[i].off

HostSeatIsLost(room) ==
  \A i \in DOMAIN room.seats : room.seats[i].socket = room.host =>
    room.seats[i].off /\ room.timers[room.seats[i].device] = NoTimer

FirstOnline(room) ==
  LET online == {i \in DOMAIN room.seats : ~room.seats[i].off}
  IN room.seats[CHOOSE i \in online : \A j \in online : i <= j].socket

\* Seeded fault of isAbandonedRoom: only a room without seats counts.
AbandonedWhenEmpty(room) == room.seats = <<>>

\* isAbandonedRoom: nobody is connected and no timer will revisit the room.
IsAbandonedRoom(room) ==
  ~SomeoneOnline(room) /\ \A d \in Device : room.timers[d] = NoTimer

UsedIds == {rooms[r].id : r \in RoomId}
           \cup {rooms[r].timers[d].id : r \in RoomId, d \in Device}
           \cup {rooms[r].nonce[d] : r \in RoomId, d \in Device}
           \cup {rooms[r].reserved[d].timer : r \in RoomId, d \in Device}
           \cup {j.roomObject : j \in pending}
FreshId == CHOOSE n \in Nonce : n \notin UsedIds

-----------------------------------------------------------------------------
\* Changing a room.  Each operator takes the table of rooms and returns it.

\* promoteHostAfterLoss: the first connected seat takes over a lost host's room.
PromoteHostAfterLoss(room) ==
  IF HostSeatIsLost(room) /\ SomeoneOnline(room)
  THEN [room EXCEPT !.host = FirstOnline(room)] ELSE room

\* abortGameIfLowPlayers: a finished game keeps its end screen.
AbortGameIfLowPlayers(room) ==
  IF room.status = "playing" /\ Len(room.seats) < 2
  THEN [room EXCEPT !.status = "lobby"] ELSE room

\* deleteRoom: the timers go with the room, and so do its reservations.
DeleteRoom(rs, r) == [rs EXCEPT ![r] = NoRoom]

\* clearDisconnectTimer: the timer and the note of its identity.
ClearDisconnectTimer(room, d) == [room EXCEPT !.timers[d] = NoTimer, !.nonce[d] = 0]

WithoutSeat(room, d) == [room EXCEPT !.seats = RemoveAt(@, SeatNo(room, d))]

\* expireDisconnectedSeat: the seat is given up, and the room with the last one.
ExpireDisconnectedSeat(rs, r, d) ==
  LET stopped == ClearDisconnectTimer(rs[r], d)
      left == WithoutSeat(stopped, d)
  IN IF ~Seated(rs[r], d) THEN [rs EXCEPT ![r] = stopped]
     ELSE IF left.seats = <<>> \/ IsAbandonedRoom(left) THEN DeleteRoom(rs, r)
     ELSE [rs EXCEPT ![r] = AbortGameIfLowPlayers(PromoteHostAfterLoss(left))]

\* Seeded fault of releaseReservation: a deadline that passed is forgotten.
ReleaseWithoutExpiry(rs, s) ==
  [r \in RoomId |-> [rs[r] EXCEPT !.reserved = [d \in Device |->
     IF @[d].socket = s THEN NoReservation ELSE @[d]]]]

\* releaseReservation: the reservation this socket holds, if any.  If the
\* deadline passed while it was held, the seat is given up now.
ReleaseReservation(rs, s) ==
  LET held == {rd \in RoomId \X Device : rs[rd[1]].reserved[rd[2]].socket = s}
  IN IF held = {} THEN rs
     ELSE LET r == (CHOOSE rd \in held : TRUE)[1]
              d == (CHOOSE rd \in held : TRUE)[2]
              reservation == rs[r].reserved[d]
              freed == [rs EXCEPT ![r].reserved[d] = NoReservation]
          IN IF /\ reservation.elapsed
                /\ reservation.timer # 0
                /\ reservation.timer = freed[r].timers[d].id
                /\ reservation.timer = freed[r].nonce[d]
             THEN ExpireDisconnectedSeat(freed, r, d) ELSE freed

\* Seeded fault of handlePlayerLeave: the host id goes with the host.
LeaveWithoutSuccessor(rs, r, s) ==
  LET i == CHOOSE k \in DOMAIN rs[r].seats : rs[r].seats[k].socket = s
      d == rs[r].seats[i].device
      left == ClearDisconnectTimer([rs[r] EXCEPT !.seats = RemoveAt(@, i)], d)
  IN IF left.seats = <<>> \/ IsAbandonedRoom(left) THEN DeleteRoom(rs, r)
     ELSE [rs EXCEPT ![r] = AbortGameIfLowPlayers(left)]

\* handlePlayerLeave, explicit: a host with no connected successor takes the
\* room down; any other leaver only a room that nothing would ever free.
LeaveSeat(rs, r, s) ==
  LET i == CHOOSE k \in DOMAIN rs[r].seats : rs[r].seats[k].socket = s
      d == rs[r].seats[i].device
      left == ClearDisconnectTimer([rs[r] EXCEPT !.seats = RemoveAt(@, i)], d)
      handed == IF left.host = s THEN [left EXCEPT !.host = FirstOnline(left)] ELSE left
  IN IF left.seats = <<>> THEN DeleteRoom(rs, r)
     ELSE IF left.host = s /\ ~SomeoneOnline(left) THEN DeleteRoom(rs, r)
     ELSE IF left.host # s /\ IsAbandonedRoom(left) THEN DeleteRoom(rs, r)
     ELSE [rs EXCEPT ![r] = AbortGameIfLowPlayers(handed)]

\* handlePlayerLeave, disconnect: with a reconnect window the seat is kept for
\* its length; without one nothing would revisit the room, so a lost host is
\* replaced at once and a room without a connected seat is freed at once.
DropSeat(rs, r, s) ==
  LET i == CHOOSE k \in DOMAIN rs[r].seats : rs[r].seats[k].socket = s
      d == rs[r].seats[i].device
      dropped == [rs[r] EXCEPT !.seats[i].off = TRUE]
  IN IF rs[r].window
     THEN [rs EXCEPT ![r] = [dropped EXCEPT !.timers[d] = [id |-> FreshId, armed |-> TRUE],
                                            !.nonce[d] = FreshId]]
     ELSE IF SomeoneOnline(dropped) THEN [rs EXCEPT ![r] = PromoteHostAfterLoss(dropped)]
     ELSE DeleteRoom(rs, r)

\* The room a socket's session names, while the socket still has a seat there.
HasSeat(rs, s) == session[s] # None /\ Occupies(rs[session[s]], s)

Superseded(s) == {IF j.socket = s THEN [j EXCEPT !.current = FALSE] ELSE j : j \in pending}

-----------------------------------------------------------------------------
Init == /\ rooms = [r \in RoomId |-> NoRoom]
        /\ pending = {}
        /\ session = [s \in Socket |-> None]
        /\ channel = [s \in Socket |-> {}]
        /\ sock = [s \in Socket |-> "new"]

Connect(s) == /\ sock[s] = "new"
              /\ sock' = [sock EXCEPT ![s] = "up"]
              /\ UNCHANGED <<rooms, pending, session, channel>>

\* joinRoom up to its await.  A newer join supersedes the socket's older ones,
\* whether or not it is itself let in; a join that finds the device's seat
\* offline reserves it, unless another join already has.
JoinStart(s, r, isReconnect) ==
  LET d == DeviceOf[s]
      rs == ReleaseReservation(rooms, s)
      elsewhere == \E q \in RoomId \ {r, session[s]} : Seated(rs[q], d)
      offline == Offline(rs[r], d)
      letIn == /\ ~elsewhere
               /\ isReconnect => rs[r] # NoRoom
               /\ offline => rs[r].reserved[d] = NoReservation
      call == [socket |-> s, room |-> r, isReconnect |-> isReconnect, current |-> TRUE,
               reserves |-> offline, roomObject |-> IF offline THEN rs[r].id ELSE 0]
  IN /\ sock[s] = "up"
     /\ Cardinality(pending) < MaxPending
     /\ \/ /\ letIn
           /\ pending' = Superseded(s) \cup {call}
           /\ rooms' = IF ~offline THEN rs
                       ELSE [rs EXCEPT ![r].reserved[d] =
                              [socket |-> s,
                               seatSocket |-> SeatAt(rs[r], SeatNo(rs[r], d)).socket,
                               timer |-> rs[r].timers[d].id,
                               elapsed |-> FALSE]]
        \/ /\ pending' = Superseded(s)        \* refused, for whatever reason
           /\ rooms' = rs
     /\ UNCHANGED <<session, channel, sock>>

\* The seat is the one the join reserved: still offline, under the same
\* connection and the same deadline.
ReservedSeatUnchanged(room, d) ==
  /\ Offline(room, d)
  /\ SeatAt(room, SeatNo(room, d)).socket = room.reserved[d].seatSocket
  /\ room.timers[d].id = room.reserved[d].timer
  /\ room.nonce[d] = room.reserved[d].timer

\* The device's seat passes to this socket, and the host's room with it.
RetakeSeat(room, s) ==
  LET d == DeviceOf[s]
      i == SeatNo(room, d)
      old == room.seats[i].socket
      taken == [room EXCEPT !.seats[i] = [device |-> d, socket |-> s, off |-> FALSE],
                            !.host = IF @ = old THEN s ELSE @,
                            !.reserved[d] = IF @.socket = s THEN NoReservation ELSE @]
  IN PromoteHostAfterLoss(ClearDisconnectTimer(taken, d))

NewSeat(room, s) ==
  PromoteHostAfterLoss([room EXCEPT !.seats = Append(@, [device |-> DeviceOf[s], socket |-> s,
                                                         off |-> FALSE])])

CreateRoom(s, window) == [NoRoom EXCEPT !.id = FreshId, !.host = s, !.window = window]

\* A device's old connection leaves the channel its new one joins.
TakeOver(chan, s, r, old) ==
  [t \in Socket |-> IF t = s THEN chan[t] \cup {r}
                    ELSE IF t = old THEN chan[t] \ {r} ELSE chan[t]]

\* Seeded fault of joinRoom: whether the call was superseded is not asked.
MayProceedAnyway(j) == j.isReconnect => rooms[j.room] # NoRoom

\* The re-checks after the await: not superseded, still connected, and the
\* room a rejoin reserved its seat in is still that room.
MayProceed(j) ==
  /\ j.current
  /\ sock[j.socket] = "up"
  /\ j.reserves => /\ rooms[j.room].id = j.roomObject
                   /\ rooms[j.room].reserved[DeviceOf[j.socket]].socket = j.socket
  /\ j.isReconnect => rooms[j.room] # NoRoom

\* A call that may not go on gives back what it still holds; an older call's
\* reservation went when it was superseded.
JoinAbandoned(j) ==
  /\ j \in pending
  /\ ~MayProceed(j)
  /\ pending' = pending \ {j}
  /\ rooms' = IF j.current THEN ReleaseReservation(rooms, j.socket) ELSE rooms
  /\ UNCHANGED <<session, channel, sock>>

\* A socket has a seat in one room at a time: joining another room leaves the
\* one its session names, whether or not it still has a seat there.
Moves(s, r) == session[s] # None /\ session[s] # r
Vacated(s, r) == IF Moves(s, r) /\ HasSeat(rooms, s) THEN LeaveSeat(rooms, session[s], s) ELSE rooms
SessionVacated(s, r) == IF Moves(s, r) THEN [session EXCEPT ![s] = None] ELSE session
ChannelVacated(s, r) ==
  IF Moves(s, r) THEN [channel EXCEPT ![s] = @ \ {session[s]}] ELSE channel

\* Seeded fault of joinRoom: the registry is not read again after the await.
ElsewhereUnchecked(rs, d, r) == FALSE

\* The device holds a seat in another room by now.
Elsewhere(rs, d, r) == \E q \in RoomId \ {r} : Seated(rs[q], d)

Full(rs) == Cardinality({q \in RoomId : rs[q] # NoRoom}) >= MaxRooms

\* Seeded fault of joinRoom: a refusal keeps the seat reserved.
RefuseHolding(rs, s) == rs

\* The rooms after a refusal behind the await: the reservation is released.
Refuse(rs, s) == ReleaseReservation(rs, s)

\* The old seat is gone by now even if the new one is refused.
JoinRefused(j) ==
  LET s == j.socket
      d == DeviceOf[s]
      r == j.room
      rs == Vacated(s, r)
      nameTaken == rs[r].status = "lobby" /\ \E i \in DOMAIN rs[r].seats : rs[r].seats[i].device # d
  IN /\ j \in pending
     /\ MayProceed(j)
     /\ \/ Elsewhere(rs, d, r)
        \/ rs[r] = NoRoom /\ Full(rs)
        \/ j.reserves /\ (Seated(rs[r], d) => ~ReservedSeatUnchanged(rs[r], d))
        \/ rs[r] # NoRoom /\ ~Seated(rs[r], d) /\ rs[r].status # "lobby"
        \/ nameTaken
     /\ pending' = pending \ {j}
     /\ rooms' = Refuse(rs, s)
     /\ session' = SessionVacated(s, r)
     /\ channel' = ChannelVacated(s, r)
     /\ UNCHANGED sock

\* A fresh seat: in a room made for it, or in a room still in its lobby.
JoinTakesSeat(j) ==
  LET s == j.socket
      r == j.room
      rs == Vacated(s, r)
  IN /\ j \in pending
     /\ MayProceed(j)
     /\ ~Elsewhere(rs, DeviceOf[s], r)
     /\ \/ /\ rs[r] = NoRoom /\ ~Full(rs)
           /\ \E window \in BOOLEAN :
                rooms' = [rs EXCEPT ![r] = NewSeat(CreateRoom(s, window), s)]
        \/ /\ rs[r] # NoRoom /\ rs[r].status = "lobby"
           /\ ~Seated(rs[r], DeviceOf[s]) /\ ~j.reserves
           /\ rooms' = [rs EXCEPT ![r] = NewSeat(rs[r], s)]
     /\ pending' = pending \ {j}
     /\ session' = [session EXCEPT ![s] = r]
     /\ channel' = [ChannelVacated(s, r) EXCEPT ![s] = @ \cup {r}]
     /\ UNCHANGED sock

\* The device's own seat, whoever reserved it or none.
JoinRetakesSeat(j) ==
  LET s == j.socket
      d == DeviceOf[s]
      r == j.room
      rs == Vacated(s, r)
  IN /\ j \in pending
     /\ MayProceed(j)
     /\ ~Elsewhere(rs, d, r)
     /\ Seated(rs[r], d)
     /\ j.reserves => ReservedSeatUnchanged(rs[r], d)
     /\ pending' = pending \ {j}
     /\ rooms' = [rs EXCEPT ![r] = RetakeSeat(rs[r], s)]
     /\ session' = [session EXCEPT ![s] = r]
     /\ channel' = TakeOver(ChannelVacated(s, r), s, r,
                            SeatAt(rs[r], SeatNo(rs[r], d)).socket)
     /\ UNCHANGED sock

\* joinRoom after its await.
JoinFinish(j) == JoinAbandoned(j) \/ JoinRefused(j) \/ JoinTakesSeat(j) \/ JoinRetakesSeat(j)

-----------------------------------------------------------------------------
\* leaveRoom.  Joins of this socket that are still waiting are superseded.
Leave(s) ==
  LET rs == ReleaseReservation(rooms, s)
  IN /\ sock[s] = "up"
     /\ pending' = Superseded(s)
     /\ rooms' = IF HasSeat(rs, s) THEN LeaveSeat(rs, session[s], s) ELSE rs
     /\ channel' = [channel EXCEPT ![s] = @ \ {session[s]}]
     /\ session' = [session EXCEPT ![s] = None]
     /\ UNCHANGED sock

\* disconnect.  The session dies with its connection.
Disconnect(s) ==
  LET rs == ReleaseReservation(rooms, s)
  IN /\ sock[s] = "up"
     /\ sock' = [sock EXCEPT ![s] = "down"]
     /\ pending' = Superseded(s)
     /\ rooms' = IF HasSeat(rs, s) THEN DropSeat(rs, session[s], s) ELSE rs
     /\ channel' = [channel EXCEPT ![s] = {}]
     /\ session' = [session EXCEPT ![s] = None]

\* kickPlayer.  The host may name any seat, its own included; a room nobody
\* can take over is left unclaimed.  The note of the timer's identity and a
\* rejoin's reservation outlive the seat.
Kick(s, t) ==
  LET r == session[s]
      i == CHOOSE k \in DOMAIN rooms[r].seats : rooms[r].seats[k].socket = t
      left == [rooms[r] EXCEPT !.seats = RemoveAt(@, i),
                               !.timers[rooms[r].seats[i].device] = NoTimer]
      unclaimed == IF HostSeatIsLost(left) /\ ~SomeoneOnline(left) /\ left.host = t
                   THEN [left EXCEPT !.host = None] ELSE left
  IN /\ sock[s] = "up"
     /\ r # None /\ rooms[r].host = s
     /\ Occupies(rooms[r], t)
     /\ channel' = [channel EXCEPT ![t] = @ \ {r}]
     /\ rooms' = IF left.seats = <<>> \/ IsAbandonedRoom(left) THEN DeleteRoom(rooms, r)
                 ELSE [rooms EXCEPT ![r] = AbortGameIfLowPlayers(PromoteHostAfterLoss(unclaimed))]
     /\ UNCHANGED <<pending, session, sock>>

\* Seeded fault of the reconnect timer: it does not look for a rejoin.
TimerIgnoresReservation(r, d) ==
  /\ rooms[r].timers[d].armed
  /\ rooms' = ExpireDisconnectedSeat(rooms, r, d)
  /\ UNCHANGED <<pending, session, channel, sock>>

\* The shortest window (MIN_ENABLED_RECONNECT_TIMEOUT, 10 s) outlasts the wait of
\* a join (JOIN_STATS_WAIT_MS, 5 s): a rejoin that reserved the seat before this
\* deadline was set has ended when it passes.
OutlastsOlderJoins(r, d) ==
  rooms[r].reserved[d] # NoReservation => rooms[r].reserved[d].timer = rooms[r].timers[d].id

\* The reconnect timer of a seat.  A rejoin that got here first keeps the seat
\* until its own end; the timer stays in the room's table.
TimerFires(r, d) ==
  /\ rooms[r].timers[d].armed /\ OutlastsOlderJoins(r, d)
  /\ rooms' = IF rooms[r].reserved[d] # NoReservation
              THEN [rooms EXCEPT ![r].reserved[d].elapsed = TRUE,
                                 ![r].timers[d].armed = FALSE]
              ELSE ExpireDisconnectedSeat(rooms, r, d)
  /\ UNCHANGED <<pending, session, channel, sock>>

\* updateConfig in the lobby: the reconnect window on or off.
SetWindow(s, r) ==
  /\ sock[s] = "up" /\ rooms[r].host = s /\ rooms[r].status = "lobby"
  /\ rooms' = [rooms EXCEPT ![r].window = ~@]
  /\ UNCHANGED <<pending, session, channel, sock>>

\* pushState, as far as seats go: the phase of the game.  A seated host starts
\* and resets it; a last turn, or the turn timer, finishes it.
SeatedHost(s, r) == \E i \in DOMAIN rooms[r].seats :
  rooms[r].host = s /\ rooms[r].seats[i].socket = s /\ ~rooms[r].seats[i].off

StartGame(s, r) ==
  /\ SeatedHost(s, r) /\ rooms[r].status # "playing" /\ Len(rooms[r].seats) >= 2
  /\ rooms' = [rooms EXCEPT ![r].status = "playing"]
  /\ UNCHANGED <<pending, session, channel, sock>>

FinishGame(r) ==
  /\ rooms[r].status = "playing"
  /\ rooms' = [rooms EXCEPT ![r].status = "finished"]
  /\ UNCHANGED <<pending, session, channel, sock>>

ResetGame(s, r) ==
  /\ SeatedHost(s, r) /\ rooms[r].status # "lobby"
  /\ rooms' = [rooms EXCEPT ![r].status = "lobby"]
  /\ UNCHANGED <<pending, session, channel, sock>>

Next ==
  \/ \E s \in Socket : Connect(s) \/ Leave(s) \/ Disconnect(s)
  \/ \E s \in Socket, r \in RoomId, isReconnect \in BOOLEAN : JoinStart(s, r, isReconnect)
  \/ \E j \in pending : JoinFinish(j)
  \/ \E s, t \in Socket : Kick(s, t)
  \/ \E r \in RoomId, d \in Device : TimerFires(r, d)
  \/ \E s \in Socket, r \in RoomId : SetWindow(s, r) \/ StartGame(s, r) \/ ResetGame(s, r)
  \/ \E r \in RoomId : FinishGame(r)

Spec == Init /\ [][Next]_vars

\* Timers fire, and the wait for the statistics is bounded (JOIN_STATS_WAIT_MS).
\* Nothing obliges a player to act.
Fairness == /\ \A s \in Socket : WF_vars(\E j \in pending : j.socket = s /\ JoinFinish(j))
            /\ \A r \in RoomId, d \in Device : WF_vars(TimerFires(r, d))
LiveSpec == Spec /\ Fairness

-----------------------------------------------------------------------------

\* A seat that shows as connected belongs to a live connection whose session is
\* this room: no join finishing late seats a socket that closed, left or moved.
ConnectedSeatIsLive ==
  \A r \in RoomId : \A i \in DOMAIN rooms[r].seats :
    LET seat == rooms[r].seats[i]
    IN ~seat.off => /\ sock[seat.socket] = "up"
                    /\ session[seat.socket] = r
                    /\ r \in channel[seat.socket]

\* A device has at most one seat on the server, however its connections' joins
\* interleave (device_in_other_room, asked before the await and again after).
OneSeatPerDevice ==
  \A q, r \in RoomId : \A i \in DOMAIN rooms[q].seats, k \in DOMAIN rooms[r].seats :
    rooms[q].seats[i].device = rooms[r].seats[k].device => q = r /\ i = k

\* While someone is connected, the room's host is a connected seat or one whose
\* reconnect window is open: the room is never owned by a socket that is gone.
HostCanAct == \A r \in RoomId : SomeoneOnline(rooms[r]) => ~HostSeatIsLost(rooms[r])

\* Every reservation is held by a join that is still waiting and not superseded:
\* one that leaked would refuse every later rejoin of the seat (rejoin_pending)
\* and keep its deadline from ever completing.
ReservationIsHeld ==
  \A r \in RoomId, d \in Device : rooms[r].reserved[d] # NoReservation =>
    \E j \in pending : /\ j.current /\ j.reserves /\ j.room = r
                       /\ j.socket = rooms[r].reserved[d].socket
                       /\ DeviceOf[j.socket] = d

\* A seat a rejoin has reserved does not go while the reservation stands and
\* nobody has come back to it, its deadline passing included; only the host can
\* take it away.  (Another connection of its player may retake it meanwhile, and
\* give it up.)
ReservedSeatKept ==
  [][\A r \in RoomId, d \in Device :
       /\ rooms[r].reserved[d] # NoReservation
       /\ Offline(rooms[r], d) /\ ~Seated(rooms'[r], d)
       /\ rooms'[r].reserved[d] # NoReservation
       => \E s, t \in Socket : Kick(s, t)]_vars

\* Once every connection is closed, for good, every room is freed in time, the
\* one whose last connected player left timerless seats behind included.
RoomsAreFreed ==
  []<>((\A s \in Socket : sock[s] = "down") => \A r \in RoomId : rooms[r] = NoRoom)

\* A reconnect window ends: its seat is retaken or given up, even when a rejoin
\* deferred its deadline.
WindowCloses ==
  \A r \in RoomId, d \in Device : []<>(rooms[r].timers[d] = NoTimer)

\* A rejoin is refused its own seat only if the seat was removed or taken over
\* while it waited: one still offline, under the same connection and with the
\* same timer or none, can be retaken.
UntouchedSeatCanBeRetaken ==
  \A r \in RoomId, d \in Device :
    /\ rooms[r].reserved[d] # NoReservation
    /\ Offline(rooms[r], d)
    /\ SeatAt(rooms[r], SeatNo(rooms[r], d)).socket = rooms[r].reserved[d].seatSocket
    /\ rooms[r].timers[d].id = rooms[r].reserved[d].timer
    => ReservedSeatUnchanged(rooms[r], d)
=============================================================================
