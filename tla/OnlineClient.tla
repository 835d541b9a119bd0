---------------------------- MODULE OnlineClient ----------------------------
(***************************************************************************)
(* One online client and the room it plays in, joined by a connection that *)
(* drops: optimistic moves and their acknowledgement, the move held back   *)
(* while the transport is down, the rejoin, the server-dealt draw and the  *)
(* recovery of a lost answer.                                              *)
(*                                                                         *)
(* A connection carries messages in order in both directions.  A drop      *)
(* loses everything on its way to the client and any suffix of what is on  *)
(* its way to the server; the rest may still be processed, late, until the *)
(* server notices.  Every timer of the client may run out at any moment    *)
(* while it is armed.  The client's handlers and the server's are each one *)
(* step; joinRoom is two, because it waits for the statistics read.        *)
(*                                                                         *)
(* Abstracted: a game state is the gameplay token that names it; whose     *)
(* turn it is (an unauthorized refusal of a stale move is a free choice);  *)
(* the rate limits of requestState and drawCard, which a client that waits *)
(* for each answer stays below.                                            *)
(***************************************************************************)
EXTENDS Naturals, Sequences, FiniteSets, SequencesExt

CONSTANTS MaxConn,      \* bound: connections the client opens
          MaxActs,      \* bound: moves, draws and joins of the player
          MaxOthers,    \* bound: steps of the other members and of the room
          MaxQueue      \* bound: messages in flight beyond which a draw deadline waits

ASSUME OnlineAssumption == {MaxConn, MaxActs, MaxOthers, MaxQueue} \subseteq Nat

Conn == 1..MaxConn
Down == 0               \* no connection; also "no seat" and "no room"
Null == 0               \* null, for ids, tokens and versions

VARIABLES
  \* the server
  life,       \* which room lives under the room id; Down when there is none
  lives,      \* rooms ever created under it
  token,      \* gameplayToken of the present room
  landed,     \* history: every token a room has had
  version,    \* stateVersion of the present room
  seat,       \* the connection that holds this device's seat; Down when it has none
  seatUp,     \* the seat is not marked disconnected
  receipt,    \* acceptedDraw: the last accepted draw and the token it led to
  joining,    \* joinRoom handlers waiting for the statistics read
  up,         \* messages on their way to the server, per connection
  \* the client
  down,       \* messages on their way to the client, on its present connection
  conn,       \* the present connection; Down while the transport is down
  conns,      \* connections opened so far
  inRoom,     \* mode is online and roomId is set
  rejoin,     \* the automatic rejoin: "none", "asked", "retry" (timer armed) or "expired"
  joinEpoch,  \* the joinRoom attempt waited for
  joinWanted, \* that attempt is still waited for
  recent,     \* lastReconnectAt is set
  shown,      \* gameplayToken of the state on screen
  floor,      \* lastAppliedStateVersion
  acting,     \* onlineActionPending
  popup,      \* showReconnectPopup
  pend,       \* pendingMutationIds, in insertion order
  pendBase,   \* pendingMutationBase
  parked,     \* parkedPush
  watch,      \* pushWatchdogs: the emissions whose answer or echo is awaited
  retry,      \* the push pushRejoinRetryTimer will send again
  draw,       \* pendingDraw
  \* history and bounds
  ids,        \* ids handed out so far
  nulled,     \* draws answered null while seated
  acts, others

server == <<life, lives, token, landed, version, seat, seatUp, receipt, joining>>
moves == <<pend, pendBase, parked, watch, retry>>
view == <<shown, floor, acting, popup>>
wire == <<up, down, conn, conns>>
session == <<inRoom, rejoin, joinEpoch, joinWanted, recent>>
bounds == <<ids, acts, others>>
vars == <<server, moves, view, wire, session, draw, nulled, bounds>>

-----------------------------------------------------------------------------
Acts == acts < MaxActs /\ acts' = acts + 1
NoPush == [id |-> Null]
NoDraw == [id |-> Null]
NoReceipt == [draw |-> Null, token |-> Null]

Fresh == ids + 1
Becomes(t) == token' = t /\ landed' = landed \cup {t}

State(v, t, rc, req) == [kind |-> "gameState", version |-> v, token |-> t, receipt |-> rc, req |-> req]

\* emitRoomState: a new version, sent to the seat if its connection is the client's.
Broadcast(before, after) ==
  /\ version' = version + 1
  /\ down' = before \o (IF seat' # Down /\ seat' = conn /\ seatUp'
                        THEN <<State(version + 1, token', receipt', Null)>> ELSE <<>>) \o after

\* An acknowledgement reaches the client only on the connection it belongs to.
To(c, msg) == IF c = conn THEN <<msg>> ELSE <<>>

SendAll(msgs) == up' = [up EXCEPT ![conn] = @ \o msgs]
Send(msg) == SendAll(<<msg>>)
ReadState(req) == [kind |-> "requestState", req |-> req]
JoinMsg(re, attempt) == [kind |-> "joinRoom", re |-> re, attempt |-> attempt]

-----------------------------------------------------------------------------
\* The server.  Only what this client's traffic meets; RoomGame and
\* SeatLifecycle model the room and its seats in full.

Handle(c, kind) == up[c] # <<>> /\ Head(up[c]).kind = kind
Take(c) == up' = [up EXCEPT ![c] = Tail(@)]

\* pushState: the seat's connection, then the base; accepted, the move is the new token.
ServerPush(c) ==
  /\ Handle(c, "pushState") /\ Take(c)
  /\ LET msg == Head(up[c])
         Ack(ok, why) == [kind |-> "pushAck", id |-> msg.id, first |-> msg.first, ok |-> ok, why |-> why]
         Refuse(why) == down' = down \o To(c, Ack(FALSE, why))
                        /\ UNCHANGED <<token, landed, version>>
     IN \/ life = Down /\ Refuse("no-room")
        \/ life # Down /\ seat # c /\ Refuse("unauthorized")
        \/ life # Down /\ seat = c /\ Refuse("rate-limited")
        \/ life # Down /\ seat = c /\ msg.base # token /\ \E why \in {"stale-base", "unauthorized"} : Refuse(why)
        \/ /\ life # Down /\ seat = c /\ msg.base = token
           /\ Becomes(msg.id)
           /\ UNCHANGED <<seat, seatUp, receipt>>
           /\ Broadcast(down, To(c, Ack(TRUE, "ok")))
  /\ UNCHANGED <<life, lives, seat, seatUp, receipt, joining, moves, view, conn, conns, session, draw, nulled, bounds>>

\* drawCard: a repeated request is answered from the receipt; a new one deals.
ServerDraw(c) ==
  /\ Handle(c, "drawCard") /\ Take(c)
  /\ LET msg == Head(up[c])
         Ack(ok) == [kind |-> "drawAck", id |-> msg.id, ok |-> ok]
         repeated == receipt.draw = msg.id /\ receipt.token = token
     IN \/ /\ life = Down \/ seat # c \/ (msg.base # token /\ ~repeated)
           /\ down' = down \o To(c, Ack(FALSE))
           /\ UNCHANGED <<token, landed, version, receipt, ids>>
        \/ /\ life # Down /\ seat = c /\ repeated
           /\ down' = down \o To(c, Ack(TRUE))
           /\ UNCHANGED <<token, landed, version, receipt, ids>>
        \/ /\ life # Down /\ seat = c /\ ~repeated /\ msg.base = token
           /\ ids' = Fresh
           /\ Becomes(Fresh)
           /\ receipt' = [draw |-> msg.id, token |-> Fresh]
           /\ UNCHANGED <<seat, seatUp>>
           /\ Broadcast(down, To(c, Ack(TRUE)))
  /\ UNCHANGED <<life, lives, seat, seatUp, joining, moves, view, conn, conns, session, draw, nulled, acts, others>>

\* requestState: answered to a live seat alone, under the present version.
ServerRead(c) ==
  /\ Handle(c, "requestState") /\ Take(c)
  /\ down' = IF life # Down /\ seat = c
             THEN down \o To(c, State(version, token, receipt, Head(up[c]).req)) ELSE down
  /\ UNCHANGED <<server, moves, view, conn, conns, session, draw, nulled, bounds>>

JoinAck(j, res) == [kind |-> "joinAck", attempt |-> j.attempt, res |-> res]

\* joinRoom up to its await: it supersedes an earlier join of its connection, a
\* rejoin needs a room, and a disconnected seat is reserved by the first
\* connection that asks for it.
ServerJoin(c) ==
  /\ Handle(c, "joinRoom") /\ Take(c)
  /\ LET msg == Head(up[c])
         rest == {j \in joining : j.conn # c}
         reserves == life # Down /\ seat # Down /\ ~seatUp
         taken == reserves /\ \E j \in rest : j.room = life
         Answer(res) == down' = down \o To(c, JoinAck(msg, res)) /\ joining' = rest
     IN \/ msg.re /\ life = Down /\ Answer("room-gone")
        \/ ~(msg.re /\ life = Down) /\ taken /\ Answer("rejoin_pending")
        \/ /\ ~(msg.re /\ life = Down) /\ ~taken
           /\ joining' = rest \cup {[conn |-> c, re |-> msg.re, attempt |-> msg.attempt,
                                     room |-> IF reserves THEN life ELSE Down]}
           /\ UNCHANGED down
  /\ UNCHANGED <<life, lives, token, landed, version, seat, seatUp, receipt, moves, view, conn, conns, session, draw, nulled, bounds>>

\* seatTakenOver: the connection that held the seat until now is told.
Superseded(j) == IF seat # Down /\ seat = conn /\ j.conn # conn THEN <<[kind |-> "kicked"]>> ELSE <<>>

\* joinRoom after its await: the seat moves to this connection, or a new seat
\* is taken (a game under way refuses one), or the room is created.
ServerSeat(j) ==
  /\ j \in joining
  /\ joining' = joining \ {j}
  /\ LET Fail(res) == /\ down' = down \o To(j.conn, JoinAck(j, res))
                      /\ UNCHANGED <<life, lives, token, landed, version, seat, seatUp, receipt, ids>>
         Seated == /\ seat' = j.conn /\ seatUp' = TRUE
                   /\ Broadcast(down \o Superseded(j) \o To(j.conn, JoinAck(j, "ok")), <<>>)
         gone == life = Down
         moved == j.room # Down /\ (j.room # life \/ seat = Down \/ seatUp)
     IN \/ gone /\ j.re /\ Fail("room-gone")
        \/ ~gone /\ moved /\ Fail("superseded")
        \/ ~gone /\ ~moved /\ seat = Down /\ Fail("game_running")
        \/ /\ ~gone /\ ~moved
           /\ UNCHANGED <<life, lives, token, landed, receipt, ids>>
           /\ Seated
        \/ /\ gone /\ ~j.re
           /\ lives' = lives + 1 /\ life' = lives + 1
           /\ ids' = Fresh /\ Becomes(Fresh) /\ receipt' = NoReceipt
           /\ seat' = j.conn /\ seatUp' = TRUE
           /\ version' = 1
           /\ down' = down \o (IF j.conn = conn
                               THEN <<JoinAck(j, "ok"), State(1, Fresh, NoReceipt, Null)>> ELSE <<>>)
  /\ UNCHANGED <<moves, view, up, conn, conns, session, draw, nulled, acts, others>>

ServerLeave(c) ==
  /\ Handle(c, "leaveRoom") /\ Take(c)
  /\ seat' = IF seat = c THEN Down ELSE seat
  /\ seatUp' = IF seat = c THEN FALSE ELSE seatUp
  /\ joining' = {j \in joining : j.conn # c}
  /\ UNCHANGED <<life, lives, token, landed, version, receipt, moves, view, down, conn, conns, session, draw, nulled, bounds>>

\* The server's 'disconnect': what had not been processed never will be.
ServerNotices(c) ==
  /\ c <= conns /\ c # conn
  /\ up[c] # <<>> \/ (seat = c /\ seatUp) \/ \E j \in joining : j.conn = c
  /\ up' = [up EXCEPT ![c] = <<>>]
  /\ seatUp' = (seatUp /\ seat # c)
  /\ joining' = {j \in joining : j.conn # c}
  /\ version' = IF seat = c /\ seatUp THEN version + 1 ELSE version
  /\ UNCHANGED <<life, lives, token, landed, seat, receipt, moves, view, down, conn, conns, session, draw, nulled, bounds>>

-----------------------------------------------------------------------------
\* The other members, and the room around them.

Outside == others < MaxOthers /\ others' = others + 1

\* A broadcast that changes no gameplay: presence, a colour, a config echo.
Presence ==
  /\ Outside /\ life # Down
  /\ UNCHANGED <<life, lives, token, landed, seat, seatUp, receipt, joining>>
  /\ Broadcast(down, <<>>)
  /\ UNCHANGED <<moves, view, up, conn, conns, session, draw, nulled, ids, acts>>

\* Another member's accepted move, or the turn clock.
OtherMove ==
  /\ Outside /\ life # Down
  /\ ids' = Fresh /\ Becomes(Fresh)
  /\ UNCHANGED <<life, lives, seat, seatUp, receipt, joining>>
  /\ Broadcast(down, <<>>)
  /\ UNCHANGED <<moves, view, up, conn, conns, session, draw, nulled, acts>>

\* Kicked, or the reconnect window ran out.
LoseSeat ==
  /\ Outside /\ life # Down /\ seat # Down
  /\ seat' = Down /\ seatUp' = FALSE
  /\ down' = IF seat = conn THEN Append(down, [kind |-> "kicked"]) ELSE down
  /\ version' = version + 1
  /\ UNCHANGED <<life, lives, token, landed, receipt, joining, moves, view, up, conn, conns, session, draw, nulled, ids, acts>>

\* The server restarts, or the last seat empties: the room is gone, and
\* the client's connection with it.
RoomGone ==
  /\ Outside /\ life # Down /\ conn = Down
  /\ life' = Down /\ token' = Null /\ landed' = landed /\ version' = 0 /\ seat' = Down /\ seatUp' = FALSE
  /\ receipt' = NoReceipt /\ joining' = {}
  /\ up' = [c \in Conn |-> <<>>]
  /\ UNCHANGED <<lives, moves, view, down, conn, conns, session, draw, nulled, ids, acts>>

\* Somebody creates a room under the same id: its versions start over.
Recreated ==
  /\ life = Down
  /\ lives' = lives + 1 /\ life' = lives + 1
  /\ ids' = Fresh /\ Becomes(Fresh) /\ version' = 1
  /\ UNCHANGED <<seat, seatUp, receipt, joining, moves, view, up, down, conn, conns, session, draw, nulled, acts, others>>

-----------------------------------------------------------------------------
\* The client.

Receives(kind) == down # <<>> /\ Head(down).kind = kind
Taken == down' = Tail(down)

ClearPredictions == pend' = <<>> /\ pendBase' = Null /\ watch' = {}

\* The store's half of giving the room up: its identity and everything on screen.
ClearRoomState ==
  inRoom' = FALSE /\ shown' = Null /\ floor' = Null /\ acting' = FALSE /\ popup' = FALSE

\* The other half is cancelPendingOnlineWork: moves, draws and rejoins under way.
Out ==
  /\ ClearRoomState
  /\ rejoin' = "none" /\ joinWanted' = FALSE /\ recent' = FALSE
  /\ ClearPredictions /\ parked' = NoPush /\ retry' = NoPush
  /\ draw' = NoDraw
  /\ UNCHANGED joinEpoch

\* Giving the room up for a local game also closes the connection.
OutLocal ==
  /\ Out
  /\ conn' = Down /\ down' = <<>>

PushMsg(p, first) == [kind |-> "pushState", id |-> p.id, base |-> p.base, first |-> first]
Emission(p, first) == [id |-> p.id, base |-> p.base, first |-> first]

\* pushState (the store's action): one move at a time, shown before it is accepted;
\* held back while the transport is down.
Push ==
  /\ inRoom /\ ~acting /\ shown # Null /\ Acts
  /\ ids' = Fresh
  /\ LET p == [id |-> Fresh, base |-> IF parked # NoPush THEN parked.base ELSE shown]
     IN /\ pendBase' = IF pend = <<>> THEN p.base ELSE pendBase
        /\ pend' = Append(pend, p.id)
        /\ shown' = p.id
        /\ IF conn = Down \/ parked # NoPush
           THEN parked' = p /\ UNCHANGED <<watch, up>>
           ELSE Send(PushMsg(p, TRUE)) /\ watch' = watch \cup {Emission(p, TRUE)} /\ UNCHANGED parked
  /\ acting' = TRUE /\ retry' = NoPush
  /\ UNCHANGED <<server, floor, popup, down, conn, conns, session, draw, nulled, others>>

\* The acknowledgement callback of emitPushState.  It speaks only for an
\* emission still watched, and a refusal only for a move still predicted.
Watched(msg) == {w \in watch : w.id = msg.id /\ w.first = msg.first}
Predicted(id) == \E i \in DOMAIN pend : pend[i] = id
Refusal(msg) == Watched(msg) # {} /\ ~msg.ok /\ Predicted(msg.id)
RacedRejoin(msg) == msg.why = "unauthorized" /\ msg.first /\ recent

PushSettled(msg) ==
  /\ ~Refusal(msg)
  /\ Taken
  /\ watch' = IF msg.ok /\ Predicted(msg.id) THEN watch ELSE watch \ Watched(msg)
  /\ UNCHANGED <<pend, pendBase, parked, retry, view, up, conn, session, draw>>

PushRetried(msg) ==
  /\ Refusal(msg) /\ RacedRejoin(msg)
  /\ Taken
  /\ watch' = watch \ Watched(msg)
  /\ \E w \in Watched(msg) : retry' = [id |-> w.id, base |-> w.base]
  /\ UNCHANGED <<pend, pendBase, parked, view, up, conn, session, draw>>

PushRoomGone(msg) ==
  /\ Refusal(msg) /\ msg.why = "no-room"
  /\ OutLocal
  /\ Send([kind |-> "leaveRoom"])

\* Any other refusal, and an unauthorized one that is not retried: read the room.
PushRefused(msg) ==
  /\ Refusal(msg) /\ msg.why # "no-room"
  /\ Taken
  /\ ClearPredictions
  /\ Send(ReadState(Null))
  /\ UNCHANGED <<parked, retry, view, conn, session, draw>>

ClientPushAck ==
  /\ Receives("pushAck") /\ inRoom
  /\ LET msg == Head(down)
     IN PushSettled(msg) \/ PushRetried(msg) \/ PushRoomGone(msg) \/ PushRefused(msg)
  /\ UNCHANGED <<server, conns, nulled, bounds>>

\* Seeded fault of WatchdogFires: the player may act on the unconfirmed move.
WatchdogTrusts ==
  /\ watch # {}
  /\ ClearPredictions /\ retry' = NoPush /\ acting' = FALSE
  /\ UNCHANGED <<server, parked, shown, floor, popup, up, down, conn, conns, session, draw, nulled, bounds>>

\* PUSH_RECONCILE_TIMEOUT_MS without an answer or an echo: read, never replay.
WatchdogFires ==
  /\ watch # {}
  /\ ClearPredictions /\ retry' = NoPush
  /\ Send(ReadState(Null))
  /\ UNCHANGED <<server, parked, view, down, conn, conns, session, draw, nulled, bounds>>

\* PUSH_REJOIN_RETRY_DELAY_MS after an unauthorized refusal that raced the rejoin.
RetryFires ==
  /\ retry # NoPush /\ retry' = NoPush
  /\ IF conn # Down
     THEN Send(PushMsg(retry, FALSE)) /\ watch' = watch \cup {Emission(retry, FALSE)} /\ UNCHANGED parked
     ELSE parked' = retry /\ UNCHANGED <<watch, up>>
  /\ UNCHANGED <<server, pend, pendBase, view, down, conn, conns, session, draw, nulled, bounds>>

-----------------------------------------------------------------------------
\* The gameState handler.

\* History: a draw asked by a client that had not given up its rejoin is answered null.
Nulled == IF draw.seated THEN nulled \cup {draw.id} ELSE nulled

\* Seeded fault of SettleDraw: any state without the receipt answers null.
SettleOnAnyState(msg) ==
  LET dealt == draw # NoDraw /\ msg.receipt.draw = draw.id /\ msg.receipt.token = msg.token
      ended == draw # NoDraw /\ ~dealt
  IN /\ draw' = IF dealt \/ ended THEN NoDraw ELSE draw
     /\ nulled' = IF ended THEN Nulled ELSE nulled

\* A receipt answers the draw it names; another turn, or the correlated read
\* that finds no receipt, answers null.
SettleDraw(msg) ==
  LET dealt == draw # NoDraw /\ msg.receipt.draw = draw.id /\ msg.receipt.token = msg.token
      ended == draw # NoDraw /\ ~dealt /\ (msg.token # draw.base \/ (draw.asked /\ msg.req = draw.id))
  IN /\ draw' = IF dealt \/ ended THEN NoDraw ELSE draw
     /\ nulled' = IF ended THEN Nulled ELSE nulled

Adopt(msg) ==
  /\ shown' = msg.token /\ floor' = msg.version /\ acting' = FALSE /\ popup' = FALSE

ClientState ==
  /\ Receives("gameState") /\ Taken
  /\ LET msg == Head(down)
         stale == ~inRoom \/ (floor # Null /\ msg.version < floor)
         ancestor == pend # <<>> /\ msg.token = pendBase
         accepted == {i \in DOMAIN pend : pend[i] = msg.token}
         later == SubSeq(pend, CHOOSE i \in accepted : TRUE, Len(pend))
     IN \/ stale /\ UNCHANGED <<moves, view, draw, nulled>>
        \/ /\ ~stale /\ ancestor
           /\ SettleDraw(msg)
           /\ floor' = msg.version
           /\ UNCHANGED <<moves, shown, acting, popup>>
        \/ /\ ~stale /\ ~ancestor /\ accepted # {}
           /\ SettleDraw(msg)
           /\ pend' = Tail(later)
           /\ watch' = {w \in watch : \E i \in DOMAIN pend' : pend'[i] = w.id}
           /\ UNCHANGED <<parked, retry>>
           /\ IF pend' # <<>>
              THEN pendBase' = msg.token /\ floor' = msg.version /\ UNCHANGED <<shown, acting, popup>>
              ELSE pendBase' = Null /\ Adopt(msg)
        \/ /\ ~stale /\ ~ancestor /\ accepted = {}
           /\ SettleDraw(msg)
           /\ ClearPredictions
           /\ UNCHANGED <<parked, retry>>
           /\ Adopt(msg)
  /\ UNCHANGED <<server, up, conn, conns, session, bounds>>

-----------------------------------------------------------------------------
\* The server-dealt draw.

DrawMsg(d) == [kind |-> "drawCard", id |-> d.id, base |-> d.base]

\* Seeded fault of Recover: the read is not correlated with the draw.
RecoverUncorrelated(d) == [d EXCEPT !.phase = "recover"]

\* recover: read the room until one correlated answer comes; wait while it cannot.
Recover(d) == IF conn = Down \/ popup THEN [d EXCEPT !.phase = "recover"]
              ELSE [d EXCEPT !.phase = "recover", !.asked = TRUE]
RecoverMsgs(d) == IF d = NoDraw \/ conn = Down \/ popup THEN <<>> ELSE <<ReadState(d.id)>>

\* requestServerDraw: refused without a connection, or while another is waited for.
RequestDraw ==
  /\ inRoom /\ ~acting /\ conn # Down /\ shown # Null /\ draw = NoDraw /\ Acts
  /\ ids' = Fresh
  /\ LET d == [id |-> Fresh, base |-> shown, phase |-> "sent", asked |-> FALSE, seated |-> rejoin # "expired"]
     IN IF popup THEN draw' = Recover(d) /\ UNCHANGED up
                 ELSE draw' = d /\ Send(DrawMsg(d))
  /\ UNCHANGED <<server, moves, view, down, conn, conns, session, nulled, others>>

\* DRAW_CARD_ACK_TIMEOUT_MS: one retry under the same id, then recovery.
DrawDeadline ==
  /\ draw # NoDraw
  /\ conn # Down => Len(up[conn]) + Len(down) < MaxQueue
  /\ IF draw.phase = "sent" /\ conn # Down /\ ~popup
     THEN draw' = [draw EXCEPT !.phase = "resent"] /\ Send(DrawMsg(draw))
     ELSE /\ draw' = Recover(draw)
          /\ IF conn = Down THEN UNCHANGED up ELSE SendAll(RecoverMsgs(draw))
  /\ UNCHANGED <<server, moves, view, down, conn, conns, session, nulled, bounds>>

ClientDrawAck ==
  /\ Receives("drawAck") /\ Taken
  /\ LET mine == inRoom /\ draw # NoDraw /\ draw.id = Head(down).id
     IN /\ draw' = IF mine THEN NoDraw ELSE draw
        /\ nulled' = IF mine /\ ~Head(down).ok THEN Nulled ELSE nulled
  /\ UNCHANGED <<server, moves, view, up, conn, conns, session, bounds>>

-----------------------------------------------------------------------------
\* The connection, the rejoin, and the joins and departures of the player.

\* The transport drops: watchdogs and the rejoin go, the lineage of the held move stays.
Drop ==
  /\ conn # Down /\ conns < MaxConn
  /\ conn' = Down /\ down' = <<>>
  /\ \E n \in 0..Len(up[conn]) : up' = [up EXCEPT ![conn] = SubSeq(@, 1, n)]
  /\ watch' = {} /\ rejoin' = "none"
  /\ popup' = (popup \/ inRoom)
  /\ UNCHANGED <<server, pend, pendBase, parked, retry, shown, floor, acting, conns, inRoom, joinEpoch, joinWanted,
                 recent, draw, nulled, bounds>>

Connect ==
  /\ conn = Down /\ conns < MaxConn
  /\ conns' = conns + 1 /\ conn' = conns + 1 /\ down' = <<>>
  /\ recent' = TRUE
  /\ IF inRoom THEN rejoin' = "asked" /\ up' = [up EXCEPT ![conns + 1] = <<JoinMsg(TRUE, 0)>>] /\ UNCHANGED popup
               ELSE popup' = FALSE /\ UNCHANGED <<rejoin, up>>
  /\ UNCHANGED <<server, moves, shown, floor, acting, inRoom, joinEpoch, joinWanted, draw, nulled, bounds>>

\* Seeded fault of Flush: the dropped move stays predicted.
FlushKeepsPrediction(aged) ==
  IF parked = NoPush THEN ClearPredictions
  ELSE /\ pend' = <<parked.id>> /\ pendBase' = parked.base
       /\ watch' = IF aged THEN {} ELSE {Emission(parked, TRUE)}

\* flushParkedPush: one shot; a move held longer than PARKED_EMIT_MAX_AGE_MS is dropped.
Flush(aged) ==
  IF parked = NoPush \/ aged
  THEN ClearPredictions
  ELSE pend' = <<parked.id>> /\ pendBase' = parked.base /\ watch' = {Emission(parked, TRUE)}

ClientRejoined ==
  /\ Receives("joinAck") /\ Head(down).attempt = 0 /\ rejoin = "asked" /\ Head(down).res = "ok"
  /\ Taken
  /\ rejoin' = "none" /\ floor' = Null
  /\ \E aged \in IF parked = NoPush THEN {FALSE} ELSE BOOLEAN :
       /\ Flush(aged)
       /\ SendAll((IF parked # NoPush /\ ~aged THEN <<PushMsg(parked, TRUE)>> ELSE <<>>)
                  \o (IF pend # <<>> /\ parked = NoPush THEN <<ReadState(Null)>> ELSE <<>>)
                  \o RecoverMsgs(draw))
  /\ parked' = NoPush
  /\ draw' = IF draw = NoDraw THEN NoDraw ELSE Recover(draw)
  /\ UNCHANGED <<server, retry, shown, acting, popup, conn, conns, inRoom, joinEpoch, joinWanted, recent, nulled, bounds>>

ClientRejoinRefused ==
  /\ Receives("joinAck") /\ Head(down).attempt = 0 /\ rejoin = "asked"
  /\ \/ /\ Head(down).res = "rejoin_pending"
        /\ Taken /\ rejoin' = "retry"
        /\ UNCHANGED <<moves, view, up, conn, inRoom, joinEpoch, joinWanted, recent, draw>>
     \/ /\ Head(down).res \in {"superseded", "game_running"}
        /\ Taken /\ Out /\ Send([kind |-> "leaveRoom"])
        /\ UNCHANGED conn
     \/ /\ Head(down).res = "room-gone"
        /\ OutLocal /\ Send([kind |-> "leaveRoom"])
  /\ UNCHANGED <<server, conns, nulled, bounds>>

\* REJOIN_PENDING_RETRY_DELAY_MS, and the JOIN_TIMEOUT_MS watchdog over all retries.
\* A draw's own deadline is half as long and runs since before the drop.
RejoinAgain ==
  /\ rejoin = "retry" /\ rejoin' = "asked"
  /\ Send(JoinMsg(TRUE, 0))
  /\ UNCHANGED <<server, moves, view, down, conn, conns, inRoom, joinEpoch, joinWanted, recent, draw, nulled, bounds>>

RejoinExpires ==
  /\ rejoin \in {"asked", "retry"} /\ rejoin' = "expired" /\ popup' = FALSE
  /\ draw # NoDraw => draw.phase = "recover"
  /\ UNCHANGED <<server, moves, shown, floor, acting, wire, inRoom, joinEpoch, joinWanted, recent, draw, nulled, bounds>>

\* joinRoom by hand (the form, an invite, the restored session) and its answer.
Join(re) ==
  /\ ~inRoom /\ conn # Down /\ Acts
  /\ joinEpoch' = joinEpoch + 1 /\ joinWanted' = TRUE
  /\ Send(JoinMsg(re, joinEpoch + 1))
  /\ UNCHANGED <<server, moves, view, down, conn, conns, inRoom, rejoin, recent, draw, nulled, ids, others>>

ClientJoined ==
  /\ Receives("joinAck") /\ Head(down).attempt # 0 /\ Taken
  /\ LET current == joinWanted /\ Head(down).attempt = joinEpoch
         seated == current /\ Head(down).res = "ok"
     IN /\ joinWanted' = (joinWanted /\ ~current)
        /\ inRoom' = (inRoom \/ seated)
        /\ shown' = IF seated THEN Null ELSE shown
        /\ floor' = IF seated THEN Null ELSE floor
  /\ UNCHANGED <<server, moves, acting, popup, up, conn, conns, rejoin, joinEpoch, recent, draw, nulled, bounds>>

\* leaveRoom and cancelReconnect.
Leave ==
  /\ inRoom \/ joinWanted
  /\ Out
  /\ IF conn # Down THEN Send([kind |-> "leaveRoom"]) ELSE UNCHANGED up
  /\ UNCHANGED <<server, down, conn, conns, nulled, bounds>>

\* kicked and seatTakenOver; what a client no longer in a room is sent is ignored.
ClientKicked ==
  /\ Receives("kicked") /\ inRoom
  /\ OutLocal
  /\ UNCHANGED <<server, up, conns, nulled, bounds>>

ClientIgnores ==
  /\ \/ Receives("kicked") /\ ~inRoom
     \/ Receives("pushAck") /\ ~inRoom
     \/ Receives("joinAck") /\ Head(down).attempt = 0 /\ rejoin # "asked"
  /\ Taken
  /\ UNCHANGED <<server, moves, view, up, conn, conns, session, draw, nulled, bounds>>

-----------------------------------------------------------------------------
Init ==
  /\ life = 1 /\ lives = 1 /\ token = 1 /\ landed = {1} /\ version = 1
  /\ seat = 1 /\ seatUp = TRUE /\ receipt = NoReceipt /\ joining = {}
  /\ up = [c \in Conn |-> <<>>] /\ down = <<>> /\ conn = 1 /\ conns = 1
  /\ inRoom = TRUE /\ rejoin = "none" /\ joinEpoch = 0 /\ joinWanted = FALSE /\ recent = TRUE
  /\ shown = 1 /\ floor = 1 /\ acting = FALSE /\ popup = FALSE
  /\ pend = <<>> /\ pendBase = Null /\ parked = NoPush /\ watch = {} /\ retry = NoPush
  /\ draw = NoDraw /\ nulled = {} /\ ids = 1 /\ acts = 0 /\ others = 0

ServerStep ==
  \/ \E c \in Conn : \/ ServerPush(c) \/ ServerDraw(c) \/ ServerRead(c) \/ ServerJoin(c)
                     \/ ServerLeave(c) \/ ServerNotices(c)
  \/ \E j \in joining : ServerSeat(j)

ClientReceives ==
  \/ ClientPushAck \/ ClientState \/ ClientDrawAck \/ ClientRejoined \/ ClientRejoinRefused
  \/ ClientJoined \/ ClientKicked \/ ClientIgnores

Timers == WatchdogFires \/ RetryFires \/ DrawDeadline \/ RejoinAgain \/ RejoinExpires
PlayerActs == Push \/ RequestDraw \/ Leave \/ \E re \in BOOLEAN : Join(re)
OthersAct == Presence \/ OtherMove \/ LoseSeat \/ RoomGone \/ Recreated

Next == ServerStep \/ ClientReceives \/ Timers \/ PlayerActs \/ OthersAct \/ Drop \/ Connect
Spec == Init /\ [][Next]_vars

\* Timers run out, messages arrive, a dropped transport is opened again.  Nobody
\* has to act, the server need not drop anyone, and no message is lost by fairness.
Fairness ==
  /\ \A c \in Conn : /\ WF_vars(ServerPush(c) \/ ServerDraw(c) \/ ServerRead(c) \/ ServerJoin(c) \/ ServerLeave(c))
                     /\ WF_vars(ServerNotices(c))
                     /\ WF_vars(\E j \in joining : j.conn = c /\ ServerSeat(j))
  /\ WF_vars(ClientReceives)
  /\ WF_vars(WatchdogFires) /\ WF_vars(RetryFires) /\ WF_vars(DrawDeadline)
  /\ WF_vars(RejoinAgain) /\ WF_vars(RejoinExpires) /\ WF_vars(Connect)
LiveSpec == Spec /\ Fairness

-----------------------------------------------------------------------------
\* What is on screen once nothing is awaited is a state the server has really
\* had: no refused, dropped or timed-out move outlives its prediction.
NoPhantomMove == inRoom /\ ~acting /\ shown # Null => shown \in landed

\* A draw answered null was not dealt in the turn that is still running: the
\* turn the player banks does not leave a dealt card behind.
NullDrawIsSafe == \A d \in nulled : ~(receipt.draw = d /\ receipt.token = token)

\* Whatever was lost, refused or overtaken on the way, a client that is still
\* in its room when the room falls quiet shows the room's state and can act.
\* (The rejoin deadline gives up for good: the player is told and may leave.)
Converges == <>[](inRoom /\ rejoin # "expired" => shown = token /\ ~acting /\ ~popup)

\* A draw is answered in the end: the panel that waits for it never stays shut.
DrawIsAnswered == draw # NoDraw ~> (draw = NoDraw \/ rejoin = "expired")
=============================================================================
