------------------------- MODULE OnlineClient_proofs -------------------------
(***************************************************************************)
(* What the client has on screen, for any number of connections, moves and *)
(* steps of the others.                                                    *)
(*                                                                         *)
(* NoPhantomMove speaks of the screen alone and is kept because of what is *)
(* on the way: a state the client may adopt is one its room has had        *)
(* (WireTypes: the tokens of the messages are of `landed`), the token in   *)
(* force is one of them (TokenLanded), and a move that is only predicted   *)
(* is on screen only while the client is acting.                           *)
(***************************************************************************)
EXTENDS OnlineClient, SequenceTheorems, TLAPS

Moves == [id : Nat, base : Nat]
Emissions == [id : Nat, base : Nat, first : BOOLEAN]
Receipts == [draw : Nat, token : Nat]
Joins == [conn : Conn, re : BOOLEAN, attempt : Nat, room : Nat]
Draws == [id : Nat, base : Nat, phase : {"sent", "resent", "recover"}, asked : BOOLEAN, seated : BOOLEAN]

Reasons == {"ok", "no-room", "unauthorized", "rate-limited", "stale-base"}
Results == {"ok", "room-gone", "rejoin_pending", "superseded", "game_running"}

ToServer ==
  [kind : {"pushState"}, id : Nat, base : Nat, first : BOOLEAN]
    \cup [kind : {"drawCard"}, id : Nat, base : Nat]
    \cup [kind : {"requestState"}, req : Nat]
    \cup [kind : {"joinRoom"}, re : BOOLEAN, attempt : Nat]
    \cup [kind : {"leaveRoom"}]

\* What may be on its way to the client of a room that has had these tokens.
ToClient(tokens) ==
  [kind : {"gameState"}, version : Nat, token : tokens, receipt : Receipts, req : Nat]
    \cup [kind : {"pushAck"}, id : Nat, first : BOOLEAN, ok : BOOLEAN, why : Reasons]
    \cup [kind : {"drawAck"}, id : Nat, ok : BOOLEAN]
    \cup [kind : {"joinAck"}, attempt : Nat, res : Results]
    \cup [kind : {"kicked"}]

ServerTypes ==
  /\ life \in Nat /\ lives \in Nat /\ token \in Nat /\ landed \subseteq Nat
  /\ version \in Nat /\ seat \in Nat
  /\ receipt \in Receipts /\ joining \subseteq Joins

ClientTypes ==
  /\ joinEpoch \in Nat /\ shown \in Nat /\ ids \in Nat
  /\ parked \in {NoPush} \cup Moves /\ retry \in {NoPush} \cup Moves
  /\ watch \subseteq Emissions
  /\ draw \in {NoDraw} \cup Draws

WireTypes == up \in [Conn -> Seq(ToServer)] /\ down \in Seq(ToClient(landed))

TokenLanded == life # Down => token \in landed

ScreenInv == ServerTypes /\ ClientTypes /\ WireTypes /\ TokenLanded /\ NoPhantomMove

-----------------------------------------------------------------------------
\* Messages and queues.

LEMMA PushFields ==
  ASSUME NEW m \in ToServer, m.kind = "pushState"
  PROVE  m.id \in Nat /\ m.base \in Nat /\ m.first \in BOOLEAN
BY DEF ToServer

LEMMA DrawFields ==
  ASSUME NEW m \in ToServer, m.kind = "drawCard"
  PROVE  m.id \in Nat /\ m.base \in Nat
BY DEF ToServer

LEMMA ReadFields ==
  ASSUME NEW m \in ToServer, m.kind = "requestState"
  PROVE  m.req \in Nat
BY DEF ToServer

LEMMA JoinFields ==
  ASSUME NEW m \in ToServer, m.kind = "joinRoom"
  PROVE  m.re \in BOOLEAN /\ m.attempt \in Nat
BY DEF ToServer

LEMMA StateFields ==
  ASSUME NEW L, NEW m \in ToClient(L), m.kind = "gameState"
  PROVE  m.version \in Nat /\ m.token \in L /\ m.receipt \in Receipts /\ m.req \in Nat
BY DEF ToClient

\* A room's tokens only grow, and what was true of a message stays so.
LEMMA MoreTokens ==
  ASSUME NEW L, NEW M, L \subseteq M
  PROVE  Seq(ToClient(L)) \subseteq Seq(ToClient(M))
<1>1. ToClient(L) \subseteq ToClient(M)
  BY DEF ToClient
<1> QED BY <1>1

LEMMA Takes ==
  ASSUME up \in [Conn -> Seq(ToServer)], NEW c \in Conn, NEW k, Handle(c, k), Take(c)
  PROVE  /\ Head(up[c]) \in ToServer /\ Head(up[c]).kind = k
         /\ up' \in [Conn -> Seq(ToServer)]
<1>1. up[c] \in Seq(ToServer) /\ up[c] # <<>> /\ Head(up[c]).kind = k
  BY DEF Handle
<1>2. Head(up[c]) \in ToServer /\ Tail(up[c]) \in Seq(ToServer)
  BY <1>1
<1>3. up' = [up EXCEPT ![c] = Tail(up[c])]
  BY DEF Take
<1> QED BY <1>1, <1>2, <1>3

LEMMA SendsAll ==
  ASSUME up \in [Conn -> Seq(ToServer)], NEW msgs \in Seq(ToServer), SendAll(msgs)
  PROVE  up' \in [Conn -> Seq(ToServer)]
<1>1. CASE conn \in Conn
  <2>1. up[conn] \o msgs \in Seq(ToServer)
    BY <1>1, ConcatProperties
  <2> QED BY <2>1 DEF SendAll
<1>2. CASE conn \notin Conn
  BY <1>2 DEF SendAll
<1> QED BY <1>1, <1>2

LEMMA Sends ==
  ASSUME up \in [Conn -> Seq(ToServer)], NEW m \in ToServer, Send(m)
  PROVE  up' \in [Conn -> Seq(ToServer)]
<1>1. <<m>> \in Seq(ToServer)
  OBVIOUS
<1> QED BY <1>1, SendsAll DEF Send

LEMMA PushIsMessage ==
  ASSUME NEW p \in Moves, NEW first \in BOOLEAN
  PROVE  PushMsg(p, first) \in ToServer /\ Emission(p, first) \in Emissions
BY DEF Moves, PushMsg, Emission, ToServer, Emissions

LEMMA Received ==
  ASSUME down \in Seq(ToClient(landed)), NEW k, Receives(k)
  PROVE  /\ Head(down) \in ToClient(landed) /\ Head(down).kind = k
         /\ Tail(down) \in Seq(ToClient(landed))
BY DEF Receives

\* One more message behind those on the way, if it is the client's connection.
LEMMA Answers ==
  ASSUME NEW L, NEW q \in Seq(ToClient(L)), NEW m \in ToClient(L), NEW c
  PROVE  q \o To(c, m) \in Seq(ToClient(L))
<1>1. To(c, m) \in Seq(ToClient(L))
  BY DEF To
<1> QED BY <1>1, ConcatProperties

LEMMA AnswerAlone ==
  ASSUME NEW L, NEW m \in ToClient(L), NEW c
  PROVE  To(c, m) \in Seq(ToClient(L))
BY DEF To

LEMMA StateIsMessage ==
  ASSUME NEW L, NEW v \in Nat, NEW t \in L, NEW rc \in Receipts, NEW req \in Nat
  PROVE  State(v, t, rc, req) \in ToClient(L)
BY DEF State, ToClient

\* A broadcast of the present token keeps every state on the way a real one.
LEMMA BroadcastTypes ==
  ASSUME version \in Nat, NEW before \in Seq(ToClient(landed')), NEW after \in Seq(ToClient(landed')),
         token' \in landed', receipt' \in Receipts, Broadcast(before, after)
  PROVE  version' \in Nat /\ down' \in Seq(ToClient(landed'))
<1>1. State(version + 1, token', receipt', Null) \in ToClient(landed')
  BY StateIsMessage DEF Null
<1> DEFINE told == IF seat' # Down /\ seat' = conn /\ seatUp'
                   THEN <<State(version + 1, token', receipt', Null)>> ELSE <<>>
<1>2. told \in Seq(ToClient(landed'))
  BY <1>1
<1>3. down' = before \o told \o after /\ version' = version + 1
  BY DEF Broadcast
<1>4. (before \o told) \in Seq(ToClient(landed'))
  <2> HIDE DEF told
  <2> QED BY <1>2, ConcatProperties
<1>5. (before \o told) \o after \in Seq(ToClient(landed'))
  <2> HIDE DEF told
  <2> QED BY <1>4, ConcatProperties
<1> QED BY <1>3, <1>5

-----------------------------------------------------------------------------
\* The server's handlers.  None of them touches what the client keeps.

ClientSide == <<inRoom, joinEpoch, acting, shown, parked, retry, watch, draw>>

LEMMA ClientUntouched ==
  ASSUME ScreenInv, UNCHANGED ClientSide, ids' \in Nat, landed \subseteq landed'
  PROVE  ClientTypes' /\ NoPhantomMove'
BY DEF ScreenInv, ClientTypes, NoPhantomMove, ClientSide, NoPush, NoDraw, Null, Moves, Emissions, Draws

\* A new token is one the room has had from then on.
LEMMA NewToken ==
  ASSUME ScreenInv, NEW t \in Nat, Becomes(t)
  PROVE  /\ token' \in Nat /\ landed' \subseteq Nat /\ token' \in landed' /\ landed \subseteq landed'
         /\ down \in Seq(ToClient(landed'))
<1>1. token' = t /\ landed' = landed \cup {t} /\ landed \subseteq landed'
  BY DEF Becomes
<1>2. Seq(ToClient(landed)) \subseteq Seq(ToClient(landed'))
  BY <1>1, MoreTokens
<1> QED BY <1>1, <1>2 DEF ScreenInv, ServerTypes, WireTypes

LEMMA ServerPushScreen ==
  ASSUME ScreenInv, NEW c \in Conn, ServerPush(c)
  PROVE  ScreenInv'
<1> DEFINE msg == Head(up[c])
           Refused(why) == [kind |-> "pushAck", id |-> msg.id, first |-> msg.first, ok |-> FALSE, why |-> why]
           Accepted == [kind |-> "pushAck", id |-> msg.id, first |-> msg.first, ok |-> TRUE, why |-> "ok"]
<1>1. msg \in ToServer /\ msg.kind = "pushState" /\ up' \in [Conn -> Seq(ToServer)]
  BY Takes DEF ServerPush, ScreenInv, WireTypes
<1>2. msg.id \in Nat /\ msg.first \in BOOLEAN
  BY SMTT(30), <1>1, PushFields
<1>3. UNCHANGED ClientSide /\ ids' = ids /\ UNCHANGED <<life, lives, seat, receipt, joining>>
  BY DEF ServerPush, moves, view, session, bounds, ClientSide
<1>4. ASSUME NEW L, NEW why \in Reasons
      PROVE  Refused(why) \in ToClient(L) /\ Accepted \in ToClient(L)
  BY <1>2 DEF ToClient, Reasons
<1>5. ASSUME NEW why \in Reasons,
             down' = down \o To(c, Refused(why)) /\ UNCHANGED <<token, landed, version>>
      PROVE  ScreenInv'
  <2>1. Refused(why) \in ToClient(landed)
    BY <1>4
  <2>2. down' \in Seq(ToClient(landed))
    <3> HIDE DEF Refused, Accepted
    <3> QED BY <1>5, <2>1, Answers DEF ScreenInv, WireTypes
  <2>3. ClientTypes' /\ NoPhantomMove'
    BY <1>3, <1>5, ClientUntouched DEF ScreenInv, ClientTypes
  <2>4. ServerTypes' /\ TokenLanded'
    BY <1>3, <1>5 DEF ScreenInv, ServerTypes, TokenLanded
  <2>5. WireTypes'
    BY <1>1, <1>5, <2>2 DEF WireTypes
  <2> QED BY <2>3, <2>4, <2>5 DEF ScreenInv
<1>6. ASSUME Becomes(msg.id), Broadcast(down, To(c, Accepted))
      PROVE  ScreenInv'
  <2>1. /\ token' \in Nat /\ landed' \subseteq Nat /\ token' \in landed' /\ landed \subseteq landed'
        /\ down \in Seq(ToClient(landed'))
    BY <1>2, <1>6, NewToken
  <2>2. To(c, Accepted) \in Seq(ToClient(landed'))
    <3>1. Accepted \in ToClient(landed')
      BY <1>2 DEF ToClient, Reasons
    <3> HIDE DEF Refused, Accepted
    <3> QED BY <3>1, AnswerAlone
  <2>3. version' \in Nat /\ down' \in Seq(ToClient(landed'))
    <3> HIDE DEF Refused, Accepted
    <3> QED BY <1>3, <1>6, <2>1, <2>2, BroadcastTypes DEF ScreenInv, ServerTypes
  <2>4. ClientTypes' /\ NoPhantomMove'
    BY <1>3, <2>1, ClientUntouched DEF ScreenInv, ClientTypes
  <2>5. ServerTypes' /\ TokenLanded'
    BY <1>3, <2>1, <2>3 DEF ScreenInv, ServerTypes, TokenLanded
  <2>6. WireTypes'
    BY <1>1, <2>3 DEF WireTypes
  <2> QED BY <2>4, <2>5, <2>6 DEF ScreenInv
<1> QED
  <2> DEFINE Refuse(why) == down' = down \o To(c, Refused(why)) /\ UNCHANGED <<token, landed, version>>
  <2>1. \/ Refuse("no-room") \/ Refuse("unauthorized") \/ Refuse("rate-limited") \/ Refuse("stale-base")
        \/ Becomes(msg.id) /\ Broadcast(down, To(c, Accepted))
    BY DEF ServerPush
  <2>2. ASSUME NEW why \in Reasons, Refuse(why) PROVE ScreenInv'
    BY <1>5, <2>2
  <2> QED
    <3> HIDE DEF Refuse, Accepted
    <3> QED BY <2>1, <2>2, <1>6 DEF Reasons

LEMMA ServerDrawScreen ==
  ASSUME ScreenInv, NEW c \in Conn, ServerDraw(c)
  PROVE  ScreenInv'
<1> DEFINE msg == Head(up[c])
           Ack(ok) == [kind |-> "drawAck", id |-> msg.id, ok |-> ok]
<1>1. msg \in ToServer /\ msg.kind = "drawCard" /\ up' \in [Conn -> Seq(ToServer)]
  BY Takes DEF ServerDraw, ScreenInv, WireTypes
<1>2. msg.id \in Nat
  BY <1>1, DrawFields
<1>3. UNCHANGED ClientSide /\ UNCHANGED <<life, lives, seat, joining>>
  BY DEF ServerDraw, moves, view, session, ClientSide
<1>4. ASSUME NEW L, NEW ok \in BOOLEAN
      PROVE  Ack(ok) \in ToClient(L)
  BY <1>2, <1>4 DEF ToClient
<1>5. ASSUME NEW ok \in BOOLEAN,
             down' = down \o To(c, Ack(ok)) /\ UNCHANGED <<token, landed, version, receipt, ids>>
      PROVE  ScreenInv'
  <2>1. Ack(ok) \in ToClient(landed)
    BY <1>4
  <2>2. down' \in Seq(ToClient(landed))
    <3> HIDE DEF Ack
    <3> QED BY <1>5, <2>1, Answers DEF ScreenInv, WireTypes
  <2>3. ClientTypes' /\ NoPhantomMove'
    BY <1>3, <1>5, ClientUntouched DEF ScreenInv, ClientTypes
  <2>4. ServerTypes' /\ TokenLanded'
    BY <1>3, <1>5 DEF ScreenInv, ServerTypes, TokenLanded
  <2>5. WireTypes'
    BY <1>1, <1>5, <2>2 DEF WireTypes
  <2> QED BY <2>3, <2>4, <2>5 DEF ScreenInv
<1>6. ASSUME ids' = Fresh, Becomes(Fresh), receipt' = [draw |-> msg.id, token |-> Fresh],
             Broadcast(down, To(c, Ack(TRUE)))
      PROVE  ScreenInv'
  <2>0. Fresh \in Nat
    BY DEF Fresh, ScreenInv, ClientTypes
  <2>1. /\ token' \in Nat /\ landed' \subseteq Nat /\ token' \in landed' /\ landed \subseteq landed'
        /\ down \in Seq(ToClient(landed'))
    BY <1>6, <2>0, NewToken
  <2>2. To(c, Ack(TRUE)) \in Seq(ToClient(landed'))
    <3>1. Ack(TRUE) \in ToClient(landed')
      BY <1>2 DEF ToClient
    <3> HIDE DEF Ack
    <3> QED BY <3>1, AnswerAlone
  <2>3. receipt' \in Receipts
    BY <1>2, <1>6, <2>0 DEF Receipts
  <2>4. version' \in Nat /\ down' \in Seq(ToClient(landed'))
    <3> HIDE DEF Ack
    <3> QED BY <1>6, <2>1, <2>2, <2>3, BroadcastTypes DEF ScreenInv, ServerTypes
  <2>5. ClientTypes' /\ NoPhantomMove'
    BY <1>3, <1>6, <2>0, <2>1, ClientUntouched
  <2>6. ServerTypes' /\ TokenLanded'
    BY <1>3, <2>1, <2>3, <2>4 DEF ScreenInv, ServerTypes, TokenLanded
  <2>7. WireTypes'
    BY <1>1, <2>4 DEF WireTypes
  <2> QED BY <2>5, <2>6, <2>7 DEF ScreenInv
<1> QED
  <2>1. \/ \E ok \in BOOLEAN : down' = down \o To(c, Ack(ok)) /\ UNCHANGED <<token, landed, version, receipt, ids>>
        \/ /\ ids' = Fresh /\ Becomes(Fresh) /\ receipt' = [draw |-> msg.id, token |-> Fresh]
           /\ Broadcast(down, To(c, Ack(TRUE)))
    BY DEF ServerDraw
  <2> QED BY <2>1, <1>5, <1>6

\* What the remaining server handlers and the others leave alone.
LEMMA SameTokens ==
  ASSUME ScreenInv, UNCHANGED ClientSide, UNCHANGED <<ids, token, landed>>,
         life' \in Nat, life' # Down => life # Down, lives' \in Nat, version' \in Nat, seat' \in Nat,
         receipt' \in Receipts, joining' \subseteq Joins,
         up' \in [Conn -> Seq(ToServer)], down' \in Seq(ToClient(landed))
  PROVE  ScreenInv'
<1>1. ClientTypes' /\ NoPhantomMove'
  BY ClientUntouched DEF ScreenInv, ClientTypes
<1>2. ServerTypes' /\ TokenLanded'
  BY DEF ScreenInv, ServerTypes, TokenLanded
<1>3. WireTypes'
  BY DEF WireTypes
<1> QED BY <1>1, <1>2, <1>3 DEF ScreenInv

LEMMA SameTypes ==
  ASSUME ScreenInv
  PROVE  /\ life \in Nat /\ lives \in Nat /\ version \in Nat /\ seat \in Nat /\ ids \in Nat
         /\ token \in Nat /\ landed \subseteq Nat /\ receipt \in Receipts /\ joining \subseteq Joins
         /\ up \in [Conn -> Seq(ToServer)] /\ down \in Seq(ToClient(landed))
         /\ version + 1 \in Nat /\ lives + 1 \in Nat /\ Fresh \in Nat
BY DEF ScreenInv, ServerTypes, ClientTypes, WireTypes, Fresh

LEMMA ServerReadScreen ==
  ASSUME ScreenInv, NEW c \in Conn, ServerRead(c)
  PROVE  ScreenInv'
<1> DEFINE msg == Head(up[c])
<1>1. msg \in ToServer /\ msg.kind = "requestState" /\ up' \in [Conn -> Seq(ToServer)]
  BY Takes, SameTypes DEF ServerRead
<1>2. msg.req \in Nat
  BY <1>1, ReadFields
<1>3. UNCHANGED ClientSide /\ UNCHANGED <<life, lives, token, landed, version, seat, receipt, joining, ids>>
  BY DEF ServerRead, server, moves, view, session, bounds, ClientSide
<1>4. down' \in Seq(ToClient(landed))
  <2>1. CASE life # Down /\ seat = c
    <3>1. State(version, token, receipt, msg.req) \in ToClient(landed)
      BY <2>1, <1>2, SameTypes, StateIsMessage DEF ScreenInv, TokenLanded
    <3>2. down' = down \o To(c, State(version, token, receipt, msg.req))
      BY <2>1 DEF ServerRead
    <3> QED BY <3>1, <3>2, SameTypes, Answers
  <2>2. CASE ~(life # Down /\ seat = c)
    BY <2>2, SameTypes DEF ServerRead
  <2> QED BY <2>1, <2>2
<1> QED BY <1>1, <1>3, <1>4, SameTypes, SameTokens

LEMMA JoinAckIsMessage ==
  ASSUME NEW L, NEW j, j.attempt \in Nat, NEW res \in Results
  PROVE  JoinAck(j, res) \in ToClient(L)
BY DEF JoinAck, ToClient

LEMMA ServerJoinScreen ==
  ASSUME ScreenInv, NEW c \in Conn, ServerJoin(c)
  PROVE  ScreenInv'
<1> DEFINE msg == Head(up[c])
           reserves == life # Down /\ seat # Down /\ ~seatUp
           rest == {j \in joining : j.conn # c}
           entry == [conn |-> c, re |-> msg.re, attempt |-> msg.attempt, room |-> IF reserves THEN life ELSE Down]
<1>1. msg \in ToServer /\ msg.kind = "joinRoom" /\ up' \in [Conn -> Seq(ToServer)]
  BY Takes, SameTypes DEF ServerJoin
<1>2. msg.re \in BOOLEAN /\ msg.attempt \in Nat
  BY <1>1, JoinFields
<1>3. UNCHANGED ClientSide /\ UNCHANGED <<life, lives, token, landed, version, seat, receipt, ids>>
  BY DEF ServerJoin, moves, view, session, bounds, ClientSide
<1>4. \/ \E res \in Results : down' = down \o To(c, JoinAck(msg, res)) /\ joining' = rest
      \/ joining' = rest \cup {entry} /\ down' = down
  BY DEF ServerJoin, Results
<1>5. CASE \E res \in Results : down' = down \o To(c, JoinAck(msg, res)) /\ joining' = rest
  <2>1. PICK res \in Results : down' = down \o To(c, JoinAck(msg, res)) /\ joining' = rest
    BY <1>5
  <2>2. JoinAck(msg, res) \in ToClient(landed)
    BY <1>2, JoinAckIsMessage
  <2>3. down' \in Seq(ToClient(landed))
    BY <2>1, <2>2, SameTypes, Answers
  <2>4. joining' \subseteq Joins
    BY <2>1, SameTypes
  <2> QED BY <1>1, <1>3, <2>3, <2>4, SameTypes, SameTokens
<1>6. CASE joining' = rest \cup {entry} /\ down' = down
  <2>1. entry \in Joins
    BY <1>2, SameTypes DEF Joins, Down
  <2>2. joining' \subseteq Joins
    <3> HIDE DEF entry
    <3> QED BY <1>6, <2>1, SameTypes
  <2> QED BY <1>1, <1>3, <1>6, <2>2, SameTypes, SameTokens
<1> QED BY <1>4, <1>5, <1>6

LEMMA ServerSeatScreen ==
  ASSUME ScreenInv, NEW j \in joining, ServerSeat(j)
  PROVE  ScreenInv'
<1>1. j.conn \in Conn /\ j.conn \in Nat /\ j.attempt \in Nat
  BY SameTypes DEF Joins, Conn
<1>2. joining' \subseteq Joins /\ up' = up
  BY SameTypes DEF ServerSeat
<1>3. UNCHANGED ClientSide
  BY DEF ServerSeat, moves, view, session, ClientSide
<1>4. ASSUME NEW res \in Results, down' = down \o To(j.conn, JoinAck(j, res)),
             UNCHANGED <<life, lives, token, landed, version, seat, receipt, ids>>
      PROVE  ScreenInv'
  <2>1. JoinAck(j, res) \in ToClient(landed)
    BY <1>1, JoinAckIsMessage
  <2>2. down' \in Seq(ToClient(landed))
    BY <1>4, <2>1, SameTypes, Answers
  <2> QED BY <1>2, <1>3, <1>4, <2>2, SameTypes, SameTokens
<1>5. ASSUME UNCHANGED <<life, lives, token, landed, receipt, ids>>, life # Down, seat' = j.conn,
             Broadcast(down \o Superseded(j) \o To(j.conn, JoinAck(j, "ok")), <<>>)
      PROVE  ScreenInv'
  <2>1. JoinAck(j, "ok") \in ToClient(landed)
    BY <1>1, JoinAckIsMessage DEF Results
  <2>2. Superseded(j) \in Seq(ToClient(landed))
    <3>1. [kind |-> "kicked"] \in ToClient(landed)
      BY DEF ToClient
    <3> QED BY <3>1 DEF Superseded
  <2>3. down \o Superseded(j) \in Seq(ToClient(landed))
    BY <2>2, SameTypes, ConcatProperties
  <2>4. (down \o Superseded(j)) \o To(j.conn, JoinAck(j, "ok")) \in Seq(ToClient(landed))
    BY <2>1, <2>3, Answers
  <2>5. landed' = landed /\ token' \in landed' /\ receipt' \in Receipts
    BY <1>5, SameTypes DEF ScreenInv, TokenLanded
  <2>6. version' \in Nat /\ down' \in Seq(ToClient(landed'))
    <3> DEFINE before == down \o Superseded(j) \o To(j.conn, JoinAck(j, "ok"))
    <3>1. before \in Seq(ToClient(landed')) /\ <<>> \in Seq(ToClient(landed'))
      BY <2>4, <2>5
    <3>2. Broadcast(before, <<>>)
      BY <1>5
    <3> HIDE DEF before
    <3> QED BY <2>5, <3>1, <3>2, SameTypes, BroadcastTypes
  <2> QED BY <1>1, <1>2, <1>3, <1>5, <2>5, <2>6, SameTypes, SameTokens
<1>6. ASSUME lives' = lives + 1, life' = lives + 1, ids' = Fresh, Becomes(Fresh), receipt' = NoReceipt,
             seat' = j.conn, version' = 1,
             down' = down \o (IF j.conn = conn
                              THEN <<JoinAck(j, "ok"), State(1, Fresh, NoReceipt, Null)>> ELSE <<>>)
      PROVE  ScreenInv'
  <2>1. /\ token' \in Nat /\ landed' \subseteq Nat /\ token' \in landed' /\ landed \subseteq landed'
        /\ down \in Seq(ToClient(landed')) /\ token' = Fresh
    BY <1>6, SameTypes, NewToken DEF Becomes
  <2>2. receipt' \in Receipts /\ NoReceipt \in Receipts
    BY <1>6 DEF Receipts, NoReceipt, Null
  <2>3. JoinAck(j, "ok") \in ToClient(landed') /\ State(1, Fresh, NoReceipt, Null) \in ToClient(landed')
    BY <1>1, <2>1, <2>2, JoinAckIsMessage, StateIsMessage DEF Results, Null
  <2> DEFINE told == IF j.conn = conn THEN <<JoinAck(j, "ok"), State(1, Fresh, NoReceipt, Null)>> ELSE <<>>
  <2>4. told \in Seq(ToClient(landed'))
    BY <2>3
  <2>5. down' \in Seq(ToClient(landed'))
    <3>1. down' = down \o told
      BY <1>6
    <3> HIDE DEF told
    <3> QED BY <2>1, <2>4, <3>1, ConcatProperties
  <2>6. ClientTypes' /\ NoPhantomMove'
    BY <1>3, <1>6, <2>1, SameTypes, ClientUntouched
  <2>7. ServerTypes' /\ TokenLanded'
    BY <1>1, <1>2, <1>6, <2>1, <2>2, SameTypes DEF ServerTypes, TokenLanded
  <2>8. WireTypes'
    BY <1>2, <2>5, SameTypes DEF WireTypes
  <2> QED BY <2>6, <2>7, <2>8 DEF ScreenInv
<1> DEFINE Fail(res) == down' = down \o To(j.conn, JoinAck(j, res))
                        /\ UNCHANGED <<life, lives, token, landed, version, seat, receipt, ids>>
<1>7. \/ Fail("room-gone") \/ Fail("superseded") \/ Fail("game_running")
      \/ /\ UNCHANGED <<life, lives, token, landed, receipt, ids>> /\ life # Down /\ seat' = j.conn
         /\ Broadcast(down \o Superseded(j) \o To(j.conn, JoinAck(j, "ok")), <<>>)
      \/ /\ lives' = lives + 1 /\ life' = lives + 1 /\ ids' = Fresh /\ Becomes(Fresh)
         /\ receipt' = NoReceipt /\ seat' = j.conn /\ version' = 1
         /\ down' = down \o (IF j.conn = conn
                             THEN <<JoinAck(j, "ok"), State(1, Fresh, NoReceipt, Null)>> ELSE <<>>)
  BY DEF ServerSeat
<1>8. ASSUME NEW res \in Results, Fail(res) PROVE ScreenInv'
  BY <1>4, <1>8
<1> QED
  <2> HIDE DEF Fail
  <2> QED BY <1>5, <1>6, <1>7, <1>8 DEF Results

LEMMA ServerLeaveScreen ==
  ASSUME ScreenInv, NEW c \in Conn, ServerLeave(c) \/ ServerNotices(c)
  PROVE  ScreenInv'
<1>1. UNCHANGED ClientSide /\ UNCHANGED <<life, lives, token, landed, receipt, ids, down>>
  BY DEF ServerLeave, ServerNotices, moves, view, session, bounds, ClientSide
<1>2. seat' \in Nat /\ version' \in Nat /\ joining' \subseteq Joins
  <2>1. joining' \subseteq joining
    BY DEF ServerLeave, ServerNotices
  <2>2. seat' \in {seat, Down} /\ version' \in {version, version + 1}
    BY DEF ServerLeave, ServerNotices
  <2> QED BY <2>1, <2>2, SameTypes DEF Down
<1>3. up' \in [Conn -> Seq(ToServer)]
  <2>1. CASE ServerLeave(c)
    BY <2>1, Takes, SameTypes DEF ServerLeave
  <2>2. CASE ServerNotices(c)
    <3>1. <<>> \in Seq(ToServer) /\ up' = [up EXCEPT ![c] = <<>>]
      BY <2>2 DEF ServerNotices
    <3> QED BY <3>1, SameTypes
  <2> QED BY <2>1, <2>2
<1> QED BY <1>1, <1>2, <1>3, SameTypes, SameTokens

LEMMA OthersScreen ==
  ASSUME ScreenInv, OthersAct
  PROVE  ScreenInv'
<1>1. UNCHANGED ClientSide
  BY DEF OthersAct, Presence, OtherMove, LoseSeat, RoomGone, Recreated, moves, view, session, ClientSide
<1>0. <<>> \in Seq(ToClient(landed')) /\ <<>> \in Seq(ToServer)
  OBVIOUS
<1>2. CASE Presence
  <2>1. UNCHANGED <<life, lives, token, landed, seat, receipt, joining, up, ids>> /\ life # Down
        /\ Broadcast(down, <<>>)
    BY <1>2 DEF Presence
  <2>2. token' \in landed' /\ landed' = landed /\ receipt' \in Receipts
    BY <2>1, SameTypes DEF ScreenInv, TokenLanded
  <2>3. version' \in Nat /\ down' \in Seq(ToClient(landed'))
    BY <1>0, <2>1, <2>2, SameTypes, BroadcastTypes
  <2> QED BY <1>1, <2>1, <2>2, <2>3, SameTypes, SameTokens
<1>3. CASE OtherMove
  <2>1. UNCHANGED <<life, lives, seat, receipt, joining, up>> /\ ids' = Fresh /\ Becomes(Fresh)
        /\ Broadcast(down, <<>>)
    BY <1>3 DEF OtherMove
  <2>2. /\ token' \in Nat /\ landed' \subseteq Nat /\ token' \in landed' /\ landed \subseteq landed'
        /\ down \in Seq(ToClient(landed'))
    BY <2>1, SameTypes, NewToken
  <2>3. version' \in Nat /\ down' \in Seq(ToClient(landed'))
    BY <1>0, <2>1, <2>2, SameTypes, BroadcastTypes
  <2>4. ClientTypes' /\ NoPhantomMove'
    BY <1>1, <2>1, <2>2, SameTypes, ClientUntouched
  <2>5. ServerTypes' /\ TokenLanded'
    BY <2>1, <2>2, <2>3, SameTypes DEF ServerTypes, TokenLanded
  <2>6. WireTypes'
    BY <2>1, <2>3, SameTypes DEF WireTypes
  <2> QED BY <2>4, <2>5, <2>6 DEF ScreenInv
<1>4. CASE LoseSeat
  <2>1. UNCHANGED <<life, lives, token, landed, receipt, joining, up, ids>> /\ seat' = Down /\ version' = version + 1
        /\ down' = (IF seat = conn THEN Append(down, [kind |-> "kicked"]) ELSE down)
    BY <1>4 DEF LoseSeat
  <2>2. [kind |-> "kicked"] \in ToClient(landed)
    BY DEF ToClient
  <2>3. down' \in Seq(ToClient(landed))
    BY <2>1, <2>2, SameTypes
  <2> QED BY <1>1, <2>1, <2>3, SameTypes, SameTokens DEF Down
<1>5. CASE RoomGone
  <2>1. /\ life' = Down /\ token' = Null /\ landed' = landed /\ version' = 0 /\ seat' = Down
        /\ receipt' = NoReceipt /\ joining' = {} /\ UNCHANGED <<lives, down, ids>>
        /\ up' = [c \in Conn |-> <<>>]
    BY <1>5 DEF RoomGone
  <2>2. ClientTypes' /\ NoPhantomMove'
    BY <1>1, <2>1, SameTypes, ClientUntouched
  <2>3. ServerTypes' /\ TokenLanded'
    BY <2>1, SameTypes DEF ServerTypes, TokenLanded, Down, Null, NoReceipt, Receipts
  <2>4. WireTypes'
    BY <1>0, <2>1, SameTypes DEF WireTypes
  <2> QED BY <2>2, <2>3, <2>4 DEF ScreenInv
<1>6. CASE Recreated
  <2>1. UNCHANGED <<seat, receipt, joining, up, down>> /\ ids' = Fresh /\ Becomes(Fresh)
        /\ life' = lives + 1 /\ lives' = lives + 1 /\ version' = 1
    BY <1>6 DEF Recreated
  <2>2. /\ token' \in Nat /\ landed' \subseteq Nat /\ token' \in landed' /\ landed \subseteq landed'
        /\ down \in Seq(ToClient(landed'))
    BY <2>1, SameTypes, NewToken
  <2>3. ClientTypes' /\ NoPhantomMove'
    BY <1>1, <2>1, <2>2, SameTypes, ClientUntouched
  <2>4. ServerTypes' /\ TokenLanded'
    BY <2>1, <2>2, SameTypes DEF ServerTypes, TokenLanded
  <2>5. WireTypes'
    BY <2>1, <2>2, SameTypes DEF WireTypes
  <2> QED BY <2>3, <2>4, <2>5 DEF ScreenInv
<1> QED BY <1>2, <1>3, <1>4, <1>5, <1>6 DEF OthersAct

-----------------------------------------------------------------------------
\* The client's handlers.  None of them touches the server.

\* A step of the client keeps the invariant if it sends and keeps what it may,
\* and what it newly shows is a state of the room or is shown while acting.
LEMMA ClientKeeps ==
  ASSUME ScreenInv, UNCHANGED <<life, lives, token, landed, version, seat, receipt, joining>>,
         joinEpoch' \in Nat, shown' \in Nat, ids' \in Nat,
         parked' \in {NoPush} \cup Moves, retry' \in {NoPush} \cup Moves,
         watch' \subseteq Emissions, draw' \in {NoDraw} \cup Draws,
         up' \in [Conn -> Seq(ToServer)], down' \in Seq(ToClient(landed)),
         \/ ~inRoom' \/ acting' \/ shown' = Null \/ shown' \in landed
         \/ inRoom /\ ~acting /\ shown' = shown
  PROVE  ScreenInv'
<1>1. ServerTypes' /\ TokenLanded' /\ WireTypes'
  BY DEF ScreenInv, ServerTypes, TokenLanded, WireTypes
<1>2. ClientTypes'
  BY DEF ClientTypes, NoPush, NoDraw, Moves, Draws, Emissions
<1>3. NoPhantomMove'
  BY DEF ScreenInv, NoPhantomMove, Null
<1> QED BY <1>1, <1>2, <1>3 DEF ScreenInv

LEMMA ClientHas ==
  ASSUME ScreenInv
  PROVE  /\ joinEpoch \in Nat /\ shown \in Nat /\ ids \in Nat /\ Fresh \in Nat /\ joinEpoch + 1 \in Nat
         /\ parked \in {NoPush} \cup Moves /\ retry \in {NoPush} \cup Moves
         /\ watch \subseteq Emissions /\ draw \in {NoDraw} \cup Draws
         /\ up \in [Conn -> Seq(ToServer)] /\ down \in Seq(ToClient(landed))
         /\ inRoom /\ ~acting /\ shown # Null => shown \in landed
BY DEF ScreenInv, ClientTypes, WireTypes, NoPhantomMove, Fresh

LEMMA OutScreen ==
  ASSUME ScreenInv, Out, UNCHANGED <<server, ids>>,
         up' \in [Conn -> Seq(ToServer)], down' \in Seq(ToClient(landed))
  PROVE  ScreenInv'
<1>1. /\ inRoom' = FALSE /\ shown' = Null /\ watch' = {} /\ parked' = NoPush /\ retry' = NoPush
      /\ draw' = NoDraw /\ joinEpoch' = joinEpoch
  BY DEF Out, ClearRoomState, ClearPredictions
<1>2. UNCHANGED <<life, lives, token, landed, version, seat, receipt, joining>>
  BY DEF server
<1>3. shown' \in Nat /\ watch' \subseteq Emissions
  BY <1>1 DEF Null
<1> QED BY <1>1, <1>2, <1>3, ClientHas, ClientKeeps

LEMMA LeaveMessage == [kind |-> "leaveRoom"] \in ToServer
BY DEF ToServer

LEMMA ReadMessage == ASSUME NEW req \in Nat PROVE ReadState(req) \in ToServer
BY DEF ToServer, ReadState

LEMMA JoinMessage ==
  ASSUME NEW re \in BOOLEAN, NEW attempt \in Nat
  PROVE  JoinMsg(re, attempt) \in ToServer
BY DEF ToServer, JoinMsg

LEMMA PushScreen ==
  ASSUME ScreenInv, Push
  PROVE  ScreenInv'
<1> DEFINE p == [id |-> Fresh, base |-> IF parked # NoPush THEN parked.base ELSE shown]
<1>1. p \in Moves
  <2>1. parked # NoPush => parked.base \in Nat
    BY ClientHas DEF Moves
  <2> QED BY <2>1, ClientHas DEF Moves
<1>2. /\ ids' = Fresh /\ shown' = Fresh /\ acting' = TRUE /\ retry' = NoPush
      /\ UNCHANGED <<life, lives, token, landed, version, seat, receipt, joining>>
      /\ UNCHANGED <<down, draw, joinEpoch>>
  BY DEF Push, server, session
<1>3. \/ parked' = p /\ UNCHANGED <<watch, up>>
      \/ Send(PushMsg(p, TRUE)) /\ watch' = watch \cup {Emission(p, TRUE)} /\ UNCHANGED parked
  BY DEF Push
<1>4. PushMsg(p, TRUE) \in ToServer /\ Emission(p, TRUE) \in Emissions
  BY <1>1, PushIsMessage
<1>5. /\ parked' \in {NoPush} \cup Moves /\ watch' \subseteq Emissions
      /\ up' \in [Conn -> Seq(ToServer)]
  <2> HIDE DEF p
  <2>1. CASE parked' = p /\ UNCHANGED <<watch, up>>
    BY <1>1, <2>1, ClientHas
  <2>2. CASE Send(PushMsg(p, TRUE)) /\ watch' = watch \cup {Emission(p, TRUE)} /\ UNCHANGED parked
    BY <1>4, <2>2, ClientHas, Sends
  <2> QED BY <1>3, <2>1, <2>2
<1> QED BY <1>2, <1>5, ClientHas, ClientKeeps

LEMMA PushAckScreen ==
  ASSUME ScreenInv, ClientPushAck
  PROVE  ScreenInv'
<1> DEFINE msg == Head(down)
<1>1. Tail(down) \in Seq(ToClient(landed)) /\ <<>> \in Seq(ToClient(landed))
  BY Received, ClientHas DEF ClientPushAck
<1>2. UNCHANGED server /\ UNCHANGED ids
  BY DEF ClientPushAck, bounds
<1>3. UNCHANGED <<life, lives, token, landed, version, seat, receipt, joining>>
  BY <1>2 DEF server
<1>4. CASE PushSettled(msg)
  <2>1. /\ down' = Tail(down) /\ watch' \subseteq watch
        /\ UNCHANGED <<parked, retry, shown, acting, up, inRoom, joinEpoch, draw>>
    BY <1>4 DEF PushSettled, Taken, view, session
  <2> QED BY <1>1, <1>2, <1>3, <2>1, ClientHas, ClientKeeps
<1>5. CASE PushRetried(msg)
  <2>1. /\ down' = Tail(down) /\ watch' \subseteq watch
        /\ UNCHANGED <<parked, shown, acting, up, inRoom, joinEpoch, draw>>
    BY <1>5 DEF PushRetried, Taken, view, session
  <2>2. PICK w \in Watched(msg) : retry' = [id |-> w.id, base |-> w.base]
    BY <1>5 DEF PushRetried
  <2>3. w \in Emissions
    BY ClientHas DEF Watched
  <2>4. retry' \in Moves
    BY <2>2, <2>3 DEF Emissions, Moves
  <2> QED BY <1>1, <1>2, <1>3, <2>1, <2>4, ClientHas, ClientKeeps
<1>6. CASE PushRoomGone(msg)
  <2>1. Out /\ down' = <<>> /\ Send([kind |-> "leaveRoom"])
    BY <1>6 DEF PushRoomGone, OutLocal
  <2>2. up' \in [Conn -> Seq(ToServer)]
    BY <2>1, ClientHas, LeaveMessage, Sends
  <2> QED BY <1>1, <1>2, <2>1, <2>2, OutScreen
<1>7. CASE PushRefused(msg)
  <2>1. /\ down' = Tail(down) /\ watch' = {} /\ Send(ReadState(Null))
        /\ UNCHANGED <<parked, retry, shown, acting, inRoom, joinEpoch, draw>>
    BY <1>7 DEF PushRefused, Taken, view, session, ClearPredictions
  <2>2. up' \in [Conn -> Seq(ToServer)]
    BY <2>1, ClientHas, ReadMessage, Sends DEF Null
  <2> QED BY <1>1, <1>2, <1>3, <2>1, <2>2, ClientHas, ClientKeeps
<1> QED BY <1>4, <1>5, <1>6, <1>7 DEF ClientPushAck

LEMMA TimersScreen ==
  ASSUME ScreenInv, WatchdogFires \/ RetryFires \/ RejoinAgain \/ RejoinExpires
  PROVE  ScreenInv'
<1>1. /\ UNCHANGED <<life, lives, token, landed, version, seat, receipt, joining>>
      /\ UNCHANGED <<down, shown, acting, inRoom, joinEpoch, draw, ids>>
  BY DEF WatchdogFires, RetryFires, RejoinAgain, RejoinExpires, server, view, wire, session, bounds
<1>2. CASE WatchdogFires
  <2>1. watch' = {} /\ retry' = NoPush /\ parked' = parked /\ Send(ReadState(Null))
    BY <1>2 DEF WatchdogFires, ClearPredictions
  <2>2. up' \in [Conn -> Seq(ToServer)]
    BY <2>1, ClientHas, ReadMessage, Sends DEF Null
  <2> QED BY <1>1, <2>1, <2>2, ClientHas, ClientKeeps
<1>3. CASE RetryFires
  <2>1. retry \in Moves /\ retry' = NoPush
    BY <1>3, ClientHas DEF RetryFires
  <2>2. PushMsg(retry, FALSE) \in ToServer /\ Emission(retry, FALSE) \in Emissions
    BY <2>1, PushIsMessage
  <2>3. \/ Send(PushMsg(retry, FALSE)) /\ watch' = watch \cup {Emission(retry, FALSE)} /\ UNCHANGED parked
        \/ parked' = retry /\ UNCHANGED <<watch, up>>
    BY <1>3 DEF RetryFires
  <2>4. up' \in [Conn -> Seq(ToServer)]
    BY <2>2, <2>3, ClientHas, Sends
  <2> QED BY <1>1, <2>1, <2>2, <2>3, <2>4, ClientHas, ClientKeeps
<1>4. CASE RejoinAgain
  <2>1. Send(JoinMsg(TRUE, 0)) /\ UNCHANGED <<parked, retry, watch>>
    BY <1>4 DEF RejoinAgain, moves
  <2>2. up' \in [Conn -> Seq(ToServer)]
    BY <2>1, ClientHas, JoinMessage, Sends
  <2> QED BY <1>1, <2>1, <2>2, ClientHas, ClientKeeps
<1>5. CASE RejoinExpires
  <2>1. UNCHANGED <<parked, retry, watch, up>>
    BY <1>5 DEF RejoinExpires, moves, wire
  <2> QED BY <1>1, <2>1, ClientHas, ClientKeeps
<1> QED BY <1>2, <1>3, <1>4, <1>5

\* The gameState handler: what is adopted is a state the room has had.
LEMMA StateScreen ==
  ASSUME ScreenInv, ClientState
  PROVE  ScreenInv'
<1> DEFINE msg == Head(down)
<1>1. msg \in ToClient(landed) /\ msg.kind = "gameState" /\ Tail(down) \in Seq(ToClient(landed))
  BY Received, ClientHas DEF ClientState
<1>2. msg.token \in landed /\ msg.token \in Nat
  BY <1>1, StateFields, SameTypes
<1>3. /\ down' = Tail(down)
      /\ UNCHANGED <<life, lives, token, landed, version, seat, receipt, joining>>
      /\ UNCHANGED <<up, ids, joinEpoch, inRoom>>
  BY DEF ClientState, Taken, server, session, bounds
<1>4. parked' = parked /\ retry' = retry
  BY DEF ClientState, moves
<1>5. watch' \subseteq watch
  BY DEF ClientState, moves, ClearPredictions
<1>6. draw' \in {draw, NoDraw}
  BY DEF ClientState, SettleDraw
<1>7. \/ UNCHANGED <<shown, acting>>
      \/ shown' = msg.token /\ acting' = FALSE
  BY DEF ClientState, Adopt, view
<1> HIDE DEF msg
<1> QED BY <1>1, <1>2, <1>3, <1>4, <1>5, <1>6, <1>7, ClientHas, ClientKeeps

LEMMA RecoverIsDraw ==
  ASSUME NEW d \in Draws
  PROVE  Recover(d) \in Draws
BY DEF Recover, Draws

LEMMA RecoverSends ==
  ASSUME NEW d \in {NoDraw} \cup Draws
  PROVE  RecoverMsgs(d) \in Seq(ToServer)
<1>1. CASE d = NoDraw \/ conn = Down \/ popup
  BY <1>1 DEF RecoverMsgs
<1>2. CASE ~(d = NoDraw \/ conn = Down \/ popup)
  <2>1. ReadState(d.id) \in ToServer
    BY <1>2, ReadMessage DEF Draws
  <2> QED BY <1>2, <2>1 DEF RecoverMsgs
<1> QED BY <1>1, <1>2

LEMMA DrawMessage ==
  ASSUME NEW d \in Draws
  PROVE  DrawMsg(d) \in ToServer
BY DEF DrawMsg, Draws, ToServer

LEMMA DrawScreen ==
  ASSUME ScreenInv, RequestDraw \/ DrawDeadline \/ ClientDrawAck
  PROVE  ScreenInv'
<1>1. /\ UNCHANGED <<life, lives, token, landed, version, seat, receipt, joining>>
      /\ UNCHANGED <<shown, acting, inRoom, joinEpoch, parked, retry, watch>>
  BY DEF RequestDraw, DrawDeadline, ClientDrawAck, server, view, session, moves
<1>2. CASE RequestDraw
  <2> DEFINE d == [id |-> Fresh, base |-> shown, phase |-> "sent", asked |-> FALSE, seated |-> rejoin # "expired"]
  <2>1. d \in Draws
    BY ClientHas DEF Draws
  <2>2. /\ ids' = Fresh /\ down' = down
        /\ \/ draw' = Recover(d) /\ up' = up
           \/ draw' = d /\ Send(DrawMsg(d))
    BY <1>2 DEF RequestDraw
  <2> HIDE DEF d
  <2>3. draw' \in Draws
    BY <2>1, <2>2, RecoverIsDraw
  <2>4. up' \in [Conn -> Seq(ToServer)]
    BY <2>1, <2>2, ClientHas, DrawMessage, Sends
  <2> QED BY <1>1, <2>2, <2>3, <2>4, ClientHas, ClientKeeps
<1>3. CASE DrawDeadline
  <2>1. draw \in Draws /\ ids' = ids /\ down' = down
    BY <1>3, ClientHas DEF DrawDeadline, bounds
  <2>2. \/ draw' = [draw EXCEPT !.phase = "resent"] /\ Send(DrawMsg(draw))
        \/ draw' = Recover(draw) /\ (up' = up \/ SendAll(RecoverMsgs(draw)))
    BY <1>3 DEF DrawDeadline
  <2>3. draw' \in Draws
    <3>1. [draw EXCEPT !.phase = "resent"] \in Draws
      BY <2>1 DEF Draws
    <3> QED BY <2>1, <2>2, <3>1, RecoverIsDraw
  <2>4. up' \in [Conn -> Seq(ToServer)]
    <3>1. RecoverMsgs(draw) \in Seq(ToServer) /\ DrawMsg(draw) \in ToServer
      BY <2>1, RecoverSends, DrawMessage
    <3>2. CASE Send(DrawMsg(draw))
      BY <3>1, <3>2, ClientHas, Sends
    <3>3. CASE SendAll(RecoverMsgs(draw))
      BY <3>1, <3>3, ClientHas, SendsAll
    <3> QED BY <2>2, <3>2, <3>3, ClientHas
  <2> QED BY <1>1, <2>1, <2>3, <2>4, ClientHas, ClientKeeps
<1>4. CASE ClientDrawAck
  <2>1. draw' \in {draw, NoDraw} /\ down' = Tail(down) /\ up' = up /\ ids' = ids
    BY <1>4 DEF ClientDrawAck, Taken, bounds
  <2>2. Tail(down) \in Seq(ToClient(landed))
    BY <1>4, Received, ClientHas DEF ClientDrawAck
  <2> QED BY <1>1, <2>1, <2>2, ClientHas, ClientKeeps
<1> QED BY <1>2, <1>3, <1>4

LEMMA WireScreen ==
  ASSUME ScreenInv, Drop \/ Connect
  PROVE  ScreenInv'
<1>1. /\ UNCHANGED <<life, lives, token, landed, version, seat, receipt, joining>>
      /\ UNCHANGED <<shown, acting, inRoom, joinEpoch, parked, retry, draw, ids>>
  BY DEF Drop, Connect, server, moves, bounds
<1>2. watch' \in {watch, {}} /\ down' = <<>>
  BY DEF Drop, Connect, moves
<1>3. up' \in [Conn -> Seq(ToServer)]
  <2>1. CASE Drop
    <3>1. PICK n \in 0..Len(up[conn]) : up' = [up EXCEPT ![conn] = SubSeq(up[conn], 1, n)]
      BY <2>1 DEF Drop
    <3>2. conn \in Conn => SubSeq(up[conn], 1, n) \in Seq(ToServer)
      BY ClientHas, SubSeqProperties
    <3> QED BY <3>1, <3>2, ClientHas
  <2>2. CASE Connect
    <3> DEFINE m == JoinMsg(TRUE, 0)
    <3>1. m \in ToServer
      BY JoinMessage
    <3>2. up' = [up EXCEPT ![conns + 1] = <<m>>] \/ up' = up
      BY <2>2 DEF Connect
    <3> HIDE DEF m
    <3>3. <<m>> \in Seq(ToServer)
      BY <3>1
    <3> QED BY <3>2, <3>3, ClientHas
  <2> QED BY <2>1, <2>2
<1> QED BY <1>1, <1>2, <1>3, ClientHas, ClientKeeps

LEMMA RejoinScreen ==
  ASSUME ScreenInv, ClientRejoined
  PROVE  ScreenInv'
<1>1. Tail(down) \in Seq(ToClient(landed))
  BY Received, ClientHas DEF ClientRejoined
<1>2. /\ UNCHANGED <<life, lives, token, landed, version, seat, receipt, joining>>
      /\ UNCHANGED <<retry, shown, acting, inRoom, joinEpoch, ids>>
      /\ down' = Tail(down) /\ parked' = NoPush
      /\ draw' = IF draw = NoDraw THEN NoDraw ELSE Recover(draw)
  BY DEF ClientRejoined, server, bounds, Taken
<1>3. draw' \in {NoDraw} \cup Draws
  BY <1>2, ClientHas, RecoverIsDraw
<1>4. PICK aged \in BOOLEAN :
        /\ Flush(aged)
        /\ SendAll((IF parked # NoPush /\ ~aged THEN <<PushMsg(parked, TRUE)>> ELSE <<>>)
                   \o (IF pend # <<>> /\ parked = NoPush THEN <<ReadState(Null)>> ELSE <<>>)
                   \o RecoverMsgs(draw))
  BY DEF ClientRejoined
<1>5. parked # NoPush => PushMsg(parked, TRUE) \in ToServer /\ Emission(parked, TRUE) \in Emissions
  BY ClientHas, PushIsMessage
<1>6. watch' \subseteq Emissions
  BY <1>4, <1>5, ClientHas DEF Flush, ClearPredictions
<1>7. up' \in [Conn -> Seq(ToServer)]
  <2> DEFINE a == IF parked # NoPush /\ ~aged THEN <<PushMsg(parked, TRUE)>> ELSE <<>>
             b == IF pend # <<>> /\ parked = NoPush THEN <<ReadState(Null)>> ELSE <<>>
             d == RecoverMsgs(draw)
  <2>1. a \in Seq(ToServer)
    <3> DEFINE m == PushMsg(parked, TRUE)
    <3>1. a = <<>> \/ (m \in ToServer /\ a = <<m>>)
      BY <1>5
    <3> HIDE DEF a, b, d, m
    <3>2. CASE a = <<>>
      BY <3>2
    <3>3. CASE m \in ToServer /\ a = <<m>>
      <4>1. <<m>> \in Seq(ToServer)
        BY <3>3
      <4> QED BY <3>3, <4>1
    <3> QED BY <3>1, <3>2, <3>3
  <2>2. ReadState(Null) \in ToServer
    BY ReadMessage DEF Null
  <2>3. b \in Seq(ToServer)
    BY <2>2
  <2>4. d \in Seq(ToServer)
    BY ClientHas, RecoverSends
  <2>5. SendAll((a \o b) \o d)
    BY <1>4
  <2> HIDE DEF a, b, d
  <2>6. (a \o b) \o d \in Seq(ToServer)
    BY <2>1, <2>3, <2>4, ConcatProperties
  <2> QED BY <2>5, <2>6, ClientHas, SendsAll
<1> QED BY <1>1, <1>2, <1>3, <1>6, <1>7, ClientHas, ClientKeeps

LEMMA SessionScreen ==
  ASSUME ScreenInv,
         ClientRejoinRefused \/ (\E re \in BOOLEAN : Join(re)) \/ ClientJoined \/ Leave \/ ClientKicked \/ ClientIgnores
  PROVE  ScreenInv'
<1>0. ASSUME NEW k, Receives(k) PROVE Tail(down) \in Seq(ToClient(landed))
  BY <1>0, Received, ClientHas
<1>e. <<>> \in Seq(ToClient(landed))
  OBVIOUS
<1>1. CASE ClientRejoinRefused
  <2>1. UNCHANGED server /\ ids' = ids /\ Tail(down) \in Seq(ToClient(landed))
    BY <1>0, <1>1 DEF ClientRejoinRefused, bounds
  <2>2. \/ /\ down' = Tail(down)
           /\ UNCHANGED <<shown, acting, inRoom, joinEpoch, parked, retry, watch, draw, up>>
        \/ Out /\ Send([kind |-> "leaveRoom"]) /\ down' \in {Tail(down), <<>>}
    BY <1>1 DEF ClientRejoinRefused, OutLocal, Taken, moves, view
  <2>3. CASE /\ down' = Tail(down)
             /\ UNCHANGED <<shown, acting, inRoom, joinEpoch, parked, retry, watch, draw, up>>
    BY <2>1, <2>3, ClientHas, ClientKeeps DEF server
  <2>4. CASE Out /\ Send([kind |-> "leaveRoom"]) /\ down' \in {Tail(down), <<>>}
    <3>1. up' \in [Conn -> Seq(ToServer)]
      BY <2>4, ClientHas, LeaveMessage, Sends
    <3> QED BY <1>e, <2>1, <2>4, <3>1, OutScreen
  <2> QED BY <2>2, <2>3, <2>4
<1>2. ASSUME NEW re \in BOOLEAN, Join(re) PROVE ScreenInv'
  <2>1. /\ UNCHANGED <<life, lives, token, landed, version, seat, receipt, joining>>
        /\ UNCHANGED <<shown, acting, inRoom, parked, retry, watch, draw, ids, down>>
        /\ joinEpoch' = joinEpoch + 1 /\ Send(JoinMsg(re, joinEpoch + 1))
    BY <1>2 DEF Join, server, moves, view
  <2>2. up' \in [Conn -> Seq(ToServer)]
    BY <2>1, ClientHas, JoinMessage, Sends
  <2> QED BY <2>1, <2>2, ClientHas, ClientKeeps
<1>3. CASE ClientJoined
  <2>1. /\ UNCHANGED <<life, lives, token, landed, version, seat, receipt, joining>>
        /\ UNCHANGED <<acting, parked, retry, watch, draw, ids, up, joinEpoch>>
        /\ down' = Tail(down)
    BY <1>3 DEF ClientJoined, server, moves, bounds, Taken
  <2>2. shown' = Null \/ (shown' = shown /\ (inRoom' => inRoom))
    BY <1>3 DEF ClientJoined
  <2>3. Tail(down) \in Seq(ToClient(landed))
    BY <1>0, <1>3 DEF ClientJoined
  <2>4. shown' \in Nat
    BY <2>2, ClientHas DEF Null
  <2> QED BY <2>1, <2>2, <2>3, <2>4, ClientHas, ClientKeeps
<1>4. CASE Leave
  <2>1. Out /\ UNCHANGED server /\ ids' = ids /\ down' = down /\ (Send([kind |-> "leaveRoom"]) \/ up' = up)
    BY <1>4 DEF Leave, bounds
  <2>2. up' \in [Conn -> Seq(ToServer)]
    BY <2>1, ClientHas, LeaveMessage, Sends
  <2> QED BY <2>1, <2>2, ClientHas, OutScreen
<1>5. CASE ClientKicked
  <2>1. Out /\ UNCHANGED server /\ ids' = ids /\ down' = <<>> /\ up' = up
    BY <1>5 DEF ClientKicked, OutLocal, bounds
  <2> QED BY <1>e, <2>1, ClientHas, OutScreen
<1>6. CASE ClientIgnores
  <2>1. /\ UNCHANGED <<life, lives, token, landed, version, seat, receipt, joining>>
        /\ UNCHANGED <<shown, acting, inRoom, joinEpoch, parked, retry, watch, draw, ids, up>>
        /\ down' = Tail(down)
    BY <1>6 DEF ClientIgnores, server, moves, view, session, bounds, Taken
  <2>2. Tail(down) \in Seq(ToClient(landed))
    BY <1>0, <1>6 DEF ClientIgnores
  <2> QED BY <2>1, <2>2, ClientHas, ClientKeeps
<1> QED BY <1>1, <1>2, <1>3, <1>4, <1>5, <1>6

-----------------------------------------------------------------------------
LEMMA ScreenStart == Init => ScreenInv
<1> SUFFICES ASSUME Init PROVE ScreenInv
  OBVIOUS
<1>1. ServerTypes /\ ClientTypes /\ TokenLanded /\ NoPhantomMove
  BY DEF Init, ServerTypes, ClientTypes, TokenLanded, NoPhantomMove, NoReceipt, Receipts, Null, Down
<1>2. WireTypes
  <2>1. <<>> \in Seq(ToServer) /\ <<>> \in Seq(ToClient(landed))
    OBVIOUS
  <2> QED BY <2>1 DEF Init, WireTypes
<1> QED BY <1>1, <1>2 DEF ScreenInv

LEMMA ScreenStutters == ScreenInv /\ UNCHANGED vars => ScreenInv'
<1> SUFFICES ASSUME ScreenInv, UNCHANGED vars PROVE ScreenInv'
  OBVIOUS
<1>1. /\ UNCHANGED <<life, lives, token, landed, version, seat, receipt, joining>>
      /\ UNCHANGED <<shown, acting, inRoom, joinEpoch, parked, retry, watch, draw, ids, up, down>>
  BY DEF vars, server, moves, view, wire, session, bounds
<1> QED BY <1>1, ClientHas, ClientKeeps

LEMMA ScreenSteps == ScreenInv /\ Next => ScreenInv'
<1> SUFFICES ASSUME ScreenInv, Next PROVE ScreenInv'
  OBVIOUS
<1>1. CASE ServerStep
  BY <1>1, ServerPushScreen, ServerDrawScreen, ServerReadScreen, ServerJoinScreen, ServerLeaveScreen,
     ServerSeatScreen DEF ServerStep
<1>2. CASE ClientReceives
  BY <1>2, PushAckScreen, StateScreen, DrawScreen, RejoinScreen, SessionScreen DEF ClientReceives
<1>3. CASE Timers
  BY <1>3, TimersScreen, DrawScreen DEF Timers
<1>4. CASE PlayerActs
  BY <1>4, PushScreen, DrawScreen, SessionScreen DEF PlayerActs
<1>5. CASE OthersAct
  BY <1>5, OthersScreen
<1>6. CASE Drop \/ Connect
  BY <1>6, WireScreen
<1> QED BY <1>1, <1>2, <1>3, <1>4, <1>5, <1>6 DEF Next

\* Every state on its way to the client is one that the room has had, and so is
\* what the client shows once nothing it did is unconfirmed.
THEOREM ScreenIsSound == Spec => []ScreenInv
<1>1. ScreenInv /\ [Next]_vars => ScreenInv'
  BY ScreenSteps, ScreenStutters
<1> QED BY <1>1, ScreenStart, PTL DEF Spec

\* No refused, dropped or timed-out move stays on screen as if it had happened
\* (pushState, its watchdog, the parked push and the gameState handler of
\* socketSlice.ts).
THEOREM ScreenShowsTheRoom == Spec => []NoPhantomMove
<1>1. ScreenInv => NoPhantomMove
  BY DEF ScreenInv
<1> QED BY <1>1, ScreenIsSound, PTL
=============================================================================
