--------------------------- MODULE StatsSubmission ---------------------------
(***************************************************************************)
(* The clients' side of StatsRecording.  A client that learns of a finish  *)
(* submits its device's row and, as host, the global one, each in a slot   *)
(* of its own: it waits for the answer, sends again after a failed write   *)
(* or no answer at all, a bounded number of times, and holds a submission  *)
(* back while its transport is down, until the rejoin is acknowledged.     *)
(*                                                                         *)
(* A submission may be lost with its connection, and every answer may be   *)
(* late: the deadline then fires first.                                    *)
(*                                                                         *)
(* Abstracted: a submission that outlives its deadline on the way is lost; *)
(* the winning move and its submission are one step; the client learns at  *)
(* once that it lost its seat or became host; a held submission may be     *)
(* found too old at any flush; a page that is rejoining may or may not     *)
(* hold a move back too; the optional finish token is always there.        *)
(***************************************************************************)
EXTENDS StatsRecording

CONSTANTS Submitter,    \* devices whose own row is submitted
          Host,         \* devices that submit the totals when they are host
          Followed,     \* bound of the model: which submissions a behaviour follows
          Wanderer,     \* bound of the model: devices whose connection may drop
          Newcomer,     \* bound of the model: devices that take a seat after a game too
          MaxAttempts   \* STATS_SUBMIT_MAX_ATTEMPTS

ASSUME AttemptsAssumption == MaxAttempts \in Nat \ {0}
ASSUME ClientAssumption == Submitter \subseteq Device /\ Host \subseteq Device /\ Device # {}

VARIABLES
  host,      \* room.host, by device
  link,      \* of each client: "out" of the room, "up", "down" or "joining"
  bound,     \* its seat is held by its present connection
  seen,      \* the finish it last learned of
  followed,  \* the submissions followed in this behaviour
  slot       \* pendingStatsSubmits, of each submission a client may owe

client == <<link, bound, seen, followed>>
subVars == <<vars, host, client, slot>>

Owed == [device : Submitter, event : {"own"}] \cup [device : Host, event : {"global"}]

\* "sent" is on its way, "heard" has reached the server, "unheard" never will be
\* answered; "backoff" waits to be sent again, "parked" for the rejoin.
Slot(st, attempt, finish) == [st |-> st, attempt |-> attempt, game |-> finish]
Idle == Slot("idle", 0, 0)

-----------------------------------------------------------------------------
\* clearPendingStatsSubmit
Cleared(ds) == [o \in Owed |-> IF o.device \in ds THEN Idle ELSE slot[o]]

\* The first attempt of each submission of outs, the other slots as in kept.
SubmitFirst(outs, kept) ==
  slot' = [o \in Owed |-> IF o \in outs /\ o.event \in followed THEN Slot("sent", 1, game) ELSE kept[o]]

\* promoteHostAfterLoss: a host without a seat is replaced by a connected one;
\* one that is only disconnected is replaced when no window is open for it.
PassHost ==
  LET heirs == {d \in Device : seat'[d] = "online"}
  IN IF seat'[host] = "gone" /\ heirs # {} THEN host' \in heirs
     ELSE IF seat'[host] = "offline" THEN host' \in heirs \cup {host} ELSE host' = host

\* The promotion broadcast: a client that already knows of the finish submits
\* the totals the old host may not have.
Promoted(kept) ==
  SubmitFirst({o \in Owed : /\ o.event = "global" /\ o.device = host' /\ host' # host
                            /\ link[host'] = "up" /\ phase = "finished" /\ seen[host'] = game}, kept)

\* The first broadcast of a finish, or the player's own winning move:
\* sendOnlineStats.
LearnFinish(d) ==
  /\ link[d] = "up" /\ bound[d] /\ phase = "finished" /\ seen[d] # game
  /\ seen' = [seen EXCEPT ![d] = game]
  /\ SubmitFirst({o \in Owed : o.device = d /\ (o.event = "global" => host = d)}, Cleared({d}))
  /\ UNCHANGED <<vars, host, link, bound, followed>>

\* Seeded fault of settle: a failed write is as final as any refusal.
SettledForGood(s, res) == Idle

\* settle: done, refused for good, or to be sent again after a pause.
Again(s) == IF s.attempt < MaxAttempts THEN [s EXCEPT !.st = "backoff"] ELSE Idle
Settled(s, res) == IF res = "write-failed" THEN Again(s) ELSE Idle

\* The acknowledgement of a write or a wait that ends: it settles the attempt that
\* asked for it, unless the deadline comes first or the slot has moved on.
Answer(event, w, res) ==
  \/ slot' = slot
  \/ /\ w.by # None
     /\ \E o \in Owed : /\ o.device = w.by.device /\ o.event = event
                        /\ slot[o] = Slot("heard", w.by.attempt, w.game)
                        /\ slot' = [slot EXCEPT ![o] = Settled(@, res)]

Deadline(o) ==
  /\ slot[o].st \in {"sent", "heard", "unheard"}
  /\ slot' = [slot EXCEPT ![o] = Again(@)]
  /\ UNCHANGED <<vars, host, client>>

\* emitStatsSubmission: held back when the connection cannot carry it, or behind
\* a held move.
HeldBack(d) == CASE link[d] = "up" -> {FALSE} [] link[d] = "down" -> {TRUE} [] OTHER -> BOOLEAN

Resend(o) ==
  /\ slot[o].st = "backoff"
  /\ \E held \in HeldBack(o.device) :
       slot' = [slot EXCEPT ![o] = Slot(IF held THEN "parked" ELSE "sent", @.attempt + 1, @.game)]
  /\ UNCHANGED <<vars, host, client>>

-----------------------------------------------------------------------------
\* The server hears a submission, from the connection that holds the seat or
\* from another, and writes, waits or refuses.
Hear(o) ==
  /\ slot[o].st = "sent"
  /\ LET by == Asker(o.device, slot[o].attempt)
         Refuse == slot' = [slot EXCEPT ![o] = Settled(@, "refused")] /\ UNCHANGED vars
         Take == slot' = [slot EXCEPT ![o].st = "heard"]
     IN \/ ~bound[o.device] /\ Refuse
        \/ /\ bound[o.device] /\ o.event = "own"
           /\ IF TakesOwn(o.device, slot[o].game) THEN Take /\ SubmitOwn(o.device, by) ELSE Refuse
        \/ /\ bound[o.device] /\ o.event = "global"
           /\ IF host = o.device /\ TakesGlobal(slot[o].game) THEN Take /\ SubmitGlobal(by) ELSE Refuse
  /\ UNCHANGED <<host, client>>

WaitEnds(w) ==
  /\ Resume(w)
  /\ IF StillTaken(w) THEN UNCHANGED slot ELSE Answer("own", w, "refused")
  /\ UNCHANGED <<host, client>>

WriteEnds(w) ==
  LET event == IF w.device = None THEN "global" ELSE "own"
  IN /\ \/ WriteCommits(w) /\ Answer(event, w, "ok")
        \/ WriteFails(w) /\ Answer(event, w, "write-failed")
     /\ UNCHANGED <<host, client>>

-----------------------------------------------------------------------------
\* The connection.

\* What a lost connection asked for, nobody hears of.
Orphans(S, d) == {IF x.by # None /\ x.by.device = d THEN [x EXCEPT !.by = None] ELSE x : x \in S}

\* The transport is lost, or the page reloaded: what the page held goes with it.
LoseLink(d, reload) ==
  /\ d \in Wanderer /\ link[d] \in {"up", "joining"}
  /\ link' = [link EXCEPT ![d] = "down"]
  /\ bound' = [bound EXCEPT ![d] = FALSE]
  /\ seen' = IF reload THEN [seen EXCEPT ![d] = 0] ELSE seen
  /\ slot' = [o \in Owed |-> IF o.device # d THEN slot[o]
                             ELSE IF reload THEN Idle
                             ELSE IF slot[o].st \in {"sent", "heard"} THEN [slot[o] EXCEPT !.st = "unheard"]
                             ELSE slot[o]]
  /\ writes' = Orphans(writes, d) /\ waiting' = Orphans(waiting, d)
  /\ UNCHANGED <<room, marked, globalMark, store, host, followed>>

\* The server notices.
Disconnect(d) ==
  /\ ~bound[d] /\ Drop(d)
  /\ PassHost /\ Promoted(slot)
  /\ UNCHANGED client

Connect(d) ==
  /\ link[d] = "down"
  /\ link' = [link EXCEPT ![d] = "joining"]
  /\ UNCHANGED <<vars, host, seen, slot, bound, followed>>

\* joinRoom moves the seat to the new connection.
Rejoin(d) ==
  /\ link[d] = "joining" /\ ~bound[d] /\ Return(d)
  /\ bound' = [bound EXCEPT ![d] = TRUE]
  /\ PassHost /\ Promoted(slot)
  /\ UNCHANGED <<link, seen, followed>>

\* Its answer: flushParkedStats; a submission held too long is dropped.
RejoinAnswered(d) ==
  /\ link[d] = "joining" /\ bound[d]
  /\ link' = [link EXCEPT ![d] = "up"]
  /\ \E aged \in BOOLEAN :
       slot' = [o \in Owed |-> IF o.device = d /\ slot[o].st = "parked"
                               THEN (IF aged THEN Idle ELSE [slot[o] EXCEPT !.st = "sent"]) ELSE slot[o]]
  /\ UNCHANGED <<vars, host, seen, bound, followed>>

\* Out of the room: leaveRoom, kicked, or a rejoin refused.
Leave(ds) ==
  /\ link' = [d \in Device |-> IF d \in ds THEN "out" ELSE link[d]]
  /\ bound' = [d \in Device |-> bound[d] /\ d \notin ds]
  /\ seen' = [d \in Device |-> IF d \in ds THEN 0 ELSE seen[d]]
  /\ UNCHANGED followed

RejoinRefused(d) ==
  /\ link[d] = "joining" /\ seat[d] = "gone"
  /\ Leave({d}) /\ slot' = Cleared({d})
  /\ UNCHANGED <<vars, host>>

Enter(d) ==
  /\ link[d] = "out" /\ Join(d)
  /\ started = 0 \/ d \in Newcomer
  /\ link' = [link EXCEPT ![d] = "up"] /\ bound' = [bound EXCEPT ![d] = TRUE]
  /\ IF Seated = {} THEN host' = d ELSE PassHost
  /\ UNCHANGED <<seen, followed, slot>>

\* Only a client still connected to its seat knows that it is gone.
LoseSeat(d) ==
  /\ GiveUpSeat(d)
  /\ Leave({x \in {d} : bound[x]})
  /\ PassHost /\ Promoted(Cleared({x \in {d} : bound[x]}))

CloseRoom(d) ==
  /\ DeleteRoom(d)
  /\ LET told == {x \in Device : bound[x]} IN Leave(told) /\ slot' = Cleared(told)
  /\ UNCHANGED host

-----------------------------------------------------------------------------
\* The room plays on, or ends its game.
Play ==
  /\ Start \/ Finish \/ Reset
  /\ UNCHANGED <<client, host, slot>>

SubInit ==
  /\ Init
  /\ host = CHOOSE d \in Device : TRUE
  /\ link = [d \in Device |-> "out"] /\ bound = [d \in Device |-> FALSE]
  /\ seen = [d \in Device |-> 0]
  /\ slot = [o \in Owed |-> Idle]
  /\ followed \in Followed

SubNext ==
  \/ Play
  \/ \E d \in Device : \/ Enter(d) \/ LoseSeat(d) \/ CloseRoom(d) \/ LearnFinish(d)
                      \/ \E reload \in BOOLEAN : LoseLink(d, reload)
                      \/ Disconnect(d) \/ Connect(d) \/ Rejoin(d) \/ RejoinAnswered(d) \/ RejoinRefused(d)
  \/ \E o \in Owed : Deadline(o) \/ Resend(o) \/ Hear(o)
  \/ \E w \in waiting : WaitEnds(w)
  \/ \E w \in writes : WriteEnds(w)

SubSpec == SubInit /\ [][SubNext]_subVars

-----------------------------------------------------------------------------
\* A client with attempts left stops sending only when nothing is left for it to
\* record: its row is in the database, the room has gone on from that finish, or
\* it is not the host any more.  The totals alone may still be under way: a repeat
\* is refused as a duplicate while they are.  (Not claimed of a resend between a
\* new connection and its rejoin, which is refused for want of a seat.)
StopsOnlyWhenDone ==
  [][\A o \in Owed :
       slot[o].st \in {"sent", "heard"} /\ slot'[o] = Idle /\ slot[o].attempt < MaxAttempts /\ bound'[o.device]
       => \/ phase' # "finished" \/ game' # slot[o].game
          \/ o.event = "own" /\ rows'[game'][o.device] # <<>>
          \/ o.event = "global" /\ (globalRows'[game'] > 0 \/ Pending(game, None)' \/ host' # o.device)]_subVars
=============================================================================
