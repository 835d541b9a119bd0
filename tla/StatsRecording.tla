---------------------------- MODULE StatsRecording ----------------------------
(***************************************************************************)
(* Recording what a finished game did: one row per device and one global   *)
(* row, written to a database that answers later and may fail.             *)
(*                                                                         *)
(* The verdict is frozen by the first broadcast of a finished game; seats  *)
(* that are not connected then are written for by the server, the others   *)
(* submit for themselves, more than once perhaps.  The room may go on to a *)
(* rematch, or be deleted, while a write or a waiting submission is still  *)
(* on its way.  StatsSubmission adds the clients that submit.              *)
(*                                                                         *)
(* Abstracted: the counters of a row (it tells game, device and whether it *)
(* was a win), how a game is played (any player left may be its leader),   *)
(* rate limits, the streak shown beside a name.                            *)
(***************************************************************************)
EXTENDS Naturals, Sequences, FiniteSets

CONSTANTS Device,
          MaxGames,     \* bound of the model: games started in the room id's life
          MaxFailures,  \* bound of the model: the last game whose writes may fail
          Leader,       \* bound of the model: who leads each game, while seated
          None          \* null, and a token left out by an older client

ASSUME BoundAssumption == MaxGames \in Nat /\ MaxFailures \in Nat
ASSUME LeaderAssumption == Leader \in [1..MaxGames -> Device]
ASSUME NoneAssumption == None \notin Device \cup Nat \cup [device : Device, attempt : Nat]

VARIABLES
  seat,          \* of each device: "gone", "online" or "offline"
  phase,         \* "lobby", "playing" or "finished"
  game,          \* the game statsRecordedForGame belongs to; 0 before the first
  started,       \* games started so far
  participants,  \* the devices of participantStats
  verdict,       \* finishedGame, with its token, or NoVerdict
  marked,        \* statsRecordedForGame.devices, of each game
  globalMark,    \* statsRecordedForGame.global, of each game
  writes,        \* database writes under way
  waiting,       \* endGameStats calls waiting for a write of their device
  rows,          \* the database: the rows written for a device
  globalRows,    \* the database: the rows added to the global totals
  failed,        \* history: the device writes that have failed
  outcome        \* history: the verdict of each finished game, and who was away

room == <<seat, phase, game, started, participants, verdict, outcome>>
store == <<rows, globalRows, failed>>
vars == <<room, marked, globalMark, writes, waiting, store>>

Games == 0..MaxGames
NoVerdict == [game |-> 0, players |-> {}, winner |-> None, away |-> {}]
Seated == {d \in Device : seat[d] # "gone"}
Online == {d \in Device : seat[d] = "online"}
\* Who asked for a write: a client's attempt, answered when the write ends, or
\* None, the server itself.
Asker(d, attempt) == [device |-> d, attempt |-> attempt]
Row(g, d, winner, by) == [game |-> g, device |-> d, won |-> d = winner, by |-> by]
GlobalRow(g, by) == [game |-> g, device |-> None, won |-> FALSE, by |-> by]
Pending(g, d) == \E w \in writes : w.game = g /\ w.device = d

\* A submission's seat is found by its connection: one that waits has no seat
\* once its connection has left or been superseded.  A dropped connection is
\* still the seat's until then.
Unseated(d) == {IF w.device = d THEN [w EXCEPT !.seated = FALSE] ELSE w : w \in waiting}

-----------------------------------------------------------------------------
Init == /\ seat = [d \in Device |-> "gone"]
        /\ phase = "lobby"
        /\ game = 0 /\ started = 0
        /\ participants = {}
        /\ verdict = NoVerdict
        /\ marked = [g \in Games |-> {}]
        /\ globalMark = [g \in Games |-> FALSE]
        /\ writes = {} /\ waiting = {}
        /\ rows = [g \in Games |-> [d \in Device |-> <<>>]]
        /\ globalRows = [g \in Games |-> 0]
        /\ failed = {}
        /\ outcome = [g \in Games |-> NoVerdict]

\* joinRoom, a new seat.
Join(d) == /\ phase = "lobby" /\ seat[d] = "gone"
           /\ seat' = [seat EXCEPT ![d] = "online"]
           /\ UNCHANGED <<phase, game, started, participants, verdict, outcome>>
           /\ UNCHANGED <<marked, globalMark, writes, waiting, store>>

\* disconnect, in a room that keeps the seat.
Drop(d) == /\ seat[d] = "online"
           /\ seat' = [seat EXCEPT ![d] = "offline"]
           /\ UNCHANGED <<phase, game, started, participants, verdict, outcome>>
           /\ UNCHANGED <<marked, globalMark, writes, waiting, store>>

\* joinRoom, the device's own seat: another connection holds it from now on.
Return(d) == /\ seat[d] # "gone"
             /\ seat' = [seat EXCEPT ![d] = "online"]
             /\ waiting' = Unseated(d)
             /\ UNCHANGED <<phase, game, started, participants, verdict, outcome>>
             /\ UNCHANGED <<marked, globalMark, writes, store>>

\* pushState 'start': a new game has marks and participants of its own.
Start == /\ phase # "playing"
         /\ Cardinality(Seated) >= 2 /\ Online # {}
         /\ started < MaxGames
         /\ phase' = "playing"
         /\ started' = started + 1
         /\ game' = started'
         /\ participants' = Seated
         /\ verdict' = NoVerdict
         /\ UNCHANGED <<seat, outcome, marked, globalMark, writes, waiting, store>>

Leaders == LET left == {d \in Device : seat'[d] # "gone"}
           IN IF Leader[game] \in left THEN {Leader[game]} ELSE left

\* Seeded fault: the verdict follows the roster the finish left.
FreezeRoster ==
  \E winner \in Leaders :
    LET players == {d \in participants : seat'[d] # "gone"}
        away == {d \in participants : seat'[d] # "online"}
    IN /\ verdict' = [game |-> game, players |-> players, winner |-> winner, away |-> away]
       /\ outcome' = [outcome EXCEPT ![game] = verdict']
       /\ writes' = writes \cup {Row(game, d, winner, None) : d \in players \cap away}

\* rememberFinishedGame and recordDepartedSeatsStats, at the first broadcast of
\* a finished game: the verdict names every participant, the departed included,
\* and the leader of those left; who cannot submit is written for.
FreezeVerdict ==
  \E winner \in Leaders :
    LET away == {d \in participants : seat'[d] # "online"}
        unrecorded == {d \in away : d \notin marked[game] /\ ~Pending(game, d)}
    IN /\ verdict' = [game |-> game, players |-> participants, winner |-> winner, away |-> away]
       /\ outcome' = [outcome EXCEPT ![game] = verdict']
       /\ writes' = writes \cup {Row(game, d, winner, None) : d \in unrecorded}

\* A commit or an expiry ends the game.
Finish == /\ phase = "playing"
          /\ phase' = "finished"
          /\ UNCHANGED seat
          /\ FreezeVerdict
          /\ UNCHANGED <<game, started, participants, marked, globalMark, waiting, store>>

\* pushState 'reset': the verdict goes, the game's marks stay until the next start.
Reset == /\ phase # "lobby" /\ Online # {}
         /\ phase' = "lobby"
         /\ verdict' = NoVerdict
         /\ UNCHANGED <<seat, game, started, participants, outcome>>
         /\ UNCHANGED <<marked, globalMark, writes, waiting, store>>

\* A seat is given up (leave, kick, expired window): the game may go on, be
\* over, or be aborted with one player left.
GiveUpSeat(d) ==
  /\ seat[d] # "gone"
  /\ Seated # {d}
  /\ seat' = [seat EXCEPT ![d] = "gone"]
  /\ waiting' = Unseated(d)
  /\ \/ /\ phase = "playing"
        /\ phase' = "finished" /\ FreezeVerdict
     \/ /\ phase = "playing" /\ Cardinality(Seated) = 2
        /\ phase' = "lobby" /\ UNCHANGED <<verdict, outcome, writes>>
     \/ /\ phase = "playing" => Cardinality(Seated) > 2
        /\ UNCHANGED <<phase, verdict, outcome, writes>>
  /\ UNCHANGED <<game, started, participants, marked, globalMark, store>>

\* deleteRoom: with the last seat, or when none of those left is connected.  A
\* new room under the same id has no game yet.
DeleteRoom(d) ==
  /\ seat[d] # "gone"
  /\ Online \subseteq {d}
  /\ seat' = [x \in Device |-> "gone"]
  /\ phase' = "lobby" /\ game' = 0
  /\ participants' = {} /\ verdict' = NoVerdict
  /\ waiting' = {[w EXCEPT !.seated = FALSE] : w \in waiting}
  /\ UNCHANGED <<started, outcome, marked, globalMark, writes, store>>

-----------------------------------------------------------------------------
\* Both submissions name the finish they are about, or none (older clients).
NamesFinish(finishedGameToken) ==
  /\ phase = "finished"
  /\ finishedGameToken # None => finishedGameToken = verdict.game

\* Seeded fault of endGameStats: the other write is not waited for.
WriteAtOnce(d, by) ==
  /\ writes' = writes \cup {Row(game, d, verdict.winner, by)}
  /\ UNCHANGED waiting

\* writeDeviceStatsOnce, or the wait for a write of the same row.
WriteOrWait(d, by) ==
  IF Pending(game, d)
  THEN /\ waiting' = waiting \cup {[device |-> d, game |-> game, by |-> by, seated |-> TRUE]}
       /\ UNCHANGED writes
  ELSE /\ writes' = writes \cup {Row(game, d, verdict.winner, by)}
       /\ UNCHANGED waiting

\* endGameStats: anything else is refused for good, with what is in already.
TakesOwn(d, finishedGameToken) ==
  /\ NamesFinish(finishedGameToken)
  /\ d \in verdict.players
  /\ Pending(game, d) \/ d \notin marked[game]

SubmitOwn(d, by) ==
  /\ WriteOrWait(d, by)
  /\ UNCHANGED <<room, marked, globalMark, store>>

\* Seeded fault of endGameStats: after the wait the room is not read again.
StillItsFinish(w) == phase = "finished"

\* After the wait: the same room, game, finish and seat.
SameFinish(w) == phase = "finished" /\ game = w.game /\ w.seated

\* endGameStats behind its wait; it waits on while another write is under way.
StillTaken(w) == SameFinish(w) /\ w.device \notin marked[w.game] /\ w.device \in verdict.players

Resume(w) ==
  /\ ~Pending(w.game, w.device)
  /\ waiting' = waiting \ {w}
  /\ writes' = IF StillTaken(w)
               THEN writes \cup {Row(w.game, w.device, verdict.winner, w.by)} ELSE writes
  /\ UNCHANGED <<room, marked, globalMark, store>>

\* submitGlobalStats, by the host: marked before the write.
TakesGlobal(finishedGameToken) == NamesFinish(finishedGameToken) /\ ~globalMark[game]

SubmitGlobal(by) ==
  /\ globalMark' = [globalMark EXCEPT ![game] = TRUE]
  /\ writes' = writes \cup {GlobalRow(game, by)}
  /\ UNCHANGED <<room, marked, waiting, store>>

-----------------------------------------------------------------------------
\* The device's mark is published when its row is in the database.
PublishMark(w, committed) ==
  marked' = IF committed /\ w.device # None
            THEN [marked EXCEPT ![w.game] = @ \cup {w.device}] ELSE marked

WriteCommits(w) ==
  /\ writes' = writes \ {w}
  /\ PublishMark(w, TRUE)
  /\ IF w.device = None
     THEN globalRows' = [globalRows EXCEPT ![w.game] = @ + 1] /\ UNCHANGED rows
     ELSE rows' = [rows EXCEPT ![w.game][w.device] = Append(@, w.won)] /\ UNCHANGED globalRows
  /\ UNCHANGED <<room, globalMark, waiting, failed>>

\* Seeded fault of submitGlobalStats: the mark stays after a failed write.
NoRollback(w) == globalMark' = globalMark

\* A failed global write is rolled back, unless a later game's marks are there.
Rollback(w) ==
  globalMark' = IF w.device = None /\ w.game = game
                THEN [globalMark EXCEPT ![game] = FALSE] ELSE globalMark

WriteFails(w) ==
  /\ w.game <= MaxFailures
  /\ writes' = writes \ {w}
  /\ PublishMark(w, FALSE)
  /\ Rollback(w)
  /\ failed' = IF w.device = None THEN failed ELSE failed \cup {<<w.game, w.device>>}
  /\ UNCHANGED <<room, waiting, rows, globalRows>>

-----------------------------------------------------------------------------
\* However often a game is submitted, by its player, by the server for a player
\* who left, or by both, a device has one row of it and the totals count it once.
OneRowPerGame ==
  \A g \in Games :
    /\ \A d \in Device : Len(rows[g][d]) + Cardinality({w \in writes : w.game = g /\ w.device = d}) <= 1
    /\ globalRows[g] + Cardinality({w \in writes : w.game = g /\ w.device = None}) <= 1

\* What is recorded of a game is its verdict: a row belongs to a game that ended,
\* to one of its participants, and is a win for its winner alone, also when the
\* room has gone on to the next game.
RowsTellOutcome ==
  \A g \in Games :
    /\ \A d \in Device :
         \A won \in {rows[g][d][k] : k \in DOMAIN rows[g][d]}
                    \cup {w.won : w \in {x \in writes : x.game = g /\ x.device = d}} :
           d \in outcome[g].players /\ won = (d = outcome[g].winner)
    /\ globalRows[g] > 0 \/ Pending(g, None) => outcome[g] # NoVerdict

\* Whoever took part in a finished game and was away when it ended has a row of
\* it, written or under way, unless the database refused it.
AwayAreRecorded ==
  \A g \in Games : \A d \in outcome[g].away :
    rows[g][d] # <<>> \/ Pending(g, d) \/ <<g, d>> \in failed

\* A game whose write failed can be submitted again: a mark stands for a row
\* that is there, or, for the totals, at least under way.
FailureCanBeRetried ==
  /\ \A g \in Games, d \in Device : d \in marked[g] => rows[g][d] # <<>>
  /\ game # 0 /\ globalMark[game] => globalRows[game] > 0 \/ Pending(game, None)

=============================================================================
