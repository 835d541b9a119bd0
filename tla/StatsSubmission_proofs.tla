------------------------ MODULE StatsSubmission_proofs ------------------------
(***************************************************************************)
(* What a finished game leaves in the database, and when a client may stop *)
(* sending: proofs about StatsRecording and StatsSubmission, for every     *)
(* value of their constants.                                               *)
(*                                                                         *)
(* The argument: a game's marks, rows and writes agree with each other     *)
(* (BooksAgree), they are all empty until its verdict is frozen            *)
(* (FreshGames), and the verdict the room holds is the one frozen for its  *)
(* game (RoomTells).  Nothing that comes later, a rematch, a reset, a      *)
(* deleted room, a failed or a repeated write, touches the books of an     *)
(* earlier game but through the write it belongs to.                       *)
(***************************************************************************)
EXTENDS StatsSubmission, FiniteSetTheorems, TLAPS

By == {None} \cup [device : Device, attempt : Nat]
Write == [game : 1..MaxGames, device : Device \cup {None}, won : BOOLEAN, by : By]
Wait == [device : Device, game : 1..MaxGames, by : By, seated : BOOLEAN]
Verdict == [game : Games, players : SUBSET Device, winner : Device \cup {None}, away : SUBSET Device]

RoomTypes ==
  /\ seat \in [Device -> {"gone", "online", "offline"}]
  /\ phase \in {"lobby", "playing", "finished"}
  /\ game \in Games /\ started \in Games
  /\ participants \in SUBSET Device
  /\ verdict \in Verdict
  /\ outcome \in [Games -> Verdict]

BookTypes ==
  /\ marked \in [Games -> SUBSET Device]
  /\ globalMark \in [Games -> BOOLEAN]
  /\ writes \in SUBSET Write
  /\ waiting \in SUBSET Wait
  /\ rows \in [Games -> [Device -> Seq(BOOLEAN)]]
  /\ globalRows \in [Games -> Nat]
  /\ failed \in SUBSET (Games \X Device)

SlotType == [st : {"idle", "sent", "heard", "unheard", "backoff", "parked"},
             attempt : Nat, game : Games]

ClientTypes ==
  /\ host \in Device
  /\ link \in [Device -> {"out", "up", "down", "joining"}]
  /\ bound \in [Device -> BOOLEAN]
  /\ seen \in [Device -> Games]
  /\ slot \in [Owed -> SlotType]

\* The room's game is the last one started, its verdict the one frozen for it,
\* and whoever is seated outside the lobby takes part in it.
RoomTells ==
  /\ game # 0 => game = started
  /\ phase # "lobby" => game # 0 /\ Seated \subseteq participants
  /\ phase = "finished" => /\ verdict = outcome[game]
                           /\ verdict.game = game
                           /\ verdict.players = participants

\* Nothing is on the books of a game that has no verdict yet.
Fresh(g) ==
  /\ outcome[g] = NoVerdict
  /\ marked[g] = {} /\ ~globalMark[g]
  /\ \A d \in Device : rows[g][d] = <<>>
  /\ globalRows[g] = 0
  /\ \A w \in writes : w.game # g
  /\ \A w \in waiting : w.game # g

FreshGames ==
  \A g \in Games : g > started \/ (phase = "playing" /\ g = game) => Fresh(g)

\* One write at a time for each row; a mark is a row, a row is never written
\* again, and the totals are marked for as long as they are counted or pending.
BooksAgree ==
  /\ \A v, w \in writes : v.game = w.game /\ v.device = w.device => v = w
  /\ \A g \in Games, d \in Device :
       /\ d \in marked[g] <=> rows[g][d] # <<>>
       /\ d \in marked[g] => Len(rows[g][d]) = 1 /\ ~Pending(g, d)
  /\ \A g \in Games :
       /\ globalRows[g] > 0 => globalRows[g] = 1 /\ ~Pending(g, None)
       /\ globalRows[g] > 0 \/ Pending(g, None) => globalMark[g]

\* What is written, or waits to be, is about a participant of a finished game.
BooksTell ==
  /\ \A w \in writes :
       /\ outcome[w.game] # NoVerdict
       /\ w.device # None => /\ w.device \in outcome[w.game].players
                             /\ w.won = (w.device = outcome[w.game].winner)
  /\ \A g \in Games, d \in Device : rows[g][d] # <<>> =>
       /\ d \in outcome[g].players
       /\ rows[g][d][1] = (d = outcome[g].winner)
  /\ \A g \in Games : globalRows[g] > 0 => outcome[g] # NoVerdict
  /\ \A w \in waiting : w.device \in outcome[w.game].players

BookInv == /\ RoomTypes /\ BookTypes
           /\ RoomTells /\ FreshGames
           /\ BooksAgree /\ BooksTell
           /\ AwayAreRecorded /\ FailureCanBeRetried

\* A live connection holds a seat; an attempt is asked for by its own device,
\* over a live connection or for a seat that is gone; one that waits without a
\* seat waits for a game that is over or a seat that is gone.
ClientsAgree ==
  /\ \A o \in Owed : slot[o] # Idle => o.event \in followed
  /\ \A d \in Device : bound[d] => seat[d] # "gone"
  /\ \A w \in writes : w.by # None /\ w.device # None => w.by.device = w.device
  /\ \A w \in waiting : w.by # None =>
       /\ w.by.device = w.device
       /\ bound[w.device] \/ seat[w.device] = "gone"
       /\ ~w.seated /\ phase # "lobby" /\ w.game = game => seat[w.device] = "gone"

SubInv == BookInv /\ ClientTypes /\ ClientsAgree

\* The waiting submissions are the ones that waited, or some of them; their
\* seats may be lost, and who asks for them.
WaitingFollows ==
  /\ waiting' \in SUBSET Wait
  /\ \A x \in waiting' : \E w \in waiting : x.game = w.game /\ x.device = w.device

Books == <<marked, globalMark, writes, rows, globalRows, failed, outcome>>

-----------------------------------------------------------------------------
(***************************************************************************)
(* The rows' types.                                                        *)
(***************************************************************************)

LEMMA RowTypes ==
  ASSUME NEW g \in 1..MaxGames, NEW d \in Device, NEW winner, NEW by \in By
  PROVE  /\ Row(g, d, winner, by) \in Write
         /\ Row(g, d, winner, by).game = g
         /\ Row(g, d, winner, by).device = d
         /\ Row(g, d, winner, by).won = (d = winner)
         /\ Row(g, d, winner, by).by = by
BY DEF Row, Write

LEMMA GlobalRowTypes ==
  ASSUME NEW g \in 1..MaxGames, NEW by \in By
  PROVE  /\ GlobalRow(g, by) \in Write
         /\ GlobalRow(g, by).game = g
         /\ GlobalRow(g, by).device = None
         /\ GlobalRow(g, by).by = by
BY DEF GlobalRow, Write

LEMMA GameNumbers ==
  ASSUME BookInv
  PROVE  /\ game \in Nat /\ started \in Nat /\ MaxGames \in Nat
         /\ game \in Games /\ started \in Games
         /\ phase # "lobby" => game \in 1..MaxGames /\ game = started
BY BoundAssumption DEF BookInv, RoomTypes, RoomTells, Games

-----------------------------------------------------------------------------
(***************************************************************************)
(* Steps that leave the books alone.                                       *)
(***************************************************************************)

LEMMA BooksUntouched ==
  ASSUME BookInv, UNCHANGED Books, WaitingFollows
  PROVE  /\ BookTypes' /\ BooksAgree' /\ BooksTell' /\ AwayAreRecorded'
         /\ \A g \in Games : Fresh(g) => Fresh(g)'
<1>1. /\ marked' = marked /\ globalMark' = globalMark /\ writes' = writes /\ rows' = rows
      /\ globalRows' = globalRows /\ failed' = failed /\ outcome' = outcome
  BY DEF Books
<1>2. BookTypes'
  BY <1>1 DEF BookInv, BookTypes, WaitingFollows
<1>3. BooksAgree'
  BY <1>1 DEF BookInv, BooksAgree, Pending
<1>4. BooksTell'
  BY <1>1 DEF BookInv, BooksTell, WaitingFollows
<1>5. AwayAreRecorded'
  BY <1>1 DEF BookInv, AwayAreRecorded, Pending
<1>6. ASSUME NEW g \in Games, Fresh(g)
      PROVE  Fresh(g)'
  BY <1>1, <1>6 DEF Fresh, WaitingFollows
<1> QED BY <1>2, <1>3, <1>4, <1>5, <1>6

\* The room goes on: to its next game, to no game, or with the one it has.
LEMMA RoomMoves ==
  ASSUME BookInv, UNCHANGED Books, WaitingFollows, RoomTypes', RoomTells',
         started' >= started,
         game' = game \/ game' = 0 \/ game' > started,
         phase' = "playing" => phase = "playing" \/ game' > started
  PROVE  BookInv'
<1>1. /\ BookTypes' /\ BooksAgree' /\ BooksTell' /\ AwayAreRecorded'
      /\ \A g \in Games : Fresh(g) => Fresh(g)'
  BY BooksUntouched
<1>2. game \in Nat /\ started \in Nat /\ game' \in Games /\ started' \in Nat
      /\ Games \subseteq Nat
  BY GameNumbers DEF RoomTypes, Games
<1>3. FreshGames'
  <2> SUFFICES ASSUME NEW g \in Games, g > started' \/ (phase' = "playing" /\ g = game')
               PROVE  Fresh(g)'
    BY DEF FreshGames
  <2>1. CASE g > started
    BY <1>1, <2>1 DEF BookInv, FreshGames
  <2>2. CASE phase = "playing" /\ g = game
    BY <1>1, <2>2 DEF BookInv, FreshGames
  <2>3. g > started \/ (phase = "playing" /\ g = game)
    <3>1. g \in Nat
      BY <1>2
    <3>2. CASE g > started'
      BY <1>2, <3>1, <3>2
    <3>3. CASE phase' = "playing" /\ g = game'
      <4>1. game' # 0
        BY <3>3 DEF RoomTells
      <4> QED BY <3>3, <4>1
    <3> QED BY <3>2, <3>3
  <2> QED BY <2>1, <2>2, <2>3
<1>4. FailureCanBeRetried'
  <2>1. \A g \in Games, d \in Device : d \in marked'[g] => rows'[g][d] # <<>>
    BY <1>1 DEF BooksAgree
  <2>2. ASSUME game' # 0, globalMark'[game']
        PROVE  globalRows'[game'] > 0 \/ Pending(game, None)'
    <3>1. globalMark' = globalMark /\ globalRows' = globalRows /\ writes' = writes
      BY DEF Books
    <3>2. ~Fresh(game')
      BY <2>2, <3>1 DEF Fresh
    <3>3. ~(game' > started)
      BY <1>2, <3>2 DEF BookInv, FreshGames
    <3>4. game' = game
      BY <2>2, <3>3
    <3> QED BY <2>2, <3>1, <3>4 DEF BookInv, FailureCanBeRetried, Pending
  <2> QED BY <2>1, <2>2 DEF FailureCanBeRetried, Pending
<1> QED BY <1>1, <1>3, <1>4 DEF BookInv

LEMMA SeatsMove ==
  ASSUME BookInv, NEW d \in Device, Join(d) \/ Drop(d)
  PROVE  BookInv'
<1>1. /\ UNCHANGED Books /\ UNCHANGED <<phase, game, started, participants, verdict, outcome>>
      /\ waiting' = waiting
  BY DEF Join, Drop, Books, store
<1>2. WaitingFollows
  BY <1>1 DEF WaitingFollows, BookInv, BookTypes
<1>3. seat' \in [Device -> {"gone", "online", "offline"}]
  BY DEF Join, Drop, BookInv, RoomTypes
<1>4. RoomTypes'
  BY <1>1, <1>3 DEF BookInv, RoomTypes
<1>5. phase # "lobby" => Seated' \subseteq Seated
  BY DEF Join, Drop, Seated, BookInv, RoomTypes
<1>6. RoomTells'
  BY <1>1, <1>5 DEF BookInv, RoomTells
<1>7. started \in Nat
  BY GameNumbers
<1> QED BY <1>1, <1>2, <1>4, <1>6, <1>7, RoomMoves

\* The marks of a seat's waiting submissions move, nothing else of them.
LEMMA UnseatedFollows ==
  ASSUME BookTypes, NEW d \in Device, waiting' = Unseated(d)
  PROVE  /\ WaitingFollows
         /\ \A x \in waiting' : \E w \in waiting :
              /\ x.game = w.game /\ x.device = w.device /\ x.by = w.by
              /\ x.seated = (w.seated /\ w.device # d)
<1>1. \A w \in waiting : /\ w \in Wait
                         /\ [w EXCEPT !.seated = FALSE] \in Wait
                         /\ [w EXCEPT !.seated = FALSE].game = w.game
                         /\ [w EXCEPT !.seated = FALSE].device = w.device
                         /\ [w EXCEPT !.seated = FALSE].by = w.by
                         /\ [w EXCEPT !.seated = FALSE].seated = FALSE
                         /\ w.seated \in BOOLEAN
  BY DEF BookTypes, Wait
<1>2. \A x \in waiting' : \E w \in waiting :
        x = IF w.device = d THEN [w EXCEPT !.seated = FALSE] ELSE w
  BY DEF Unseated
<1>3. waiting' \in SUBSET Wait
  BY <1>1, <1>2
<1>4. ASSUME NEW x \in waiting'
      PROVE  \E w \in waiting : /\ x.game = w.game /\ x.device = w.device /\ x.by = w.by
                                /\ x.seated = (w.seated /\ w.device # d)
  <2>1. PICK w \in waiting : x = IF w.device = d THEN [w EXCEPT !.seated = FALSE] ELSE w
    BY <1>2
  <2> QED BY <1>1, <2>1
<1> QED BY <1>3, <1>4 DEF WaitingFollows

LEMMA SeatReturns ==
  ASSUME BookInv, NEW d \in Device, Return(d)
  PROVE  BookInv'
<1>1. /\ UNCHANGED Books /\ UNCHANGED <<phase, game, started, participants, verdict, outcome>>
  BY DEF Return, Books, store
<1>2. WaitingFollows
  BY UnseatedFollows DEF Return, BookInv
<1>3. seat' \in [Device -> {"gone", "online", "offline"}]
  BY DEF Return, BookInv, RoomTypes
<1>4. RoomTypes'
  BY <1>1, <1>3 DEF BookInv, RoomTypes
<1>5. Seated' \subseteq Seated
  BY DEF Return, Seated, BookInv, RoomTypes
<1>6. RoomTells'
  BY <1>1, <1>5 DEF BookInv, RoomTells
<1>7. started \in Nat
  BY GameNumbers
<1> QED BY <1>1, <1>2, <1>4, <1>6, <1>7, RoomMoves

LEMMA RoomStarts ==
  ASSUME BookInv, Start
  PROVE  BookInv'
<1>1. /\ UNCHANGED Books /\ waiting' = waiting /\ seat' = seat
      /\ phase' = "playing" /\ started' = started + 1 /\ game' = started' /\ started < MaxGames
      /\ participants' = Seated /\ verdict' = NoVerdict
  BY DEF Start, Books, store
<1>2. WaitingFollows
  BY <1>1 DEF WaitingFollows, BookInv, BookTypes
<1>3. started \in Nat /\ MaxGames \in Nat
  BY GameNumbers
<1>4. RoomTypes'
  <2>1. started' \in Games /\ 0 \in Games
    BY <1>1, <1>3 DEF Games
  <2>2. NoVerdict \in Verdict
    BY <2>1 DEF NoVerdict, Verdict
  <2>3. Seated \in SUBSET Device
    BY DEF Seated
  <2> QED BY <1>1, <2>1, <2>2, <2>3 DEF BookInv, RoomTypes, Books
<1>5. RoomTells'
  BY <1>1, <1>3 DEF RoomTells, Seated
<1>6. started' >= started /\ game' > started
  BY <1>1, <1>3
<1> QED BY <1>1, <1>2, <1>4, <1>5, <1>6, RoomMoves

LEMMA RoomResets ==
  ASSUME BookInv, Reset
  PROVE  BookInv'
<1>1. /\ UNCHANGED Books /\ waiting' = waiting
      /\ UNCHANGED <<seat, game, started, participants, outcome>>
      /\ phase' = "lobby" /\ verdict' = NoVerdict
  BY DEF Reset, Books, store
<1>2. WaitingFollows
  BY <1>1 DEF WaitingFollows, BookInv, BookTypes
<1>3. NoVerdict \in Verdict
  BY BoundAssumption DEF NoVerdict, Verdict, Games
<1>4. RoomTypes'
  BY <1>1, <1>3 DEF BookInv, RoomTypes
<1>5. RoomTells'
  BY <1>1 DEF BookInv, RoomTells
<1>6. started \in Nat
  BY GameNumbers
<1> QED BY <1>1, <1>2, <1>4, <1>5, <1>6, RoomMoves

LEMMA RoomDeletes ==
  ASSUME BookInv, NEW d \in Device, DeleteRoom(d)
  PROVE  BookInv'
<1>1. /\ UNCHANGED Books /\ UNCHANGED <<started, outcome>>
      /\ seat' = [x \in Device |-> "gone"] /\ phase' = "lobby" /\ game' = 0
      /\ participants' = {} /\ verdict' = NoVerdict
      /\ waiting' = {[w EXCEPT !.seated = FALSE] : w \in waiting}
  BY DEF DeleteRoom, Books, store
<1>2. WaitingFollows
  <2>1. \A w \in waiting : /\ [w EXCEPT !.seated = FALSE] \in Wait
                           /\ [w EXCEPT !.seated = FALSE].game = w.game
                           /\ [w EXCEPT !.seated = FALSE].device = w.device
    BY DEF BookInv, BookTypes, Wait
  <2> QED BY <1>1, <2>1 DEF WaitingFollows
<1>3. NoVerdict \in Verdict /\ 0 \in Games
  BY BoundAssumption DEF NoVerdict, Verdict, Games
<1>4. RoomTypes'
  BY <1>1, <1>3 DEF BookInv, RoomTypes
<1>5. RoomTells'
  BY <1>1 DEF RoomTells
<1>6. started \in Nat
  BY GameNumbers
<1> QED BY <1>1, <1>2, <1>4, <1>5, <1>6, RoomMoves

-----------------------------------------------------------------------------
(***************************************************************************)
(* The verdict.                                                            *)
(***************************************************************************)

\* What freezing adds: the verdict of the room's game, and a write for each of
\* its participants who are away.  The game had nothing on the books.
LEMMA FreezeAdds ==
  ASSUME BookInv, phase = "playing", FreezeVerdict
  PROVE  \E winner \in Device, away \in SUBSET participants :
           /\ away = {d \in participants : seat'[d] # "online"}
           /\ verdict' = [game |-> game, players |-> participants, winner |-> winner, away |-> away]
           /\ outcome' = [outcome EXCEPT ![game] = verdict']
           /\ writes' = writes \cup {Row(game, d, winner, None) : d \in away}
<1> DEFINE away == {d \in participants : seat'[d] # "online"}
<1>1. Fresh(game) /\ game \in Games
  BY GameNumbers DEF BookInv, FreshGames
<1>2. PICK winner \in Leaders :
        /\ verdict' = [game |-> game, players |-> participants, winner |-> winner, away |-> away]
        /\ outcome' = [outcome EXCEPT ![game] = verdict']
        /\ writes' = writes \cup
             {Row(game, d, winner, None) : d \in {e \in away : e \notin marked[game] /\ ~Pending(game, e)}}
  BY DEF FreezeVerdict
<1>3. winner \in Device
  BY <1>2 DEF Leaders
<1>4. {e \in away : e \notin marked[game] /\ ~Pending(game, e)} = away
  BY <1>1 DEF Fresh, Pending
<1> QED BY <1>2, <1>3, <1>4

LEMMA VerdictFreezes ==
  ASSUME BookInv, phase = "playing", phase' = "finished", FreezeVerdict,
         seat' \in [Device -> {"gone", "online", "offline"}], Seated' \subseteq Seated,
         UNCHANGED <<game, started, participants, marked, globalMark, rows, globalRows, failed>>,
         WaitingFollows
  PROVE  BookInv'
<1>1. PICK winner \in Device, away \in SUBSET participants :
        /\ away = {d \in participants : seat'[d] # "online"}
        /\ verdict' = [game |-> game, players |-> participants, winner |-> winner, away |-> away]
        /\ outcome' = [outcome EXCEPT ![game] = verdict']
        /\ writes' = writes \cup {Row(game, d, winner, None) : d \in away}
  BY FreezeAdds
<1>2. Fresh(game) /\ game \in 1..MaxGames /\ game = started /\ game \in Games
      /\ Games \subseteq Nat
  BY GameNumbers DEF BookInv, FreshGames, Games
<1>3. away \subseteq Device /\ participants \subseteq Device
  BY DEF BookInv, RoomTypes
<1>4. verdict' \in Verdict /\ verdict'.game = game /\ verdict'.players = participants
      /\ verdict'.winner = winner /\ verdict'.away = away /\ verdict' # NoVerdict
  BY <1>1, <1>2, <1>3 DEF Verdict, NoVerdict
<1>5. /\ outcome' \in [Games -> Verdict] /\ outcome'[game] = verdict'
      /\ \A g \in Games \ {game} : outcome'[g] = outcome[g]
  BY <1>1, <1>2, <1>4 DEF BookInv, RoomTypes
<1>6. \A d \in away : /\ Row(game, d, winner, None) \in Write
                      /\ Row(game, d, winner, None).game = game
                      /\ Row(game, d, winner, None).device = d
                      /\ Row(game, d, winner, None).won = (d = winner)
  BY <1>2, <1>3, RowTypes DEF By
<1>7. writes \subseteq Write /\ \A w \in writes : w.game # game /\ w.game \in Games
  BY <1>2 DEF BookInv, BookTypes, Write, Fresh, Games
<1>8. \A w \in writes' :
        \/ w \in writes
        \/ /\ w \in Write /\ w.game = game /\ w.device \in away
           /\ w = Row(game, w.device, winner, None) /\ w.won = (w.device = winner)
  BY <1>1, <1>6
<1>9. RoomTypes'
  BY <1>4, <1>5 DEF BookInv, RoomTypes
<1>10. BookTypes'
  BY <1>7, <1>8 DEF BookInv, BookTypes, WaitingFollows
<1>11. RoomTells'
  BY <1>2, <1>4, <1>5 DEF BookInv, RoomTells
<1>12. FreshGames'
  <2> SUFFICES ASSUME NEW g \in Games, g > started PROVE Fresh(g)'
    BY DEF FreshGames
  <2>1. Fresh(g) /\ g # game
    BY <1>2 DEF BookInv, FreshGames
  <2> QED BY <1>5, <1>8, <2>1 DEF Fresh, WaitingFollows
<1>13. BooksAgree'
  <2>1. \A v, w \in writes' : v.game = w.game /\ v.device = w.device => v = w
    BY <1>7, <1>8 DEF BookInv, BooksAgree
  <2>2. \A g \in Games \ {game} : \A d \in Device \cup {None} : Pending(g, d)' => Pending(g, d)
    BY <1>8 DEF Pending
  <2>3. ~Pending(game, None)'
    BY <1>2, <1>3, <1>8, NoneAssumption DEF Pending, Fresh
  <2>4. \A g \in Games, d \in Device :
          /\ d \in marked'[g] <=> rows'[g][d] # <<>>
          /\ d \in marked'[g] => Len(rows'[g][d]) = 1 /\ ~Pending(g, d)'
    BY <1>2, <2>2 DEF BookInv, BooksAgree, Fresh
  <2>5. \A g \in Games :
          /\ globalRows'[g] > 0 => globalRows'[g] = 1 /\ ~Pending(g, None)'
          /\ globalRows'[g] > 0 \/ Pending(g, None)' => globalMark'[g]
    BY <2>2, <2>3 DEF BookInv, BooksAgree
  <2> QED BY <2>1, <2>4, <2>5 DEF BooksAgree, Pending
<1>14. BooksTell'
  <2>1. \A w \in writes' :
          /\ outcome'[w.game] # NoVerdict
          /\ w.device # None => /\ w.device \in outcome'[w.game].players
                                /\ w.won = (w.device = outcome'[w.game].winner)
    <3> TAKE w \in writes'
    <3>1. CASE w \in writes
      BY <1>5, <1>7, <3>1 DEF BookInv, BooksTell
    <3>2. CASE w.game = game /\ w.device \in away /\ w.won = (w.device = winner)
      BY <1>4, <1>5, <3>2
    <3> QED BY <1>8, <3>1, <3>2
  <2>2. \A g \in Games, d \in Device : rows'[g][d] # <<>> =>
          /\ d \in outcome'[g].players
          /\ rows'[g][d][1] = (d = outcome'[g].winner)
    BY <1>2, <1>5 DEF BookInv, BooksTell, Fresh
  <2>3. \A g \in Games : globalRows'[g] > 0 => outcome'[g] # NoVerdict
    BY <1>2, <1>4, <1>5 DEF BookInv, BooksTell
  <2>4. \A w \in waiting : w.game # game /\ w.game \in Games
    BY <1>2 DEF BookInv, BookTypes, Wait, Fresh, Games
  <2>5. \A w \in waiting' : w.device \in outcome'[w.game].players
    BY <1>5, <2>4 DEF BookInv, BooksTell, WaitingFollows
  <2> QED BY <2>1, <2>2, <2>3, <2>5 DEF BooksTell
<1>15. AwayAreRecorded'
  <2> SUFFICES ASSUME NEW g \in Games, NEW d \in outcome'[g].away
               PROVE  rows'[g][d] # <<>> \/ Pending(g, d)' \/ <<g, d>> \in failed'
    BY DEF AwayAreRecorded, Pending
  <2>1. CASE g # game
    <3>1. rows[g][d] # <<>> \/ Pending(g, d) \/ <<g, d>> \in failed
      BY <1>5, <2>1 DEF BookInv, AwayAreRecorded
    <3>2. Pending(g, d) => Pending(g, d)'
      BY <1>1 DEF Pending
    <3> QED BY <3>1, <3>2
  <2>2. CASE g = game
    <3>1. d \in away
      BY <1>4, <1>5, <2>2
    <3>2. Row(game, d, winner, None) \in writes'
      BY <1>1, <3>1
    <3> QED BY <1>6, <2>2, <3>1, <3>2 DEF Pending
  <2> QED BY <2>1, <2>2
<1>16. FailureCanBeRetried'
  BY <1>2, <1>13 DEF FailureCanBeRetried, BooksAgree, Fresh, Pending
<1> QED BY <1>9, <1>10, <1>11, <1>12, <1>13, <1>14, <1>15, <1>16 DEF BookInv

LEMMA RoomFinishes ==
  ASSUME BookInv, Finish
  PROVE  BookInv'
<1>1. /\ phase = "playing" /\ phase' = "finished" /\ seat' = seat /\ FreezeVerdict
      /\ UNCHANGED <<game, started, participants, marked, globalMark, waiting, rows, globalRows, failed>>
  BY DEF Finish, store
<1>2. WaitingFollows
  BY <1>1 DEF WaitingFollows, BookInv, BookTypes
<1>3. seat' \in [Device -> {"gone", "online", "offline"}] /\ Seated' \subseteq Seated
  BY <1>1 DEF BookInv, RoomTypes, Seated
<1> QED BY <1>1, <1>2, <1>3, VerdictFreezes

LEMMA SeatGivenUp ==
  ASSUME BookInv, NEW d \in Device, GiveUpSeat(d)
  PROVE  BookInv'
<1>1. /\ seat' = [seat EXCEPT ![d] = "gone"] /\ waiting' = Unseated(d)
      /\ UNCHANGED <<game, started, participants, marked, globalMark, rows, globalRows, failed>>
  BY DEF GiveUpSeat, store
<1>2. WaitingFollows
  BY <1>1, UnseatedFollows DEF BookInv
<1>3. seat' \in [Device -> {"gone", "online", "offline"}] /\ Seated' \subseteq Seated
  BY <1>1 DEF BookInv, RoomTypes, Seated
<1>4. CASE phase = "playing" /\ phase' = "finished" /\ FreezeVerdict
  BY <1>1, <1>2, <1>3, <1>4, VerdictFreezes
<1>5. CASE UNCHANGED <<verdict, outcome, writes>> /\ phase' \in {phase, "lobby"}
  <2>1. UNCHANGED Books
    BY <1>1, <1>5 DEF Books
  <2>2. RoomTypes'
    BY <1>1, <1>3, <1>5 DEF BookInv, RoomTypes
  <2>3. RoomTells'
    BY <1>1, <1>3, <1>5 DEF BookInv, RoomTells
  <2>4. started \in Nat
    BY GameNumbers
  <2> QED BY <1>1, <1>2, <1>5, <2>1, <2>2, <2>3, <2>4, RoomMoves
<1> QED BY <1>4, <1>5 DEF GiveUpSeat

-----------------------------------------------------------------------------
(***************************************************************************)
(* A write is taken.                                                       *)
(***************************************************************************)

\* A write of a row that is neither there nor under way, of the finish the room
\* holds, about one of its participants; or of the totals, marked with it.
LEMMA WriteAdded ==
  ASSUME BookInv, phase = "finished", NEW x \in Write, x.game = game,
         ~Pending(game, x.device),
         IF x.device = None
         THEN ~globalMark[game] /\ globalMark' = [globalMark EXCEPT ![game] = TRUE]
         ELSE /\ x.device \notin marked[game] /\ globalMark' = globalMark
              /\ x.device \in outcome[game].players
              /\ x.won = (x.device = outcome[game].winner),
         writes' = writes \cup {x},
         WaitingFollows,
         UNCHANGED <<room, marked, rows, globalRows, failed>>
  PROVE  BookInv'
<1>1. UNCHANGED <<seat, phase, game, started, participants, verdict, outcome>>
  BY DEF room
<1>2. /\ game \in 1..MaxGames /\ game = started /\ game \in Games /\ Games \subseteq Nat
      /\ outcome[game].game # 0
  BY GameNumbers DEF BookInv, RoomTells, Games
<1>3. outcome[game] # NoVerdict
  BY <1>2 DEF NoVerdict
<1>4. RoomTypes' /\ RoomTells'
  BY <1>1 DEF BookInv, RoomTypes, RoomTells, Seated
<1>5. /\ globalMark' \in [Games -> BOOLEAN]
      /\ \A g \in Games \ {game} : globalMark'[g] = globalMark[g]
      /\ x.device = None => globalMark'[game]
      /\ globalMark[game] => globalMark'[game]
  BY <1>2 DEF BookInv, BookTypes
<1>6. BookTypes'
  BY <1>5 DEF BookInv, BookTypes, WaitingFollows
<1>7. \A g \in Games \ {game} : \A d : Pending(g, d)' => Pending(g, d)
  BY DEF Pending
<1>8. \A d : d # x.device => (Pending(game, d)' => Pending(game, d))
  BY <1>1 DEF Pending
<1>9. FreshGames'
  <2> SUFFICES ASSUME NEW g \in Games, g > started PROVE Fresh(g)'
    BY <1>1 DEF FreshGames
  <2>1. Fresh(g) /\ g # game
    BY <1>2 DEF BookInv, FreshGames
  <2> QED BY <1>1, <1>5, <2>1 DEF Fresh, WaitingFollows
<1>10. BooksAgree'
  <2>1. \A v, w \in writes' : v.game = w.game /\ v.device = w.device => v = w
    <3>1. \A v \in writes : ~(v.game = game /\ v.device = x.device)
      BY DEF Pending
    <3> QED BY <3>1 DEF BookInv, BooksAgree
  <2>2. \A g \in Games, d \in Device :
          /\ d \in marked'[g] <=> rows'[g][d] # <<>>
          /\ d \in marked'[g] => Len(rows'[g][d]) = 1 /\ ~Pending(g, d)'
    BY <1>1, <1>7, <1>8, NoneAssumption DEF BookInv, BooksAgree, Pending
  <2>3. \A g \in Games :
          /\ globalRows'[g] > 0 => globalRows'[g] = 1 /\ ~Pending(g, None)'
          /\ globalRows'[g] > 0 \/ Pending(g, None)' => globalMark'[g]
    BY <1>1, <1>2, <1>5, <1>7, <1>8 DEF BookInv, BooksAgree, Pending
  <2> QED BY <2>1, <2>2, <2>3 DEF BooksAgree, Pending
<1>11. BooksTell'
  BY <1>1, <1>3 DEF BookInv, BooksTell, WaitingFollows
<1>12. \A g \in Games : \A d : Pending(g, d) => Pending(g, d)'
  BY DEF Pending
<1>13. AwayAreRecorded'
  BY <1>1, <1>12 DEF BookInv, AwayAreRecorded, Pending
<1>14. FailureCanBeRetried'
  <2>1. x.device = None => Pending(game, None)'
    BY <1>1 DEF Pending
  <2> QED BY <1>1, <1>2, <1>5, <1>10, <1>12, <2>1 DEF BookInv, BooksAgree, FailureCanBeRetried, Pending
<1> QED BY <1>4, <1>6, <1>9, <1>10, <1>11, <1>13, <1>14 DEF BookInv

\* A submission that waits for the write under way.
LEMMA WaitAdded ==
  ASSUME BookInv, phase = "finished", NEW x \in Wait, x.game = game,
         x.device \in outcome[game].players,
         waiting' = waiting \cup {x},
         UNCHANGED <<room, marked, globalMark, writes, rows, globalRows, failed>>
  PROVE  BookInv'
<1>1. UNCHANGED <<seat, phase, game, started, participants, verdict, outcome>>
  BY DEF room
<1>2. game = started /\ game \in Nat /\ Games \subseteq Nat
  BY GameNumbers DEF Games
<1>3. RoomTypes' /\ RoomTells' /\ BookTypes'
  BY <1>1 DEF BookInv, RoomTypes, RoomTells, Seated, BookTypes
<1>4. FreshGames'
  <2> SUFFICES ASSUME NEW g \in Games, g > started PROVE Fresh(g)'
    BY <1>1 DEF FreshGames
  <2>1. Fresh(g) /\ g # game
    BY <1>2 DEF BookInv, FreshGames
  <2> QED BY <1>1, <2>1 DEF Fresh
<1>5. BooksAgree' /\ BooksTell'
  BY <1>1 DEF BookInv, BooksAgree, BooksTell, Pending
<1>6. AwayAreRecorded' /\ FailureCanBeRetried'
  BY <1>1 DEF BookInv, AwayAreRecorded, FailureCanBeRetried, Pending
<1> QED BY <1>3, <1>4, <1>5, <1>6 DEF BookInv

LEMMA OwnSubmitted ==
  ASSUME BookInv, NEW d \in Device, NEW by \in By, NEW finish, TakesOwn(d, finish), SubmitOwn(d, by)
  PROVE  BookInv'
<1>1. phase = "finished" /\ d \in verdict.players /\ (Pending(game, d) \/ d \notin marked[game])
  BY DEF TakesOwn, NamesFinish
<1>2. verdict = outcome[game] /\ game \in 1..MaxGames
  BY <1>1, GameNumbers DEF BookInv, RoomTells
<1>3. UNCHANGED <<room, marked, globalMark, rows, globalRows, failed>>
  BY DEF SubmitOwn, store
<1>4. CASE Pending(game, d)
  <2> DEFINE x == [device |-> d, game |-> game, by |-> by, seated |-> TRUE]
  <2>1. x \in Wait /\ x.game = game /\ x.device = d
    BY <1>2 DEF Wait
  <2>2. waiting' = waiting \cup {x} /\ writes' = writes
    BY <1>4 DEF SubmitOwn, WriteOrWait
  <2> HIDE DEF x
  <2> QED BY <1>1, <1>2, <1>3, <2>1, <2>2, WaitAdded
<1>5. CASE ~Pending(game, d)
  <2> DEFINE x == Row(game, d, verdict.winner, by)
  <2>1. x \in Write /\ x.game = game /\ x.device = d /\ x.won = (d = verdict.winner)
    BY <1>2, RowTypes
  <2>2. writes' = writes \cup {x} /\ waiting' = waiting
    BY <1>5 DEF SubmitOwn, WriteOrWait
  <2>3. WaitingFollows
    BY <2>2 DEF WaitingFollows, BookInv, BookTypes
  <2>4. d # None
    BY NoneAssumption
  <2> HIDE DEF x
  <2> QED BY <1>1, <1>2, <1>3, <1>5, <2>1, <2>2, <2>3, <2>4, WriteAdded
<1> QED BY <1>4, <1>5

LEMMA GlobalSubmitted ==
  ASSUME BookInv, NEW by \in By, NEW finish, TakesGlobal(finish), SubmitGlobal(by)
  PROVE  BookInv'
<1>1. phase = "finished" /\ ~globalMark[game]
  BY DEF TakesGlobal, NamesFinish
<1>2. game \in 1..MaxGames /\ game \in Games
  BY <1>1, GameNumbers
<1>3. /\ UNCHANGED <<room, marked, waiting, rows, globalRows, failed>>
      /\ globalMark' = [globalMark EXCEPT ![game] = TRUE]
      /\ writes' = writes \cup {GlobalRow(game, by)}
  BY DEF SubmitGlobal, store
<1> DEFINE x == GlobalRow(game, by)
<1>4. x \in Write /\ x.game = game /\ x.device = None
  BY <1>2, GlobalRowTypes
<1>5. ~Pending(game, None)
  BY <1>1, <1>2 DEF BookInv, BooksAgree
<1>6. WaitingFollows
  BY <1>3 DEF WaitingFollows, BookInv, BookTypes
<1> HIDE DEF x
<1>7. writes' = writes \cup {x}
  BY <1>3 DEF x
<1> QED BY <1>1, <1>3, <1>4, <1>5, <1>6, <1>7, WriteAdded

\* After its wait a submission is taken as if it had just come, or dropped.
LEMMA WaitResumed ==
  ASSUME BookInv, NEW w \in waiting, Resume(w)
  PROVE  BookInv'
<1>1. /\ ~Pending(w.game, w.device) /\ waiting' = waiting \ {w}
      /\ UNCHANGED <<room, marked, globalMark, rows, globalRows, failed>>
  BY DEF Resume, store
<1>2. WaitingFollows
  BY <1>1 DEF WaitingFollows, BookInv, BookTypes
<1>3. CASE StillTaken(w)
  <2>1. /\ phase = "finished" /\ game = w.game /\ w.device \notin marked[game]
        /\ w.device \in verdict.players
    BY <1>3 DEF StillTaken, SameFinish
  <2>2. verdict = outcome[game] /\ w.device \in Device /\ w.game \in 1..MaxGames /\ w.by \in By
    BY <2>1 DEF BookInv, RoomTells, BookTypes, Wait
  <2> DEFINE x == Row(w.game, w.device, verdict.winner, w.by)
  <2>3. x \in Write /\ x.game = w.game /\ x.device = w.device
        /\ x.won = (w.device = verdict.winner)
    BY <2>2, RowTypes
  <2>4. writes' = writes \cup {x}
    BY <1>3 DEF Resume
  <2>5. w.device # None
    BY <2>2, NoneAssumption
  <2> HIDE DEF x
  <2> QED BY <1>1, <1>2, <2>1, <2>2, <2>3, <2>4, <2>5, WriteAdded
<1>4. CASE ~StillTaken(w)
  <2>1. writes' = writes
    BY <1>4 DEF Resume
  <2>2. UNCHANGED <<seat, phase, game, started, participants, verdict, outcome>>
    BY <1>1 DEF room
  <2>3. UNCHANGED Books
    BY <1>1, <2>1, <2>2 DEF Books
  <2>4. RoomTypes' /\ RoomTells'
    BY <2>2 DEF BookInv, RoomTypes, RoomTells, Seated
  <2>5. started \in Nat
    BY GameNumbers
  <2> QED BY <1>2, <2>2, <2>3, <2>4, <2>5, RoomMoves
<1> QED BY <1>3, <1>4

-----------------------------------------------------------------------------
(***************************************************************************)
(* A write ends.                                                           *)
(***************************************************************************)

LEMMA WriteCommitted ==
  ASSUME BookInv, NEW w \in writes, WriteCommits(w)
  PROVE  BookInv'
<1>1. /\ writes' = writes \ {w}
      /\ marked' = (IF w.device # None THEN [marked EXCEPT ![w.game] = @ \cup {w.device}] ELSE marked)
      /\ UNCHANGED <<seat, phase, game, started, participants, verdict, outcome, globalMark, waiting, failed>>
  BY DEF WriteCommits, PublishMark, room
<1>2. /\ w \in Write /\ w.game \in Games /\ w.device \in Device \cup {None} /\ w.won \in BOOLEAN
      /\ Games \subseteq Nat /\ Pending(w.game, w.device) /\ ~Fresh(w.game)
  BY BoundAssumption DEF BookInv, BookTypes, Write, Games, Pending, Fresh
<1>3. WaitingFollows
  BY <1>1 DEF WaitingFollows, BookInv, BookTypes
<1>4. RoomTypes' /\ RoomTells'
  BY <1>1 DEF BookInv, RoomTypes, RoomTells, Seated
<1>5. /\ ~Pending(w.game, w.device)'
      /\ \A g \in Games : \A d : Pending(g, d)' => Pending(g, d)
      /\ \A g \in Games : \A d : Pending(g, d) => Pending(g, d)' \/ (g = w.game /\ d = w.device)
  BY <1>1 DEF BookInv, BooksAgree, Pending
<1>6. CASE w.device = None
  <2>1. globalRows' = [globalRows EXCEPT ![w.game] = @ + 1] /\ rows' = rows /\ marked' = marked
    BY <1>1, <1>6 DEF WriteCommits
  <2>2. globalRows[w.game] = 0 /\ globalMark[w.game]
    <3>1. Pending(w.game, None) /\ globalRows[w.game] \in Nat
      BY <1>2, <1>6 DEF BookInv, BookTypes
    <3>2. w.game \in Games
      BY <1>2
    <3>3. /\ globalRows[w.game] > 0 => ~Pending(w.game, None)
          /\ Pending(w.game, None) => globalMark[w.game]
      BY <3>2 DEF BookInv, BooksAgree
    <3> QED BY <3>1, <3>3
  <2>3. /\ globalRows' \in [Games -> Nat] /\ globalRows'[w.game] = 1
        /\ \A g \in Games \ {w.game} : globalRows'[g] = globalRows[g]
    BY <1>2, <2>1, <2>2 DEF BookInv, BookTypes
  <2>4. BookTypes'
    BY <1>1, <1>3, <2>1, <2>3 DEF BookInv, BookTypes, WaitingFollows
  <2>5. BooksAgree'
    <3>1. \A v, u \in writes' : v.game = u.game /\ v.device = u.device => v = u
      BY <1>1 DEF BookInv, BooksAgree
    <3>2. \A g \in Games, d \in Device :
            /\ d \in marked'[g] <=> rows'[g][d] # <<>>
            /\ d \in marked'[g] => Len(rows'[g][d]) = 1 /\ ~Pending(g, d)'
      BY <1>5, <2>1 DEF BookInv, BooksAgree
    <3>3. \A g \in Games :
            /\ globalRows'[g] > 0 => globalRows'[g] = 1 /\ ~Pending(g, None)'
            /\ globalRows'[g] > 0 \/ Pending(g, None)' => globalMark'[g]
      BY <1>1, <1>5, <1>6, <2>2, <2>3 DEF BookInv, BooksAgree
    <3> QED BY <3>1, <3>2, <3>3 DEF BooksAgree, Pending
  <2>6. BooksTell'
    BY <1>1, <2>1, <2>3 DEF BookInv, BooksTell
  <2>7. FreshGames'
    <3>1. \A g \in Games : Fresh(g) => Fresh(g)'
      BY <1>1, <1>2, <2>1, <2>3 DEF Fresh
    <3> QED BY <1>1, <3>1 DEF BookInv, FreshGames
  <2>8. AwayAreRecorded'
    <3>1. \A g \in Games : outcome[g].away \subseteq Device
      BY DEF BookInv, RoomTypes, Verdict
    <3>2. \A g \in Games, d \in Device : Pending(g, d) => Pending(g, d)'
      BY <1>1, <1>6, NoneAssumption DEF Pending
    <3> QED BY <1>1, <2>1, <3>1, <3>2 DEF BookInv, AwayAreRecorded, Pending
  <2>9. FailureCanBeRetried'
    <3>1. game \in Games
      BY GameNumbers
    <3>2. globalRows'[game] > 0 \/ (globalRows'[game] = globalRows[game] /\ game # w.game)
      BY <2>3, <3>1
    <3>3. game # w.game => (Pending(game, None) => Pending(game, None)')
      BY <1>1 DEF Pending
    <3> QED BY <1>1, <2>5, <3>2, <3>3 DEF BookInv, BooksAgree, FailureCanBeRetried, Pending
  <2> QED BY <1>4, <2>4, <2>5, <2>6, <2>7, <2>8, <2>9 DEF BookInv
<1>7. CASE w.device # None
  <2> DEFINE h == w.game
             c == w.device
  <2>1. /\ c \in Device /\ h \in Games /\ globalRows' = globalRows
        /\ rows' = [rows EXCEPT ![h][c] = Append(@, w.won)]
        /\ marked' = [marked EXCEPT ![h] = @ \cup {c}]
    BY <1>1, <1>2, <1>7 DEF WriteCommits
  <2>2. rows[h][c] = <<>> /\ c \notin marked[h]
    BY <1>2, <2>1 DEF BookInv, BooksAgree
  <2>3. Append(<<>>, w.won) = <<w.won>> /\ <<w.won>> \in Seq(BOOLEAN)
    BY <1>2
  <2>4. /\ rows' \in [Games -> [Device -> Seq(BOOLEAN)]]
        /\ rows'[h][c] = <<w.won>>
        /\ \A g \in Games, d \in Device : ~(g = h /\ d = c) => rows'[g][d] = rows[g][d]
    <3>1. rows \in [Games -> [Device -> Seq(BOOLEAN)]]
      BY DEF BookInv, BookTypes
    <3> HIDE DEF h, c
    <3> QED BY <2>1, <2>2, <2>3, <3>1
  <2>5. /\ marked' \in [Games -> SUBSET Device]
        /\ \A g \in Games, d \in Device : d \in marked'[g] <=> d \in marked[g] \/ (g = h /\ d = c)
    <3>1. marked \in [Games -> SUBSET Device]
      BY DEF BookInv, BookTypes
    <3> HIDE DEF h, c
    <3> QED BY <2>1, <3>1
  <2>6. BookTypes'
    BY <1>1, <1>3, <2>1, <2>4, <2>5 DEF BookInv, BookTypes, WaitingFollows
  <2>7. BooksAgree'
    <3>1. \A v, u \in writes' : v.game = u.game /\ v.device = u.device => v = u
      BY <1>1 DEF BookInv, BooksAgree
    <3>2. ASSUME NEW g \in Games, NEW d \in Device
          PROVE  /\ d \in marked'[g] <=> rows'[g][d] # <<>>
                 /\ d \in marked'[g] => Len(rows'[g][d]) = 1 /\ ~Pending(g, d)'
      <4>1. CASE g = h /\ d = c
        <5>1. ~Pending(g, d)'
          BY <1>1, <4>1 DEF BookInv, BooksAgree, Pending
        <5>2. rows'[g][d] = <<w.won>> /\ d \in marked'[g]
          BY <2>4, <2>5, <4>1
        <5> QED BY <5>1, <5>2
      <4>2. CASE ~(g = h /\ d = c)
        <5>1. Pending(g, d)' => Pending(g, d)
          BY <1>1 DEF Pending
        <5>2. rows'[g][d] = rows[g][d] /\ (d \in marked'[g] <=> d \in marked[g])
          BY <2>4, <2>5, <4>2
        <5> QED BY <5>1, <5>2 DEF BookInv, BooksAgree
      <4> QED BY <4>1, <4>2
    <3>3. \A g \in Games :
            /\ globalRows'[g] > 0 => globalRows'[g] = 1 /\ ~Pending(g, None)'
            /\ globalRows'[g] > 0 \/ Pending(g, None)' => globalMark'[g]
      BY <1>1, <1>5, <2>1 DEF BookInv, BooksAgree
    <3> QED BY <3>1, <3>2, <3>3 DEF BooksAgree, Pending
  <2>8. BooksTell'
    <3>1. c \in outcome[h].players /\ w.won = (c = outcome[h].winner)
      BY <1>7 DEF BookInv, BooksTell
    <3>2. ASSUME NEW g \in Games, NEW d \in Device, rows'[g][d] # <<>>
          PROVE  d \in outcome[g].players /\ rows'[g][d][1] = (d = outcome[g].winner)
      <4>1. CASE g = h /\ d = c
        <5>1. rows'[g][d][1] = w.won
          BY <2>4, <4>1
        <5> QED BY <3>1, <4>1, <5>1
      <4>2. CASE ~(g = h /\ d = c)
        <5>1. rows'[g][d] = rows[g][d]
          BY <2>4, <4>2
        <5> QED BY <3>2, <5>1 DEF BookInv, BooksTell
      <4> QED BY <4>1, <4>2
    <3>3. \A v \in writes' : v \in writes
      BY <1>1
    <3> QED BY <1>1, <2>1, <3>2, <3>3 DEF BookInv, BooksTell
  <2>9. FreshGames'
    <3>1. ASSUME NEW g \in Games, Fresh(g)
          PROVE  Fresh(g)'
      <4>1. g # h
        BY <1>2, <3>1
      <4>2. \A d \in Device : d \notin marked'[g] /\ rows'[g][d] = <<>>
        BY <2>4, <2>5, <3>1, <4>1 DEF Fresh
      <4>3. marked'[g] = {}
        BY <2>5, <4>2
      <4> QED BY <1>1, <2>1, <3>1, <4>2, <4>3 DEF Fresh
    <3> QED BY <1>1, <3>1 DEF BookInv, FreshGames
  <2>10. AwayAreRecorded'
    <3>1. \A g \in Games : outcome[g].away \subseteq Device
      BY DEF BookInv, RoomTypes, Verdict
    <3>2. \A g \in Games, d \in Device : rows[g][d] # <<>> => rows'[g][d] # <<>>
      BY <2>2, <2>4
    <3>3. ASSUME NEW g \in Games, NEW d \in Device, Pending(g, d)
          PROVE  Pending(g, d)' \/ rows'[g][d] # <<>>
      <4>1. Pending(g, d)' \/ (g = h /\ d = c)
        BY <1>1, <3>3 DEF Pending
      <4>2. rows'[h][c] # <<>>
        BY <2>4
      <4> QED BY <4>1, <4>2
    <3> QED BY <1>1, <3>1, <3>2, <3>3 DEF BookInv, AwayAreRecorded, Pending
  <2>11. FailureCanBeRetried'
    <3>1. game \in Games
      BY GameNumbers
    <3>2. Pending(game, None) => Pending(game, None)'
      BY <1>1, <1>7 DEF Pending
    <3> QED BY <1>1, <2>1, <2>7, <3>2 DEF BookInv, BooksAgree, FailureCanBeRetried, Pending
  <2> QED BY <1>4, <2>6, <2>7, <2>8, <2>9, <2>10, <2>11 DEF BookInv
<1> QED BY <1>6, <1>7

LEMMA WriteFailed ==
  ASSUME BookInv, NEW w \in writes, WriteFails(w)
  PROVE  BookInv'
<1>1. /\ writes' = writes \ {w} /\ marked' = marked
      /\ globalMark' = (IF w.device = None /\ w.game = game
                        THEN [globalMark EXCEPT ![game] = FALSE] ELSE globalMark)
      /\ failed' = (IF w.device = None THEN failed ELSE failed \cup {<<w.game, w.device>>})
      /\ UNCHANGED <<seat, phase, game, started, participants, verdict, outcome, waiting, rows, globalRows>>
  BY DEF WriteFails, PublishMark, Rollback, room
<1>2. /\ w \in Write /\ w.game \in Games /\ w.device \in Device \cup {None}
      /\ game \in Games /\ Games \subseteq Nat /\ ~Fresh(w.game)
  BY BoundAssumption DEF BookInv, BookTypes, RoomTypes, Write, Games, Fresh
<1>3. WaitingFollows
  BY <1>1 DEF WaitingFollows, BookInv, BookTypes
<1>4. RoomTypes' /\ RoomTells'
  BY <1>1 DEF BookInv, RoomTypes, RoomTells, Seated
<1>5. /\ globalMark' \in [Games -> BOOLEAN]
      /\ \A g \in Games : globalMark'[g] => globalMark[g]
      /\ \A g \in Games : globalMark[g] => globalMark'[g] \/ (g = game /\ w.game = game /\ w.device = None)
      /\ w.device = None /\ w.game = game => ~globalMark'[game]
  BY <1>1, <1>2 DEF BookInv, BookTypes
<1>6. BookTypes'
  <2>1. failed' \in SUBSET (Games \X Device)
    BY <1>1, <1>2 DEF BookInv, BookTypes
  <2> QED BY <1>1, <1>5, <2>1 DEF BookInv, BookTypes
<1>7. FreshGames'
  <2>1. \A g \in Games : Fresh(g) => Fresh(g)'
    BY <1>1, <1>5 DEF Fresh
  <2> QED BY <1>1, <2>1 DEF BookInv, FreshGames
<1>8. BooksAgree'
  <2>1. \A v, u \in writes' : v.game = u.game /\ v.device = u.device => v = u
    BY <1>1 DEF BookInv, BooksAgree
  <2>2. \A g \in Games, d \in Device :
          /\ d \in marked'[g] <=> rows'[g][d] # <<>>
          /\ d \in marked'[g] => Len(rows'[g][d]) = 1 /\ ~Pending(g, d)'
    BY <1>1 DEF BookInv, BooksAgree, Pending
  <2>3. ASSUME NEW g \in Games
        PROVE  /\ globalRows'[g] > 0 => globalRows'[g] = 1 /\ ~Pending(g, None)'
               /\ globalRows'[g] > 0 \/ Pending(g, None)' => globalMark'[g]
    <3>1. Pending(g, None)' => Pending(g, None)
      BY <1>1 DEF Pending
    <3>2. /\ globalRows[g] > 0 => globalRows[g] = 1 /\ ~Pending(g, None)
          /\ globalRows[g] > 0 \/ Pending(g, None) => globalMark[g]
      BY DEF BookInv, BooksAgree
    <3>3. CASE g = game /\ w.game = game /\ w.device = None
      <4>1. Pending(g, None)
        BY <3>3 DEF Pending
      <4>2. ~Pending(g, None)'
        BY <1>1, <3>3 DEF BookInv, BooksAgree, Pending
      <4> QED BY <1>1, <3>2, <4>1, <4>2
    <3> QED BY <1>1, <1>5, <3>1, <3>2, <3>3
  <2> QED BY <2>1, <2>2, <2>3 DEF BooksAgree, Pending
<1>9. BooksTell'
  BY <1>1 DEF BookInv, BooksTell
<1>10. AwayAreRecorded'
  <2>1. \A g \in Games : outcome[g].away \subseteq Device
    BY DEF BookInv, RoomTypes, Verdict
  <2>2. ASSUME NEW g \in Games, NEW d \in Device, Pending(g, d)
        PROVE  Pending(g, d)' \/ <<g, d>> \in failed'
    <3>1. Pending(g, d)' \/ (g = w.game /\ d = w.device)
      BY <1>1, <2>2 DEF Pending
    <3>2. d # None
      BY NoneAssumption
    <3> QED BY <1>1, <3>1, <3>2
  <2>3. failed \subseteq failed'
    BY <1>1
  <2> QED BY <1>1, <2>1, <2>2, <2>3 DEF BookInv, AwayAreRecorded, Pending
<1>11. FailureCanBeRetried'
  <2>1. globalMark'[game] => ~(w.device = None /\ w.game = game)
    BY <1>5
  <2>2. ~(w.device = None /\ w.game = game) => (Pending(game, None) => Pending(game, None)')
    BY <1>1 DEF Pending
  <2> QED BY <1>1, <1>2, <1>5, <1>8, <2>1, <2>2 DEF BookInv, BooksAgree, FailureCanBeRetried, Pending
<1> QED BY <1>4, <1>6, <1>7, <1>8, <1>9, <1>10, <1>11 DEF BookInv

-----------------------------------------------------------------------------
(***************************************************************************)
(* A connection is lost: its writes and waits go on, for nobody.           *)
(***************************************************************************)

Orphan(x, d) == IF x.by # None /\ x.by.device = d THEN [x EXCEPT !.by = None] ELSE x

LEMMA OrphanWrites ==
  ASSUME BookTypes, NEW d \in Device
  PROVE  /\ Orphans(writes, d) = {Orphan(x, d) : x \in writes}
         /\ Orphans(waiting, d) = {Orphan(x, d) : x \in waiting}
         /\ \A x \in writes : /\ Orphan(x, d) \in Write /\ Orphan(x, d).game = x.game
                              /\ Orphan(x, d).device = x.device /\ Orphan(x, d).won = x.won
                              /\ Orphan(x, d).by \in {None, x.by}
         /\ \A x \in waiting : /\ Orphan(x, d) \in Wait /\ Orphan(x, d).game = x.game
                               /\ Orphan(x, d).device = x.device
                               /\ Orphan(x, d).seated = x.seated
                               /\ Orphan(x, d).by \in {None, x.by}
                               /\ Orphan(x, d).by # None => Orphan(x, d).by.device # d
<1>1. Orphans(writes, d) = {Orphan(x, d) : x \in writes}
  BY DEF Orphans, Orphan
<1>2. Orphans(waiting, d) = {Orphan(x, d) : x \in waiting}
  BY DEF Orphans, Orphan
<1>3. \A x \in Write : /\ [x EXCEPT !.by = None] \in Write /\ [x EXCEPT !.by = None].game = x.game
                       /\ [x EXCEPT !.by = None].device = x.device
                       /\ [x EXCEPT !.by = None].won = x.won
                       /\ [x EXCEPT !.by = None].by = None
  BY DEF Write, By
<1>4. \A x \in Wait : /\ [x EXCEPT !.by = None] \in Wait /\ [x EXCEPT !.by = None].game = x.game
                      /\ [x EXCEPT !.by = None].device = x.device
                      /\ [x EXCEPT !.by = None].seated = x.seated
                      /\ [x EXCEPT !.by = None].by = None
  BY DEF Wait, By
<1>5. writes \subseteq Write /\ waiting \subseteq Wait
  BY DEF BookTypes
<1>6. \A x \in writes : /\ Orphan(x, d) \in Write /\ Orphan(x, d).game = x.game
                        /\ Orphan(x, d).device = x.device /\ Orphan(x, d).won = x.won
                        /\ Orphan(x, d).by \in {None, x.by}
  BY <1>3, <1>5 DEF Orphan
<1>7. \A x \in waiting : /\ Orphan(x, d) \in Wait /\ Orphan(x, d).game = x.game
                         /\ Orphan(x, d).device = x.device
                         /\ Orphan(x, d).seated = x.seated
                         /\ Orphan(x, d).by \in {None, x.by}
                         /\ Orphan(x, d).by # None => Orphan(x, d).by.device # d
  BY <1>4, <1>5 DEF Orphan
<1> QED BY <1>1, <1>2, <1>6, <1>7

LEMMA BooksOrphaned ==
  ASSUME BookInv, NEW d \in Device,
         writes' = Orphans(writes, d), waiting' = Orphans(waiting, d),
         UNCHANGED <<room, marked, globalMark, rows, globalRows, failed>>
  PROVE  BookInv'
<1>1. /\ UNCHANGED <<seat, phase, game, started, participants, verdict, outcome>>
      /\ UNCHANGED <<marked, globalMark, rows, globalRows, failed>>
  BY DEF room
<1>2. BookTypes
  BY DEF BookInv
<1>3. \A x \in writes' : \E y \in writes : /\ x = Orphan(y, d) /\ x \in Write /\ x.game = y.game
                                           /\ x.device = y.device /\ x.won = y.won
  BY <1>2, OrphanWrites
<1>4. \A y \in writes : \E x \in writes' : x.game = y.game /\ x.device = y.device
  BY <1>2, OrphanWrites
<1>5. WaitingFollows
  BY <1>2, OrphanWrites DEF WaitingFollows
<1>6. RoomTypes' /\ RoomTells'
  BY <1>1 DEF BookInv, RoomTypes, RoomTells, Seated
<1>7. BookTypes'
  BY <1>1, <1>3, <1>5 DEF BookInv, BookTypes, WaitingFollows
<1>8. FreshGames'
  <2>1. \A g \in Games : Fresh(g) => Fresh(g)'
    BY <1>1, <1>3, <1>5 DEF Fresh, WaitingFollows
  <2> QED BY <1>1, <2>1 DEF BookInv, FreshGames
<1>9. BooksAgree'
  <2>1. \A v, u \in writes' : v.game = u.game /\ v.device = u.device => v = u
    BY <1>3 DEF BookInv, BooksAgree
  <2>2. \A g \in Games, c \in Device :
          /\ c \in marked'[g] <=> rows'[g][c] # <<>>
          /\ c \in marked'[g] => Len(rows'[g][c]) = 1 /\ ~Pending(g, c)'
    BY <1>1, <1>3 DEF BookInv, BooksAgree, Pending
  <2>3. \A g \in Games :
          /\ globalRows'[g] > 0 => globalRows'[g] = 1 /\ ~Pending(g, None)'
          /\ globalRows'[g] > 0 \/ Pending(g, None)' => globalMark'[g]
    BY <1>1, <1>3 DEF BookInv, BooksAgree, Pending
  <2> QED BY <2>1, <2>2, <2>3 DEF BooksAgree, Pending
<1>10. BooksTell'
  <2>1. \A w \in writes' :
          /\ outcome[w.game] # NoVerdict
          /\ w.device # None => /\ w.device \in outcome[w.game].players
                                /\ w.won = (w.device = outcome[w.game].winner)
    <3> TAKE w \in writes'
    <3>1. PICK y \in writes : w.game = y.game /\ w.device = y.device /\ w.won = y.won
      BY <1>3
    <3> QED BY <3>1 DEF BookInv, BooksTell
  <2>2. \A w \in waiting' : w.device \in outcome[w.game].players
    BY <1>5 DEF BookInv, BooksTell, WaitingFollows
  <2> QED BY <1>1, <2>1, <2>2 DEF BookInv, BooksTell
<1>11. AwayAreRecorded' /\ FailureCanBeRetried'
  BY <1>1, <1>4 DEF BookInv, AwayAreRecorded, FailureCanBeRetried, Pending
<1> QED BY <1>6, <1>7, <1>8, <1>9, <1>10, <1>11 DEF BookInv

-----------------------------------------------------------------------------
(***************************************************************************)
(* The books' invariant, and what it says of the database.                 *)
(***************************************************************************)

LEMMA BooksStart == Init => BookInv
<1> SUFFICES ASSUME Init PROVE BookInv
  OBVIOUS
<1>1. 0 \in Games /\ NoVerdict \in Verdict /\ <<>> \in Seq(BOOLEAN)
  BY BoundAssumption DEF Games, NoVerdict, Verdict
<1>2. RoomTypes /\ BookTypes /\ RoomTells
  BY <1>1 DEF Init, RoomTypes, BookTypes, RoomTells
<1>3. FreshGames
  BY DEF Init, FreshGames, Fresh
<1>4. BooksAgree /\ BooksTell
  BY DEF Init, BooksAgree, BooksTell, Pending
<1>5. AwayAreRecorded /\ FailureCanBeRetried
  BY DEF Init, AwayAreRecorded, FailureCanBeRetried, NoVerdict
<1> QED BY <1>2, <1>3, <1>4, <1>5 DEF BookInv

LEMMA BooksStutter == BookInv /\ UNCHANGED vars => BookInv'
<1> SUFFICES ASSUME BookInv, UNCHANGED vars PROVE BookInv'
  OBVIOUS
<1>1. /\ UNCHANGED Books /\ waiting' = waiting
      /\ UNCHANGED <<seat, phase, game, started, participants, verdict, outcome>>
  BY DEF vars, Books, room, store
<1>2. WaitingFollows
  BY <1>1 DEF WaitingFollows, BookInv, BookTypes
<1>3. RoomTypes' /\ RoomTells'
  BY <1>1 DEF BookInv, RoomTypes, RoomTells, Seated
<1>4. started \in Nat
  BY GameNumbers
<1> QED BY <1>1, <1>2, <1>3, <1>4, RoomMoves

LEMMA AskerTypes ==
  ASSUME ClientTypes, NEW o \in Owed
  PROVE  /\ o.device \in Device /\ o.event \in {"own", "global"}
         /\ Asker(o.device, slot[o].attempt) \in By
         /\ Asker(o.device, slot[o].attempt).device = o.device
         /\ Asker(o.device, slot[o].attempt).attempt = slot[o].attempt
         /\ Asker(o.device, slot[o].attempt) # None
<1>1. o.device \in Device /\ o.event \in {"own", "global"}
  BY ClientAssumption DEF Owed
<1>2. slot[o].attempt \in Nat
  BY DEF ClientTypes, SlotType
<1>3. Asker(o.device, slot[o].attempt) \in [device : Device, attempt : Nat]
  BY <1>1, <1>2 DEF Asker
<1> QED BY <1>1, <1>3, NoneAssumption DEF Asker, By

-----------------------------------------------------------------------------
(***************************************************************************)
(* The slots.                                                              *)
(***************************************************************************)

LEMMA SlotTypes ==
  ASSUME ClientTypes, game \in Games
  PROVE  /\ Idle \in SlotType
         /\ Slot("sent", 1, game) \in SlotType /\ Slot("sent", 1, game) # Idle
         /\ \A s \in SlotType :
              /\ Again(s) \in SlotType
              /\ s.attempt < MaxAttempts => Again(s).st = "backoff" /\ Again(s) # Idle
              /\ \A res : Settled(s, res) \in {Again(s), Idle}
              /\ Settled(s, "write-failed") = Again(s)
         /\ \A o \in Owed : slot[o] \in SlotType
<1>1. 0 \in Games
  BY BoundAssumption DEF Games
<1>2. /\ Idle \in SlotType /\ Idle.st = "idle"
      /\ Slot("sent", 1, game) \in SlotType /\ Slot("sent", 1, game) # Idle
  BY <1>1 DEF Idle, Slot, SlotType
<1>3. ASSUME NEW s \in SlotType
      PROVE  /\ Again(s) \in SlotType
             /\ s.attempt < MaxAttempts => Again(s).st = "backoff"
  <2>1. [s EXCEPT !.st = "backoff"] \in SlotType /\ [s EXCEPT !.st = "backoff"].st = "backoff"
    BY DEF SlotType
  <2> QED BY <1>2, <2>1 DEF Again
<1>4. \A s, res : Settled(s, res) \in {Again(s), Idle} /\ Settled(s, "write-failed") = Again(s)
  BY DEF Settled
<1>5. \A o \in Owed : slot[o] \in SlotType
  BY DEF ClientTypes
<1> QED BY <1>2, <1>3, <1>4, <1>5

\* First attempts are sent for what the behaviour follows; the other slots are
\* kept.
LEMMA FirstSent ==
  ASSUME ClientTypes, game \in Games, NEW outs, NEW kept \in [Owed -> SlotType], SubmitFirst(outs, kept)
  PROVE  /\ slot' \in [Owed -> SlotType]
         /\ \A o \in Owed :
              \/ o.event \in followed /\ o \in outs /\ slot'[o] = Slot("sent", 1, game)
              \/ ~(o.event \in followed /\ o \in outs) /\ slot'[o] = kept[o]
<1>1. Slot("sent", 1, game) \in SlotType
  BY SlotTypes
<1>2. \A o \in Owed : kept[o] \in SlotType
  OBVIOUS
<1> QED BY <1>1, <1>2 DEF SubmitFirst

LEMMA SlotsCleared ==
  ASSUME ClientTypes, game \in Games, NEW ds
  PROVE  /\ Cleared(ds) \in [Owed -> SlotType]
         /\ \A o \in Owed : Cleared(ds)[o] = (IF o.device \in ds THEN Idle ELSE slot[o])
BY SlotTypes DEF Cleared

\* An answer settles one heard attempt, or none.
LEMMA AnswerSettles ==
  ASSUME ClientTypes, game \in Games, NEW event, NEW w, NEW res, Answer(event, w, res)
  PROVE  /\ slot' \in [Owed -> SlotType]
         /\ \A o \in Owed :
              \/ slot'[o] = slot[o]
              \/ /\ w.by # None /\ o.device = w.by.device /\ o.event = event
                 /\ slot[o] # Idle /\ slot[o].game = w.game
                 /\ slot'[o] = Settled(slot[o], res)
<1>1. CASE slot' = slot
  BY <1>1 DEF ClientTypes
<1>2. CASE slot' # slot
  <2>1. PICK x \in Owed : /\ w.by # None /\ x.device = w.by.device /\ x.event = event
                          /\ slot[x] = Slot("heard", w.by.attempt, w.game)
                          /\ slot' = [slot EXCEPT ![x] = Settled(@, res)]
    BY <1>2 DEF Answer
  <2>2. slot[x] # Idle /\ slot[x].game = w.game
    BY <2>1 DEF Idle, Slot
  <2>3. Settled(slot[x], res) \in SlotType
    BY SlotTypes
  <2> QED BY <2>1, <2>2, <2>3 DEF ClientTypes
<1> QED BY <1>1, <1>2

LEMMA HostPasses ==
  ASSUME ClientTypes, PassHost
  PROVE  host' \in Device
BY DEF PassHost, ClientTypes

-----------------------------------------------------------------------------
(***************************************************************************)
(* The clients' steps: of the page alone, of its connection, of its seat.  *)
(***************************************************************************)

\* The page thinks and sends; the server does nothing.
PageStep ==
  \/ \E d \in Device : LearnFinish(d) \/ Connect(d) \/ RejoinAnswered(d) \/ RejoinRefused(d)
  \/ \E o \in Owed : Deadline(o) \/ Resend(o)

LEMMA PageSteps ==
  ASSUME SubInv, PageStep
  PROVE  SubInv'
<1>1. BookInv /\ ClientTypes /\ ClientsAgree /\ game \in Games
  BY GameNumbers DEF SubInv
<1>2. UNCHANGED vars /\ host' = host /\ followed' = followed
  BY DEF PageStep, LearnFinish, Connect, RejoinAnswered, RejoinRefused, Leave, Deadline, Resend, client
<1>3. BookInv'
  BY <1>1, <1>2, BooksStutter
<1>4. UNCHANGED <<seat, phase, game, writes, waiting>>
  BY <1>2 DEF vars, room
<1>5. 0 \in Games
  BY BoundAssumption DEF Games
<1>6. /\ link' \in [Device -> {"out", "up", "down", "joining"}]
      /\ seen' \in [Device -> Games]
      /\ bound' \in [Device -> BOOLEAN]
      /\ \A d \in Device : bound'[d] => bound[d]
      /\ \A d \in Device : bound[d] => bound'[d] \/ seat[d] = "gone"
  <2>1. CASE UNCHANGED <<link, bound, seen>>
    BY <1>1, <2>1 DEF ClientTypes
  <2>2. CASE \E d \in Device : LearnFinish(d)
    BY <1>1, <2>2 DEF LearnFinish, ClientTypes
  <2>3. CASE \E d \in Device : Connect(d) \/ RejoinAnswered(d)
    BY <1>1, <2>3 DEF Connect, RejoinAnswered, ClientTypes
  <2>4. CASE \E d \in Device : RejoinRefused(d)
    <3>1. PICK d \in Device : RejoinRefused(d)
      BY <2>4
    <3>2. /\ link' = [x \in Device |-> IF x \in {d} THEN "out" ELSE link[x]]
          /\ bound' = [x \in Device |-> bound[x] /\ x \notin {d}]
          /\ seen' = [x \in Device |-> IF x \in {d} THEN 0 ELSE seen[x]]
          /\ seat[d] = "gone"
      BY <3>1 DEF RejoinRefused, Leave
    <3> QED BY <1>1, <1>5, <3>2 DEF ClientTypes
  <2> QED BY <2>1, <2>2, <2>3, <2>4 DEF PageStep, Deadline, Resend, client
<1>7. /\ slot' \in [Owed -> SlotType]
      /\ \A o \in Owed : slot'[o] # Idle => slot[o] # Idle \/ o.event \in followed
  <2>1. CASE \E d \in Device : LearnFinish(d)
    <3>1. PICK d \in Device : LearnFinish(d)
      BY <2>1
    <3>2. PICK outs, kept : kept = Cleared({d}) /\ SubmitFirst(outs, kept)
      BY <3>1 DEF LearnFinish
    <3>3. /\ kept \in [Owed -> SlotType]
          /\ \A o \in Owed : kept[o] = (IF o.device \in {d} THEN Idle ELSE slot[o])
      BY <1>1, <3>2, SlotsCleared
    <3>4. /\ slot' \in [Owed -> SlotType]
          /\ \A o \in Owed : o.event \in followed \/ slot'[o] = kept[o]
      BY <1>1, <3>2, <3>3, FirstSent
    <3> QED BY <3>3, <3>4
  <2>2. CASE \E d \in Device : Connect(d)
    BY <1>1, <2>2 DEF Connect, ClientTypes
  <2>3. CASE \E d \in Device : RejoinAnswered(d)
    <3>1. PICK d \in Device, aged \in BOOLEAN :
            slot' = [o \in Owed |-> IF o.device = d /\ slot[o].st = "parked"
                                    THEN (IF aged THEN Idle ELSE [slot[o] EXCEPT !.st = "sent"]) ELSE slot[o]]
      BY <2>3 DEF RejoinAnswered
    <3>2. \A o \in Owed : slot[o] \in SlotType
      BY <1>1, SlotTypes
    <3>3. /\ \A o \in Owed : [slot[o] EXCEPT !.st = "sent"] \in SlotType
          /\ \A o \in Owed : slot[o].st = "parked" => slot[o] # Idle
      BY <3>2 DEF SlotType, Idle, Slot
    <3>4. Idle \in SlotType
      BY <1>1, SlotTypes
    <3>5. \A o \in Owed : /\ slot'[o] \in SlotType
                          /\ slot'[o] # Idle => slot[o] # Idle
      BY <3>1, <3>2, <3>3, <3>4
    <3>6. slot' = [o \in Owed |-> slot'[o]]
      BY <3>1
    <3> QED BY <3>5, <3>6
  <2>4. CASE \E d \in Device : RejoinRefused(d)
    <3>1. PICK d \in Device : slot' = Cleared({d})
      BY <2>4 DEF RejoinRefused
    <3> QED BY <1>1, <3>1, SlotsCleared
  <2>5. CASE \E o \in Owed : Deadline(o)
    <3>1. PICK o \in Owed : slot[o].st \in {"sent", "heard", "unheard"} /\ slot' = [slot EXCEPT ![o] = Again(@)]
      BY <2>5 DEF Deadline
    <3>2. slot[o] # Idle
      BY <3>1 DEF Idle, Slot
    <3>3. Again(slot[o]) \in SlotType
      BY <1>1, SlotTypes
    <3> QED BY <1>1, <3>1, <3>2, <3>3 DEF ClientTypes
  <2>6. CASE \E o \in Owed : Resend(o)
    <3>1. PICK o \in Owed, held \in BOOLEAN :
            /\ slot[o].st = "backoff"
            /\ slot' = [slot EXCEPT ![o] = Slot(IF held THEN "parked" ELSE "sent", @.attempt + 1, @.game)]
      BY <2>6 DEF Resend, HeldBack
    <3>2. slot[o] # Idle /\ slot[o] \in SlotType
      BY <1>1, <3>1, SlotTypes DEF Idle, Slot
    <3>3. Slot(IF held THEN "parked" ELSE "sent", slot[o].attempt + 1, slot[o].game) \in SlotType
      BY <3>2 DEF Slot, SlotType
    <3> QED BY <1>1, <3>1, <3>2, <3>3 DEF ClientTypes
  <2> QED BY <2>1, <2>2, <2>3, <2>4, <2>5, <2>6 DEF PageStep
<1>8. ClientTypes'
  BY <1>1, <1>2, <1>6, <1>7 DEF ClientTypes
<1>9. ClientsAgree'
  <2>1. \A o \in Owed : slot'[o] # Idle => o.event \in followed'
    BY <1>1, <1>2, <1>7 DEF ClientsAgree
  <2>2. \A w \in waiting : w.device \in Device
    BY <1>1 DEF BookInv, BookTypes, Wait
  <2> QED BY <1>1, <1>2, <1>4, <1>6, <2>1, <2>2 DEF ClientsAgree
<1> QED BY <1>3, <1>8, <1>9 DEF SubInv

\* The seats move, or the connections: the slots are cleared or promoted, the
\* rest of the page's state follows its connection.
LEMMA SeatSteps ==
  ASSUME SubInv, BookInv',
         host' \in Device, UNCHANGED followed,
         \A x \in writes' : x.by # None => \E w \in writes : x.by = w.by /\ x.device = w.device,
         link' \in [Device -> {"out", "up", "down", "joining"}],
         bound' \in [Device -> BOOLEAN],
         seen' \in [Device -> Games],
         slot' \in [Owed -> SlotType],
         \A o \in Owed : slot'[o] # Idle => slot[o] # Idle \/ o.event \in followed,
         \A d \in Device : bound'[d] => seat'[d] # "gone",
         \A x \in waiting' : x.by # None => \E w \in waiting :
           /\ x.by = w.by /\ x.device = w.device /\ x.game = w.game
           /\ x.seated = w.seated \/ seat'[w.device] = "gone"
           /\ bound'[w.device] \/ seat'[w.device] = "gone",
         \A w \in waiting : /\ phase' # "lobby" /\ w.game = game' => phase # "lobby" /\ w.game = game
                            /\ phase' # "lobby" /\ seat[w.device] = "gone" => seat'[w.device] = "gone"
  PROVE  SubInv'
<1>1. ClientsAgree
  BY DEF SubInv
<1>2. ClientTypes'
  BY DEF ClientTypes
<1>3. \A o \in Owed : slot'[o] # Idle => o.event \in followed'
  BY <1>1 DEF ClientsAgree
<1>4. \A w \in writes' : w.by # None /\ w.device # None => w.by.device = w.device
  BY <1>1 DEF ClientsAgree
<1>5. ASSUME NEW x \in waiting', x.by # None
      PROVE  /\ x.by.device = x.device
             /\ bound'[x.device] \/ seat'[x.device] = "gone"
             /\ ~x.seated /\ phase' # "lobby" /\ x.game = game' => seat'[x.device] = "gone"
  <2>1. PICK w \in waiting :
          /\ x.by = w.by /\ x.device = w.device /\ x.game = w.game
          /\ x.seated = w.seated \/ seat'[w.device] = "gone"
          /\ bound'[w.device] \/ seat'[w.device] = "gone"
    BY <1>5
  <2>2. w.by.device = w.device /\ (~w.seated /\ phase # "lobby" /\ w.game = game => seat[w.device] = "gone")
    BY <1>1, <1>5, <2>1 DEF ClientsAgree
  <2>3. ASSUME ~x.seated, phase' # "lobby", x.game = game', seat'[x.device] # "gone"
        PROVE  FALSE
    <3>1. phase # "lobby" /\ w.game = game /\ seat[w.device] # "gone"
      BY <2>1, <2>3
    <3>2. ~w.seated
      BY <2>1, <2>3
    <3> QED BY <2>2, <3>1, <3>2
  <2> QED BY <2>1, <2>2, <2>3
<1> QED BY <1>2, <1>3, <1>4, <1>5 DEF SubInv, ClientsAgree

\* A promotion sends first attempts for what is followed, and keeps the rest.
LEMMA PromotedSlots ==
  ASSUME ClientTypes, game \in Games, NEW kept \in [Owed -> SlotType], Promoted(kept)
  PROVE  /\ slot' \in [Owed -> SlotType]
         /\ \A o \in Owed : o.event \in followed \/ slot'[o] = kept[o]
         /\ \A o \in Owed : slot'[o] # Idle \/ slot'[o] = kept[o]
<1>1. PICK outs : SubmitFirst(outs, kept)
  BY DEF Promoted
<1> QED BY <1>1, FirstSent, SlotTypes

\* What a device that leaves the room keeps.
LEMMA Leaves ==
  ASSUME ClientTypes, NEW ds, Leave(ds)
  PROVE  /\ link' \in [Device -> {"out", "up", "down", "joining"}]
         /\ bound' \in [Device -> BOOLEAN]
         /\ seen' \in [Device -> Games]
         /\ \A d \in Device : bound'[d] <=> bound[d] /\ d \notin ds
         /\ followed' = followed
<1>1. 0 \in Games
  BY BoundAssumption DEF Games
<1> QED BY <1>1 DEF Leave, ClientTypes

LEMMA EnterStep ==
  ASSUME SubInv, NEW d \in Device, Enter(d)
  PROVE  SubInv'
<1>1. BookInv /\ ClientTypes /\ ClientsAgree /\ Join(d)
  BY DEF SubInv, Enter
<1>2. BookInv'
  BY <1>1, SeatsMove
<1>3. /\ link' = [link EXCEPT ![d] = "up"] /\ bound' = [bound EXCEPT ![d] = TRUE]
      /\ UNCHANGED <<seen, followed, slot>> /\ (host' = d \/ PassHost)
  BY DEF Enter
<1>4. /\ phase = "lobby" /\ seat[d] = "gone" /\ seat' = [seat EXCEPT ![d] = "online"]
      /\ UNCHANGED <<phase, game, writes, waiting>>
  BY <1>1 DEF Join
<1>5. host' \in Device
  BY <1>1, <1>3, HostPasses
<1>6. /\ seat'[d] = "online" /\ bound'[d]
      /\ \A x \in Device : x # d => seat'[x] = seat[x] /\ bound'[x] = bound[x]
  BY <1>1, <1>3, <1>4 DEF BookInv, RoomTypes, ClientTypes
<1>7. /\ \A x \in Device : bound'[x] => seat'[x] # "gone"
      /\ \A w \in waiting : w.by # None => bound'[w.device] \/ seat'[w.device] = "gone"
  <2>1. \A w \in waiting : w.device \in Device
    BY <1>1 DEF BookInv, BookTypes, Wait
  <2> QED BY <1>1, <1>6, <2>1 DEF ClientsAgree
<1>8. /\ link' \in [Device -> {"out", "up", "down", "joining"}]
      /\ bound' \in [Device -> BOOLEAN] /\ seen' \in [Device -> Games]
      /\ slot' \in [Owed -> SlotType]
  BY <1>1, <1>3 DEF ClientTypes
<1>9. \A w \in waiting : ~(phase' # "lobby")
  BY <1>4
<1> QED BY <1>2, <1>3, <1>4, <1>5, <1>7, <1>8, <1>9, SeatSteps

LEMMA DisconnectStep ==
  ASSUME SubInv, NEW d \in Device, Disconnect(d)
  PROVE  SubInv'
<1>1. BookInv /\ ClientTypes /\ ClientsAgree /\ Drop(d) /\ game \in Games
  BY GameNumbers DEF SubInv, Disconnect
<1>2. BookInv'
  BY <1>1, SeatsMove
<1>3. UNCHANGED <<link, bound, seen, followed>> /\ PassHost /\ Promoted(slot)
  BY DEF Disconnect, client
<1>4. /\ seat[d] = "online" /\ seat' = [seat EXCEPT ![d] = "offline"]
      /\ UNCHANGED <<phase, game, writes, waiting>>
  BY <1>1 DEF Drop
<1>5. host' \in Device
  BY <1>1, <1>3, HostPasses
<1>6. \A x \in Device : seat'[x] = "gone" <=> seat[x] = "gone"
  BY <1>1, <1>4 DEF BookInv, RoomTypes
<1>7. /\ link' \in [Device -> {"out", "up", "down", "joining"}]
      /\ bound' \in [Device -> BOOLEAN] /\ seen' \in [Device -> Games]
      /\ slot \in [Owed -> SlotType]
  BY <1>1, <1>3 DEF ClientTypes
<1>8. slot' \in [Owed -> SlotType] /\ \A o \in Owed : slot'[o] # Idle => slot[o] # Idle \/ o.event \in followed
  BY <1>1, <1>3, <1>7, PromotedSlots
<1>9. \A w \in waiting : w.device \in Device
  BY <1>1 DEF BookInv, BookTypes, Wait
<1>10. /\ \A x \in Device : bound'[x] => seat'[x] # "gone"
       /\ \A w \in waiting : w.by # None => bound'[w.device] \/ seat'[w.device] = "gone"
  BY <1>1, <1>3, <1>6, <1>9 DEF ClientsAgree
<1> QED BY <1>2, <1>3, <1>4, <1>5, <1>6, <1>7, <1>8, <1>9, <1>10, SeatSteps

\* The seat's old connection was not live, so nobody asks for what waits for it.
LEMMA RejoinStep ==
  ASSUME SubInv, NEW d \in Device, Rejoin(d)
  PROVE  SubInv'
<1>1. BookInv /\ ClientTypes /\ ClientsAgree /\ Return(d) /\ game \in Games
  BY GameNumbers DEF SubInv, Rejoin
<1>2. BookInv'
  BY <1>1, SeatReturns
<1>3. /\ ~bound[d] /\ bound' = [bound EXCEPT ![d] = TRUE]
      /\ UNCHANGED <<link, seen, followed>> /\ PassHost /\ Promoted(slot)
  BY DEF Rejoin
<1>4. /\ seat[d] # "gone" /\ seat' = [seat EXCEPT ![d] = "online"] /\ waiting' = Unseated(d)
      /\ UNCHANGED <<phase, game, writes>>
  BY <1>1 DEF Return
<1>5. host' \in Device
  BY <1>1, <1>3, HostPasses
<1>6. \A x \in Device : seat'[x] = "gone" <=> seat[x] = "gone"
  BY <1>1, <1>4 DEF BookInv, RoomTypes
<1>7. /\ link' \in [Device -> {"out", "up", "down", "joining"}]
      /\ bound' \in [Device -> BOOLEAN] /\ seen' \in [Device -> Games]
      /\ slot \in [Owed -> SlotType]
      /\ \A x \in Device : bound'[x] <=> bound[x] \/ x = d
  BY <1>1, <1>3 DEF ClientTypes
<1>8. slot' \in [Owed -> SlotType] /\ \A o \in Owed : slot'[o] # Idle => slot[o] # Idle \/ o.event \in followed
  BY <1>1, <1>3, <1>7, PromotedSlots
<1>9. \A w \in waiting : w.device \in Device
  BY <1>1 DEF BookInv, BookTypes, Wait
<1>10. /\ \A x \in Device : bound'[x] => seat'[x] # "gone"
       /\ \A w \in waiting : w.by # None => /\ w.device # d
                                            /\ bound'[w.device] \/ seat'[w.device] = "gone"
  BY <1>1, <1>3, <1>4, <1>6, <1>7, <1>9 DEF ClientsAgree
<1>11. \A x \in waiting' : x.by # None => \E w \in waiting :
         /\ x.by = w.by /\ x.device = w.device /\ x.game = w.game
         /\ x.seated = w.seated \/ seat'[w.device] = "gone"
         /\ bound'[w.device] \/ seat'[w.device] = "gone"
  <2> SUFFICES ASSUME NEW x \in waiting', x.by # None
               PROVE  \E w \in waiting : /\ x.by = w.by /\ x.device = w.device /\ x.game = w.game
                                         /\ x.seated = w.seated
                                         /\ bound'[w.device] \/ seat'[w.device] = "gone"
    OBVIOUS
  <2>1. PICK w \in waiting : /\ x.game = w.game /\ x.device = w.device /\ x.by = w.by
                             /\ x.seated = (w.seated /\ w.device # d)
    BY <1>1, <1>4, UnseatedFollows DEF BookInv
  <2>2. w.device # d /\ (bound'[w.device] \/ seat'[w.device] = "gone")
    BY <1>10, <2>1
  <2>3. w.seated \in BOOLEAN
    BY <1>1 DEF BookInv, BookTypes, Wait
  <2> QED BY <2>1, <2>2, <2>3
<1> QED BY <1>2, <1>3, <1>4, <1>5, <1>6, <1>7, <1>8, <1>9, <1>10, <1>11, SeatSteps

LEMMA LoseSeatStep ==
  ASSUME SubInv, NEW d \in Device, LoseSeat(d)
  PROVE  SubInv'
<1>1. BookInv /\ ClientTypes /\ ClientsAgree /\ GiveUpSeat(d) /\ game \in Games
  BY GameNumbers DEF SubInv, LoseSeat
<1>2. BookInv'
  BY <1>1, SeatGivenUp
<1> DEFINE told == {x \in {d} : bound[x]}
<1>3. Leave(told) /\ PassHost /\ Promoted(Cleared(told))
  BY DEF LoseSeat
<1>4. /\ seat' = [seat EXCEPT ![d] = "gone"] /\ waiting' = Unseated(d) /\ game' = game
      /\ phase' # "lobby" => phase # "lobby"
  BY <1>1 DEF GiveUpSeat
<1>5. host' \in Device
  BY <1>1, <1>3, HostPasses
<1>6. \A x \in Device : seat'[x] = "gone" <=> seat[x] = "gone" \/ x = d
  BY <1>1, <1>4 DEF BookInv, RoomTypes
<1>7. /\ link' \in [Device -> {"out", "up", "down", "joining"}]
      /\ bound' \in [Device -> BOOLEAN] /\ seen' \in [Device -> Games]
      /\ followed' = followed
      /\ \A x \in Device : bound'[x] <=> bound[x] /\ x \notin told
  <2> HIDE DEF told
  <2> QED BY <1>1, <1>3, Leaves
<1>8. slot' \in [Owed -> SlotType] /\ \A o \in Owed : slot'[o] # Idle => slot[o] # Idle \/ o.event \in followed
  <2>1. PICK kept : kept = Cleared(told) /\ Promoted(kept)
    BY <1>3
  <2>2. /\ kept \in [Owed -> SlotType]
        /\ \A o \in Owed : kept[o] = (IF o.device \in told THEN Idle ELSE slot[o])
    <3> HIDE DEF told
    <3> QED BY <1>1, <2>1, SlotsCleared
  <2>3. /\ slot' \in [Owed -> SlotType]
        /\ \A o \in Owed : o.event \in followed \/ slot'[o] = kept[o]
    BY <1>1, <2>1, <2>2, PromotedSlots
  <2> QED BY <2>2, <2>3
<1>9. \A w \in waiting : w.device \in Device /\ w.seated \in BOOLEAN
  BY <1>1 DEF BookInv, BookTypes, Wait
<1>10. /\ \A x \in Device : bound'[x] => seat'[x] # "gone"
       /\ \A w \in waiting : w.by # None => bound'[w.device] \/ seat'[w.device] = "gone"
  BY <1>1, <1>6, <1>7, <1>9 DEF ClientsAgree
<1>11. \A x \in waiting' : x.by # None => \E w \in waiting :
         /\ x.by = w.by /\ x.device = w.device /\ x.game = w.game
         /\ x.seated = w.seated \/ seat'[w.device] = "gone"
         /\ bound'[w.device] \/ seat'[w.device] = "gone"
  <2> SUFFICES ASSUME NEW x \in waiting', x.by # None
               PROVE  \E w \in waiting : /\ x.by = w.by /\ x.device = w.device /\ x.game = w.game
                                         /\ x.seated = w.seated \/ seat'[w.device] = "gone"
                                         /\ bound'[w.device] \/ seat'[w.device] = "gone"
    OBVIOUS
  <2>1. PICK w \in waiting : /\ x.game = w.game /\ x.device = w.device /\ x.by = w.by
                             /\ x.seated = (w.seated /\ w.device # d)
    BY <1>1, <1>4, UnseatedFollows DEF BookInv
  <2>2. bound'[w.device] \/ seat'[w.device] = "gone"
    BY <1>10, <2>1
  <2>3. x.seated = w.seated \/ seat'[w.device] = "gone"
    BY <1>6, <1>9, <2>1
  <2> QED BY <2>1, <2>2, <2>3
<1>12. \A x \in writes' : x.by # None => x \in writes
  <2>1. CASE writes' = writes
    BY <2>1
  <2>2. CASE phase = "playing" /\ FreezeVerdict
    <3>1. PICK winner \in Device, away \in SUBSET participants :
            writes' = writes \cup {Row(game, c, winner, None) : c \in away}
      BY <1>1, <2>2, FreezeAdds
    <3> QED BY <3>1 DEF Row
  <2> QED BY <1>1, <2>1, <2>2 DEF GiveUpSeat
<1>13. \A w \in waiting : /\ phase' # "lobby" /\ w.game = game' => phase # "lobby" /\ w.game = game
                          /\ phase' # "lobby" /\ seat[w.device] = "gone" => seat'[w.device] = "gone"
  BY <1>4, <1>6, <1>9
<1>14. \A x \in Device : bound'[x] => seat'[x] # "gone"
  BY <1>10
<1> QED BY <1>2, <1>5, <1>7, <1>8, <1>11, <1>12, <1>13, <1>14, SeatSteps

LEMMA CloseRoomStep ==
  ASSUME SubInv, NEW d \in Device, CloseRoom(d)
  PROVE  SubInv'
<1>1. BookInv /\ ClientTypes /\ ClientsAgree /\ DeleteRoom(d) /\ game \in Games
  BY GameNumbers DEF SubInv, CloseRoom
<1>2. BookInv'
  BY <1>1, RoomDeletes
<1>3. PICK told : told = {x \in Device : bound[x]} /\ Leave(told) /\ slot' = Cleared(told) /\ host' = host
  BY DEF CloseRoom
<1>4. /\ \A x \in Device : seat'[x] = "gone"
      /\ waiting' = {[w EXCEPT !.seated = FALSE] : w \in waiting} /\ writes' = writes /\ phase' = "lobby"
  BY <1>1 DEF DeleteRoom
<1>5. host' \in Device
  BY <1>1, <1>3 DEF ClientTypes
<1>6. /\ link' \in [Device -> {"out", "up", "down", "joining"}]
      /\ bound' \in [Device -> BOOLEAN] /\ seen' \in [Device -> Games]
      /\ followed' = followed
      /\ \A x \in Device : bound'[x] <=> bound[x] /\ x \notin told
  BY <1>1, <1>3, Leaves
<1>7. slot' \in [Owed -> SlotType] /\ \A o \in Owed : slot'[o] # Idle => slot[o] # Idle
  <2>1. /\ Cleared(told) \in [Owed -> SlotType]
        /\ \A o \in Owed : Cleared(told)[o] = (IF o.device \in told THEN Idle ELSE slot[o])
    BY <1>1, SlotsCleared
  <2> QED BY <1>3, <2>1
<1>8. \A w \in waiting : w.device \in Device
  BY <1>1 DEF BookInv, BookTypes, Wait
<1>9. \A x \in waiting' : \E w \in waiting : x.by = w.by /\ x.device = w.device /\ x.game = w.game
  <2>1. \A w \in waiting : /\ [w EXCEPT !.seated = FALSE].game = w.game
                           /\ [w EXCEPT !.seated = FALSE].device = w.device
                           /\ [w EXCEPT !.seated = FALSE].by = w.by
    BY <1>1 DEF BookInv, BookTypes, Wait
  <2> TAKE x \in waiting'
  <2>2. PICK w \in waiting : x = [w EXCEPT !.seated = FALSE]
    BY <1>4
  <2> QED BY <2>1, <2>2
<1>10. \A x \in Device : ~bound'[x]
  BY <1>3, <1>6
<1>11. \A x \in waiting' : x.by # None => \E w \in waiting :
         /\ x.by = w.by /\ x.device = w.device /\ x.game = w.game
         /\ x.seated = w.seated \/ seat'[w.device] = "gone"
         /\ bound'[w.device] \/ seat'[w.device] = "gone"
  BY <1>4, <1>8, <1>9
<1> QED BY <1>2, <1>4, <1>5, <1>6, <1>7, <1>8, <1>10, <1>11, SeatSteps

LEMMA LoseLinkStep ==
  ASSUME SubInv, NEW d \in Device, NEW reload \in BOOLEAN, LoseLink(d, reload)
  PROVE  SubInv'
<1>1. BookInv /\ ClientTypes /\ ClientsAgree /\ game \in Games
  BY GameNumbers DEF SubInv
<1>2. /\ writes' = Orphans(writes, d) /\ waiting' = Orphans(waiting, d)
      /\ UNCHANGED <<room, marked, globalMark, store, host, followed>>
  BY DEF LoseLink
<1>3. BookInv'
  BY <1>1, <1>2, BooksOrphaned DEF store
<1>4. UNCHANGED <<seat, phase, game, host, followed>>
  BY <1>2 DEF room
<1>5. /\ link' \in [Device -> {"out", "up", "down", "joining"}]
      /\ bound' \in [Device -> BOOLEAN] /\ seen' \in [Device -> Games]
      /\ \A x \in Device : bound'[x] <=> bound[x] /\ x # d
  <2>1. 0 \in Games
    BY BoundAssumption DEF Games
  <2>2. /\ link' = [link EXCEPT ![d] = "down"] /\ bound' = [bound EXCEPT ![d] = FALSE]
        /\ seen' = seen \/ seen' = [seen EXCEPT ![d] = 0]
    BY DEF LoseLink
  <2> QED BY <1>1, <2>1, <2>2 DEF ClientTypes
<1>6. slot' \in [Owed -> SlotType] /\ \A o \in Owed : slot'[o] # Idle => slot[o] # Idle
  <2>1. slot' = [o \in Owed |-> IF o.device # d THEN slot[o]
                                ELSE IF reload THEN Idle
                                ELSE IF slot[o].st \in {"sent", "heard"} THEN [slot[o] EXCEPT !.st = "unheard"]
                                ELSE slot[o]]
    BY DEF LoseLink
  <2>2. Idle \in SlotType /\ \A o \in Owed : slot[o] \in SlotType
    BY <1>1, SlotTypes
  <2>3. /\ \A o \in Owed : [slot[o] EXCEPT !.st = "unheard"] \in SlotType
        /\ \A o \in Owed : slot[o].st \in {"sent", "heard"} => slot[o] # Idle
    BY <2>2 DEF SlotType, Idle, Slot
  <2>4. \A o \in Owed : slot'[o] \in SlotType /\ (slot'[o] # Idle => slot[o] # Idle)
    BY <2>1, <2>2, <2>3
  <2>5. slot' = [o \in Owed |-> slot'[o]]
    BY <2>1
  <2> QED BY <2>4, <2>5
<1>7. \A x \in writes' : x.by # None => \E w \in writes : x.by = w.by /\ x.device = w.device
  BY <1>1, <1>2, OrphanWrites DEF BookInv
<1>8. \A w \in waiting : w.device \in Device
  BY <1>1 DEF BookInv, BookTypes, Wait
<1>9. \A x \in waiting' : x.by # None => \E w \in waiting :
        /\ x.by = w.by /\ x.device = w.device /\ x.game = w.game /\ x.seated = w.seated
        /\ bound'[w.device] \/ seat'[w.device] = "gone"
  <2> SUFFICES ASSUME NEW x \in waiting', x.by # None
               PROVE  \E w \in waiting : /\ x.by = w.by /\ x.device = w.device /\ x.game = w.game
                                         /\ x.seated = w.seated
                                         /\ bound'[w.device] \/ seat'[w.device] = "gone"
    OBVIOUS
  <2>1. PICK w \in waiting : x = Orphan(w, d)
    BY <1>1, <1>2, OrphanWrites DEF BookInv
  <2>2. x.by = w.by /\ x.device = w.device /\ x.game = w.game /\ x.seated = w.seated /\ x.by.device # d
    BY <1>1, <2>1, OrphanWrites DEF BookInv
  <2>3. w.by.device = w.device /\ (bound[w.device] \/ seat[w.device] = "gone")
    BY <1>1, <2>2 DEF ClientsAgree
  <2> QED BY <1>4, <1>5, <1>8, <2>2, <2>3
<1>10. \A x \in Device : bound'[x] => seat'[x] # "gone"
  BY <1>1, <1>4, <1>5 DEF ClientsAgree
<1>11. host' \in Device
  BY <1>1, <1>4 DEF ClientTypes
<1>12. \A x \in waiting' : x.by # None => \E w \in waiting :
        /\ x.by = w.by /\ x.device = w.device /\ x.game = w.game
        /\ x.seated = w.seated \/ seat'[w.device] = "gone"
        /\ bound'[w.device] \/ seat'[w.device] = "gone"
  BY <1>9
<1> QED BY <1>3, <1>4, <1>5, <1>6, <1>7, <1>10, <1>11, <1>12, SeatSteps

LEMMA PlayStep ==
  ASSUME SubInv, Play
  PROVE  SubInv'
<1>1. BookInv /\ ClientTypes /\ ClientsAgree /\ game \in Games
  BY GameNumbers DEF SubInv
<1>2. BookInv'
  BY <1>1, RoomStarts, RoomFinishes, RoomResets DEF Play
<1>3. UNCHANGED <<host, link, bound, seen, followed, slot, seat, waiting>>
  BY DEF Play, client, Start, Finish, Reset
<1>4. \A x \in writes' : x.by # None => x \in writes
  <2>1. CASE writes' = writes
    BY <2>1
  <2>2. CASE phase = "playing" /\ FreezeVerdict
    <3>1. PICK winner \in Device, away \in SUBSET participants :
            writes' = writes \cup {Row(game, c, winner, None) : c \in away}
      BY <1>1, <2>2, FreezeAdds
    <3> QED BY <3>1 DEF Row
  <2> QED BY <2>1, <2>2 DEF Play, Start, Finish, Reset
<1>5. \A w \in waiting : phase' # "lobby" /\ w.game = game' => phase # "lobby" /\ w.game = game
  <2>1. CASE Start
    <3>1. game' \in Games /\ game' > started
      <4>1. game' = started + 1 /\ started < MaxGames
        BY <2>1 DEF Start
      <4> QED BY <1>1, <4>1, GameNumbers DEF Games
    <3>2. \A w \in waiting : w.game # game'
      BY <1>1, <3>1 DEF BookInv, FreshGames, Fresh
    <3> QED BY <3>2
  <2>2. CASE Finish
    BY <2>2 DEF Finish
  <2>3. CASE Reset
    BY <2>3 DEF Reset
  <2> QED BY <2>1, <2>2, <2>3 DEF Play
<1>6. /\ host' \in Device /\ link' \in [Device -> {"out", "up", "down", "joining"}]
      /\ bound' \in [Device -> BOOLEAN] /\ seen' \in [Device -> Games]
      /\ slot' \in [Owed -> SlotType]
  BY <1>1, <1>3 DEF ClientTypes
<1>7. \A w \in waiting : w.device \in Device
  BY <1>1 DEF BookInv, BookTypes, Wait
<1>8. /\ \A x \in Device : bound'[x] => seat'[x] # "gone"
      /\ \A w \in waiting : w.by # None => bound'[w.device] \/ seat'[w.device] = "gone"
  BY <1>1, <1>3, <1>7 DEF ClientsAgree
<1> QED BY <1>2, <1>3, <1>4, <1>5, <1>6, <1>7, <1>8, SeatSteps

-----------------------------------------------------------------------------
(***************************************************************************)
(* The server's steps: it hears a submission, ends a wait or a write.      *)
(***************************************************************************)

\* The server's part of a step leaves the seats and connections alone; what is
\* asked for in a client's name is that client's own.
LEMMA ServerSteps ==
  ASSUME SubInv, BookInv',
         UNCHANGED <<seat, phase, game, host, client>>,
         \A x \in writes' : x \in writes \/ (x.by # None /\ x.device # None => x.by.device = x.device),
         \A x \in waiting' : \/ x \in waiting
                             \/ x.device \in Device /\ x.by.device = x.device /\ bound[x.device] /\ x.seated,
         slot' \in [Owed -> SlotType],
         \A o \in Owed : slot'[o] # Idle => slot[o] # Idle
  PROVE  SubInv'
<1>1. ClientTypes /\ ClientsAgree
  BY DEF SubInv
<1>2. UNCHANGED <<link, bound, seen, followed>>
  BY DEF client
<1>3. ClientTypes'
  BY <1>1, <1>2 DEF ClientTypes
<1>4. ClientsAgree'
  BY <1>1, <1>2 DEF ClientsAgree
<1> QED BY <1>3, <1>4 DEF SubInv

\* What an attempt's hearing may do.
LEMMA HearCases ==
  ASSUME NEW o \in Owed, Hear(o)
  PROVE  LET by == Asker(o.device, slot[o].attempt)
             Refuse == slot' = [slot EXCEPT ![o] = Settled(@, "refused")] /\ UNCHANGED vars
             Take == slot' = [slot EXCEPT ![o].st = "heard"]
         IN /\ slot[o].st = "sent" /\ UNCHANGED <<host, client>>
            /\ \/ Refuse /\ ~bound[o.device]
               \/ Refuse /\ bound[o.device] /\ o.event = "own" /\ ~TakesOwn(o.device, slot[o].game)
               \/ /\ Refuse /\ bound[o.device] /\ o.event = "global"
                  /\ ~(host = o.device /\ TakesGlobal(slot[o].game))
               \/ /\ Take /\ bound[o.device] /\ o.event = "own"
                  /\ TakesOwn(o.device, slot[o].game) /\ SubmitOwn(o.device, by)
               \/ /\ Take /\ bound[o.device] /\ o.event = "global"
                  /\ TakesGlobal(slot[o].game) /\ SubmitGlobal(by)
BY DEF Hear

LEMMA HearStep ==
  ASSUME SubInv, NEW o \in Owed, Hear(o)
  PROVE  SubInv'
<1> DEFINE by == Asker(o.device, slot[o].attempt)
<1>1. BookInv /\ ClientTypes /\ ClientsAgree /\ game \in Games
  BY GameNumbers DEF SubInv
<1>2. /\ o.device \in Device /\ by \in By /\ by.device = o.device /\ by # None
      /\ slot[o] \in SlotType /\ slot[o].st = "sent" /\ slot[o] # Idle
  BY <1>1, AskerTypes, SlotTypes, HearCases DEF Idle, Slot
<1>3. UNCHANGED <<host, client>>
  BY HearCases
<1>4. CASE UNCHANGED vars /\ slot' = [slot EXCEPT ![o] = Settled(@, "refused")]
  <2>1. BookInv'
    BY <1>1, <1>4, BooksStutter
  <2>2. UNCHANGED <<seat, phase, game, writes, waiting>>
    BY <1>4 DEF vars, room
  <2>3. slot' \in [Owed -> SlotType] /\ \A x \in Owed : slot'[x] # Idle => slot[x] # Idle
    <3>1. Settled(slot[o], "refused") \in SlotType
      BY <1>1, <1>2, SlotTypes
    <3> QED BY <1>1, <1>2, <1>4, <3>1 DEF ClientTypes
  <2> QED BY <1>3, <2>1, <2>2, <2>3, ServerSteps
<1>5. ASSUME slot' = [slot EXCEPT ![o].st = "heard"]
      PROVE  slot' \in [Owed -> SlotType] /\ \A x \in Owed : slot'[x] # Idle => slot[x] # Idle
  <2>1. [slot[o] EXCEPT !.st = "heard"] \in SlotType
    BY <1>2 DEF SlotType
  <2>2. slot' = [slot EXCEPT ![o] = [slot[o] EXCEPT !.st = "heard"]]
    BY <1>5
  <2> QED BY <1>1, <1>2, <2>1, <2>2 DEF ClientTypes
<1>6. CASE /\ slot' = [slot EXCEPT ![o].st = "heard"] /\ bound[o.device]
           /\ TakesOwn(o.device, slot[o].game) /\ SubmitOwn(o.device, by)
  <2>1. BookInv'
    BY <1>1, <1>2, <1>6, OwnSubmitted
  <2>2. UNCHANGED <<seat, phase, game>> /\ WriteOrWait(o.device, by)
    BY <1>6 DEF SubmitOwn, room
  <2>3. \A x \in writes' : x \in writes \/ x.by.device = x.device
    BY <1>2, <2>2 DEF WriteOrWait, Row
  <2>4. \A x \in waiting' : x \in waiting \/ (x.device = o.device /\ x.by = by /\ x.seated)
    BY <2>2 DEF WriteOrWait
  <2> HIDE DEF by
  <2> QED BY <1>2, <1>3, <1>5, <1>6, <2>1, <2>2, <2>3, <2>4, ServerSteps
<1>7. CASE slot' = [slot EXCEPT ![o].st = "heard"] /\ TakesGlobal(slot[o].game) /\ SubmitGlobal(by)
  <2>1. BookInv'
    BY <1>1, <1>2, <1>7, GlobalSubmitted
  <2>2. UNCHANGED <<seat, phase, game, waiting>> /\ writes' = writes \cup {GlobalRow(game, by)}
    BY <1>7 DEF SubmitGlobal, room
  <2>3. \A x \in writes' : x \in writes \/ x.device = None
    BY <2>2 DEF GlobalRow
  <2> QED BY <1>3, <1>5, <1>7, <2>1, <2>2, <2>3, ServerSteps
<1> QED BY <1>4, <1>6, <1>7, HearCases

LEMMA WaitEndsStep ==
  ASSUME SubInv, NEW w \in waiting, WaitEnds(w)
  PROVE  SubInv'
<1>1. BookInv /\ ClientTypes /\ ClientsAgree /\ game \in Games
  BY GameNumbers DEF SubInv
<1>2. Resume(w) /\ UNCHANGED <<host, client>>
  BY DEF WaitEnds
<1>3. BookInv'
  BY <1>1, <1>2, WaitResumed
<1>4. /\ UNCHANGED <<seat, phase, game>> /\ waiting' \subseteq waiting
      /\ writes' \subseteq writes \cup {Row(w.game, w.device, verdict.winner, w.by)}
  BY <1>2 DEF Resume, room
<1>5. \A x \in writes' : x \in writes \/ (x.by # None => x.by.device = x.device)
  <2>1. w.by # None => w.by.device = w.device
    BY <1>1 DEF ClientsAgree
  <2> QED BY <1>4, <2>1 DEF Row
<1>6. slot' \in [Owed -> SlotType] /\ \A o \in Owed : slot'[o] # Idle => slot[o] # Idle
  <2>1. CASE slot' = slot
    BY <1>1, <2>1 DEF ClientTypes
  <2>2. CASE Answer("own", w, "refused")
    BY <1>1, <2>2, AnswerSettles
  <2> QED BY <2>1, <2>2 DEF WaitEnds
<1> QED BY <1>2, <1>3, <1>4, <1>5, <1>6, ServerSteps

LEMMA WriteEndsStep ==
  ASSUME SubInv, NEW w \in writes, WriteEnds(w)
  PROVE  SubInv'
<1>1. BookInv /\ ClientTypes /\ ClientsAgree /\ game \in Games
  BY GameNumbers DEF SubInv
<1>2. /\ WriteCommits(w) \/ WriteFails(w)
      /\ \E event, res : Answer(event, w, res)
      /\ UNCHANGED <<host, client>>
  BY DEF WriteEnds
<1>3. BookInv'
  BY <1>1, <1>2, WriteCommitted, WriteFailed
<1>4. UNCHANGED <<seat, phase, game, waiting>> /\ writes' \subseteq writes
  BY <1>2 DEF WriteCommits, WriteFails, room
<1>5. slot' \in [Owed -> SlotType] /\ \A o \in Owed : slot'[o] # Idle => slot[o] # Idle
  BY <1>1, <1>2, AnswerSettles
<1> QED BY <1>2, <1>3, <1>4, <1>5, ServerSteps

-----------------------------------------------------------------------------
(***************************************************************************)
(* What holds of every behaviour.                                          *)
(***************************************************************************)

LEMMA SubStarts == SubInit => SubInv
<1> SUFFICES ASSUME SubInit PROVE SubInv
  OBVIOUS
<1>1. BookInv /\ 0 \in Games
  BY BooksStart, BoundAssumption DEF SubInit, Games
<1>2. host \in Device
  BY ClientAssumption DEF SubInit
<1>3. Idle \in SlotType
  BY <1>1 DEF Idle, Slot, SlotType
<1>4. ClientTypes
  BY <1>1, <1>2, <1>3 DEF SubInit, ClientTypes
<1>5. ClientsAgree
  BY DEF SubInit, Init, ClientsAgree
<1> QED BY <1>1, <1>4, <1>5 DEF SubInv

LEMMA SubSteps == SubInv /\ [SubNext]_subVars => SubInv'
<1> SUFFICES ASSUME SubInv, [SubNext]_subVars PROVE SubInv'
  OBVIOUS
<1>1. CASE Play
  BY <1>1, PlayStep
<1>2. CASE \E d \in Device : Enter(d) \/ LoseSeat(d) \/ CloseRoom(d)
  BY <1>2, EnterStep, LoseSeatStep, CloseRoomStep
<1>3. CASE \E d \in Device : \/ \E reload \in BOOLEAN : LoseLink(d, reload)
                            \/ Disconnect(d) \/ Rejoin(d)
  BY <1>3, LoseLinkStep, DisconnectStep, RejoinStep
<1>4. CASE PageStep
  BY <1>4, PageSteps
<1>5. CASE \E o \in Owed : Hear(o)
  BY <1>5, HearStep
<1>6. CASE \E w \in waiting : WaitEnds(w)
  BY <1>6, WaitEndsStep
<1>7. CASE \E w \in writes : WriteEnds(w)
  BY <1>7, WriteEndsStep
<1>8. CASE UNCHANGED subVars
  <2>1. BookInv'
    BY <1>8, BooksStutter DEF SubInv, subVars
  <2>2. ClientTypes' /\ ClientsAgree'
    BY <1>8 DEF SubInv, ClientTypes, ClientsAgree, subVars, vars, room, client
  <2> QED BY <2>1, <2>2 DEF SubInv
<1> QED BY <1>1, <1>2, <1>3, <1>4, <1>5, <1>6, <1>7, <1>8 DEF SubNext, PageStep

\* The server's books and the clients' slots agree in every state, however
\* submissions, failures, rematches and lost connections follow one another.
THEOREM BooksAreSound == SubSpec => []SubInv
<1>1. SubInit => SubInv
  BY SubStarts
<1>2. SubInv /\ [SubNext]_subVars => SubInv'
  BY SubSteps
<1> QED BY <1>1, <1>2, PTL DEF SubSpec

LEMMA AtMostOne ==
  ASSUME NEW S, \A v, w \in S : v = w
  PROVE  Cardinality(S) \in {0, 1} /\ (S = {} => Cardinality(S) = 0)
<1>1. CASE S = {}
  BY <1>1, FS_EmptySet
<1>2. CASE S # {}
  <2>1. PICK w : S = {w}
    BY <1>2
  <2> QED BY <1>2, <2>1, FS_Singleton
<1> QED BY <1>1, <1>2

\* OneRowPerGame (writeDeviceStatsOnce, submitGlobalStats): whoever submits, and
\* however often, a device has one row of a game and the totals count it once.
THEOREM RowsAreUnique == SubSpec => []OneRowPerGame
<1>1. SubInv => OneRowPerGame
  <2> SUFFICES ASSUME SubInv, NEW g \in Games
               PROVE  /\ \A d \in Device :
                           Len(rows[g][d]) + Cardinality({w \in writes : w.game = g /\ w.device = d}) <= 1
                      /\ globalRows[g] + Cardinality({w \in writes : w.game = g /\ w.device = None}) <= 1
    BY DEF OneRowPerGame
  <2> DEFINE Of(d) == {w \in writes : w.game = g /\ w.device = d}
  <2>1. \A d : /\ Cardinality(Of(d)) \in {0, 1}
               /\ ~Pending(g, d) => Cardinality(Of(d)) = 0
    <3> TAKE d
    <3>1. \A v, w \in Of(d) : v = w
      BY DEF SubInv, BookInv, BooksAgree
    <3>2. ~Pending(g, d) => Of(d) = {}
      BY DEF Pending
    <3> HIDE DEF Of
    <3> QED BY <3>1, <3>2, AtMostOne
  <2>2. ASSUME NEW d \in Device
        PROVE  Len(rows[g][d]) + Cardinality(Of(d)) <= 1
    <3> HIDE DEF Of
    <3>1. CASE d \in marked[g]
      <4>1. Len(rows[g][d]) = 1 /\ ~Pending(g, d)
        BY <3>1 DEF SubInv, BookInv, BooksAgree
      <4> QED BY <2>1, <4>1
    <3>2. CASE d \notin marked[g]
      <4>1. rows[g][d] = <<>>
        BY <3>2 DEF SubInv, BookInv, BooksAgree
      <4>2. Len(rows[g][d]) = 0
        BY <4>1
      <4> QED BY <2>1, <4>2
    <3> QED BY <3>1, <3>2
  <2>3. globalRows[g] + Cardinality(Of(None)) <= 1
    <3> HIDE DEF Of
    <3>1. globalRows[g] \in Nat
      BY DEF SubInv, BookInv, BookTypes
    <3>2. globalRows[g] > 0 => globalRows[g] = 1 /\ ~Pending(g, None)
      BY DEF SubInv, BookInv, BooksAgree
    <3> QED BY <2>1, <3>1, <3>2
  <2> QED BY <2>2, <2>3
<1> QED BY <1>1, BooksAreSound, PTL

\* RowsTellOutcome (rememberFinishedGame): what is recorded of a game is the
\* verdict frozen for it, for its participants alone.
THEOREM RowsTellVerdict == SubSpec => []RowsTellOutcome
<1>1. SubInv => RowsTellOutcome
  <2> SUFFICES ASSUME SubInv, NEW g \in Games
               PROVE  /\ \A d \in Device :
                           \A won \in {rows[g][d][k] : k \in DOMAIN rows[g][d]}
                                      \cup {w.won : w \in {x \in writes : x.game = g /\ x.device = d}} :
                             d \in outcome[g].players /\ won = (d = outcome[g].winner)
                      /\ globalRows[g] > 0 \/ Pending(g, None) => outcome[g] # NoVerdict
    BY DEF RowsTellOutcome
  <2>1. BooksAgree /\ BooksTell /\ BookTypes
    BY DEF SubInv, BookInv
  <2>2. ASSUME NEW d \in Device, NEW k \in DOMAIN rows[g][d]
        PROVE  d \in outcome[g].players /\ rows[g][d][k] = (d = outcome[g].winner)
    <3>1. rows[g][d] \in Seq(BOOLEAN)
      BY <2>1 DEF BookTypes
    <3>2. rows[g][d] # <<>> /\ Len(rows[g][d]) = 1
      BY <2>1, <3>1 DEF BooksAgree
    <3>3. k = 1
      BY <3>1, <3>2
    <3> QED BY <2>1, <3>2, <3>3 DEF BooksTell
  <2>3. ASSUME NEW d \in Device, NEW w \in writes, w.game = g, w.device = d
        PROVE  d \in outcome[g].players /\ w.won = (d = outcome[g].winner)
    BY <2>1, <2>3, NoneAssumption DEF BooksTell
  <2>4. globalRows[g] > 0 \/ Pending(g, None) => outcome[g] # NoVerdict
    BY <2>1 DEF BooksTell, Pending
  <2> QED BY <2>2, <2>3, <2>4
<1> QED BY <1>1, BooksAreSound, PTL

\* AwayAreRecorded (recordDepartedSeatsStats): a participant who was away at the
\* end has a row, or one under way, unless the database refused it.
THEOREM AwayHaveRows == SubSpec => []AwayAreRecorded
<1>1. SubInv => AwayAreRecorded
  BY DEF SubInv, BookInv
<1> QED BY <1>1, BooksAreSound, PTL

\* FailureCanBeRetried (endGameStats, submitGlobalStats): a mark that refuses a
\* submission stands for a row that is there or, for the totals, under way.
THEOREM MarksStandForRows == SubSpec => []FailureCanBeRetried
<1>1. SubInv => FailureCanBeRetried
  BY DEF SubInv, BookInv
<1> QED BY <1>1, BooksAreSound, PTL

-----------------------------------------------------------------------------
(***************************************************************************)
(* When a client may stop sending.                                         *)
(***************************************************************************)

\* There is nothing left for an attempt to record.
Done(o) == \/ phase' # "finished" \/ game' # slot[o].game
           \/ o.event = "own" /\ rows'[game'][o.device] # <<>>
           \/ o.event = "global" /\ (globalRows'[game'] > 0 \/ Pending(game, None)' \/ host' # o.device)

LEMMA RefusedWhenDone ==
  ASSUME SubInv, NEW o \in Owed, Hear(o), slot'[o] = Idle, bound'[o.device]
  PROVE  Done(o)
<1>1. BookInv /\ ClientTypes /\ ClientsAgree /\ game \in Games /\ (phase # "lobby" => game \in 1..MaxGames)
  BY GameNumbers DEF SubInv
<1>2. /\ o.device \in Device /\ slot[o].st = "sent" /\ slot[o].game \in Games
      /\ o.event \in {"own", "global"} /\ UNCHANGED <<host, client>>
  BY <1>1, AskerTypes, HearCases DEF ClientTypes, SlotType
<1>3. bound[o.device]
  BY <1>2 DEF client
<1>4. slot' # [slot EXCEPT ![o].st = "heard"]
  BY <1>1 DEF ClientTypes, SlotType, Idle, Slot
<1>5. slot[o].game # None
  BY <1>2, NoneAssumption, BoundAssumption DEF Games
<1> SUFFICES ASSUME phase' = "finished", game' = slot[o].game
             PROVE  \/ o.event = "own" /\ rows'[game'][o.device] # <<>>
                    \/ /\ o.event = "global"
                       /\ globalRows'[game'] > 0 \/ Pending(game, None)' \/ host' # o.device
  BY DEF Done
<1>6. UNCHANGED vars
  BY <1>3, <1>4, HearCases
<1>7. /\ UNCHANGED <<phase, game, seat, verdict, outcome, rows, globalRows, marked, globalMark, writes>>
  BY <1>6 DEF vars, room, store
<1>8. NamesFinish(slot[o].game)
  BY <1>1, <1>7 DEF NamesFinish, BookInv, RoomTells
<1>9. CASE o.event = "own"
  <2>1. ~TakesOwn(o.device, slot[o].game)
    BY <1>3, <1>4, <1>9, HearCases
  <2>2. o.device \in verdict.players
    BY <1>1, <1>2, <1>3, <1>7 DEF ClientsAgree, BookInv, RoomTells, Seated
  <2>3. o.device \in marked[game]
    BY <1>8, <2>1, <2>2 DEF TakesOwn
  <2> QED BY <1>1, <1>2, <1>7, <1>9, <2>3 DEF BookInv, BooksAgree
<1>10. CASE o.event = "global"
  <2>1. ~(host = o.device /\ TakesGlobal(slot[o].game))
    BY <1>3, <1>4, <1>10, HearCases
  <2>2. CASE host # o.device
    BY <1>2, <1>10, <2>2
  <2>3. CASE globalMark[game]
    <3>1. game # 0
      BY <1>1, <1>7, BoundAssumption
    <3>2. globalRows[game] > 0 \/ Pending(game, None)
      BY <1>1, <2>3, <3>1 DEF BookInv, FailureCanBeRetried
    <3> QED BY <1>7, <1>10, <3>2 DEF Pending
  <2> QED BY <1>8, <2>1, <2>2, <2>3 DEF TakesGlobal
<1> QED BY <1>2, <1>9, <1>10

LEMMA WaitedWhenDone ==
  ASSUME SubInv, NEW w \in waiting, WaitEnds(w), NEW o \in Owed,
         slot[o] # Idle, slot'[o] = Idle, bound'[o.device]
  PROVE  Done(o)
<1>1. BookInv /\ ClientTypes /\ ClientsAgree /\ game \in Games /\ (phase # "lobby" => game \in 1..MaxGames)
  BY GameNumbers DEF SubInv
<1>2. /\ Resume(w) /\ UNCHANGED <<host, client>>
      /\ ~StillTaken(w) /\ Answer("own", w, "refused")
  BY DEF WaitEnds
<1>3. UNCHANGED <<seat, phase, game, verdict, outcome, rows, marked, bound>>
  BY <1>2 DEF Resume, room, store, client
<1>4. /\ w.by # None /\ o.device = w.by.device /\ o.event = "own" /\ slot[o].game = w.game
  BY <1>1, <1>2, AnswerSettles
<1>5. o.device = w.device /\ o.device \in Device
  BY <1>1, <1>4, AskerTypes DEF ClientsAgree
<1> SUFFICES ASSUME phase = "finished", game = w.game
             PROVE  rows[game][w.device] # <<>>
  BY <1>3, <1>4, <1>5 DEF Done
<1>6. w.seated
  <2>1. seat[w.device] # "gone"
    BY <1>1, <1>3, <1>5 DEF ClientsAgree
  <2> QED BY <1>1, <1>4, <2>1 DEF ClientsAgree
<1>7. w.device \in verdict.players
  BY <1>1 DEF BookInv, BooksTell, RoomTells
<1>8. w.device \in marked[game]
  BY <1>2, <1>6, <1>7 DEF StillTaken, SameFinish
<1> QED BY <1>1, <1>5, <1>8 DEF BookInv, BooksAgree

LEMMA WrittenWhenDone ==
  ASSUME SubInv, NEW w \in writes, WriteEnds(w), NEW o \in Owed,
         slot[o] # Idle, slot'[o] = Idle, slot[o].attempt < MaxAttempts
  PROVE  Done(o)
<1> DEFINE event == IF w.device = None THEN "global" ELSE "own"
<1>1. BookInv /\ ClientTypes /\ ClientsAgree /\ game \in Games
  BY GameNumbers DEF SubInv
<1>2. slot[o] \in SlotType
  BY <1>1, SlotTypes
<1>3. CASE WriteFails(w) /\ Answer(event, w, "write-failed")
  <2>1. slot'[o] = Settled(slot[o], "write-failed")
    <3> HIDE DEF event
    <3> QED BY <1>1, <1>3, AnswerSettles
  <2> QED BY <1>1, <1>2, <2>1, SlotTypes
<1>4. CASE WriteCommits(w) /\ Answer(event, w, "ok")
  <2>1. /\ w.by # None /\ o.device = w.by.device /\ o.event = event /\ slot[o].game = w.game
    <3> HIDE DEF event
    <3> QED BY <1>1, <1>4, AnswerSettles
  <2>2. game' = game /\ w.game \in Games /\ w.device \in Device \cup {None}
    BY <1>1, <1>4, BoundAssumption DEF WriteCommits, room, BookInv, BookTypes, Write, Games
  <2>3. CASE w.device # None
    <3>1. w.device = o.device /\ o.event = "own" /\ w.device \in Device
      BY <1>1, <2>1, <2>2, <2>3 DEF ClientsAgree
    <3>2. rows' = [rows EXCEPT ![w.game][w.device] = Append(@, w.won)]
      BY <1>4, <2>3 DEF WriteCommits
    <3>3. rows \in [Games -> [Device -> Seq(BOOLEAN)]]
      BY <1>1 DEF BookInv, BookTypes
    <3>4. rows'[w.game][w.device] = Append(rows[w.game][w.device], w.won)
      BY <2>2, <3>1, <3>2, <3>3
    <3>5. \A r \in Seq(BOOLEAN) : Append(r, w.won) # <<>>
      <4>1. w.won \in BOOLEAN
        BY <1>1 DEF BookInv, BookTypes, Write
      <4> QED BY SMTT(30), <4>1
    <3>6. rows'[w.game][w.device] # <<>>
      BY <2>2, <3>1, <3>3, <3>4, <3>5
    <3> QED BY <2>1, <3>1, <3>6 DEF Done
  <2>4. CASE w.device = None
    <3>1. globalRows' = [globalRows EXCEPT ![w.game] = @ + 1]
      BY <1>4, <2>4 DEF WriteCommits
    <3>2. globalRows'[w.game] > 0
      BY <1>1, <2>2, <3>1 DEF BookInv, BookTypes
    <3> QED BY <2>1, <2>4, <3>2 DEF Done
  <2> QED BY <2>3, <2>4
<1> QED BY <1>3, <1>4 DEF WriteEnds

\* The first attempts of a finish go out for whatever is followed, so a slot is
\* cleared by it only if the client is not the host.
LEMMA LearnedWhenDone ==
  ASSUME SubInv, NEW d \in Device, LearnFinish(d), NEW o \in Owed,
         slot[o] # Idle, slot'[o] = Idle
  PROVE  Done(o)
<1>1. ClientTypes /\ ClientsAgree /\ game \in Games
  BY GameNumbers DEF SubInv
<1>2. o.event \in followed /\ o.event \in {"own", "global"}
  BY <1>1, AskerTypes DEF ClientsAgree
<1>3. PICK kept, outs : /\ kept = Cleared({d}) /\ SubmitFirst(outs, kept)
                        /\ outs = {x \in Owed : x.device = d /\ (x.event = "global" => host = d)}
  BY DEF LearnFinish
<1>4. /\ kept \in [Owed -> SlotType]
      /\ \A x \in Owed : kept[x] = (IF x.device \in {d} THEN Idle ELSE slot[x])
  BY <1>1, <1>3, SlotsCleared
<1>5. Slot("sent", 1, game) # Idle
  BY <1>1, SlotTypes
<1>6. o \notin outs /\ slot'[o] = kept[o]
  <2>1. \/ o.event \in followed /\ o \in outs /\ slot'[o] = Slot("sent", 1, game)
        \/ ~(o.event \in followed /\ o \in outs) /\ slot'[o] = kept[o]
    <3>1. SubmitFirst(outs, kept) /\ kept \in [Owed -> SlotType]
      BY <1>3, <1>4
    <3> QED BY <1>1, <3>1, FirstSent
  <2> QED BY <1>2, <1>5, <2>1
<1>7. o.event = "global" /\ host # o.device
  BY <1>2, <1>3, <1>4, <1>6
<1> QED BY <1>7 DEF Done, LearnFinish

\* StopsOnlyWhenDone (socketSlice: settle, clearPendingStatsSubmit): a client
\* with attempts left stops sending only when its row is in the database, the
\* room has gone on, or the totals are another's or under way.
THEOREM StopsWhenDone == SubSpec => StopsOnlyWhenDone
<1>1. ASSUME SubInv, [SubNext]_subVars, NEW o \in Owed,
             slot[o].st \in {"sent", "heard"}, slot'[o] = Idle, slot[o].attempt < MaxAttempts,
             bound'[o.device]
      PROVE  Done(o)
  <2>1. ClientTypes /\ ClientsAgree /\ game \in Games /\ slot[o] \in SlotType /\ o.device \in Device
    <3>1. ClientTypes /\ ClientsAgree /\ game \in Games
      BY <1>1, GameNumbers DEF SubInv
    <3> QED BY <3>1, SlotTypes, AskerTypes
  <2>2. slot[o] # Idle
    BY <1>1 DEF Idle, Slot
  <2>3. slot' # slot
    BY <1>1, <2>2
  <2>4. CASE \E d \in Device : LearnFinish(d)
    BY <1>1, <2>2, <2>4, LearnedWhenDone
  <2>5. CASE \E x \in Owed : Deadline(x) \/ Resend(x) \/ Hear(x)
    <3>1. PICK x \in Owed : Deadline(x) \/ Resend(x) \/ Hear(x)
      BY <2>5
    <3>2. slot \in [Owed -> SlotType]
      BY <2>1 DEF ClientTypes
    <3>3. CASE Deadline(x)
      <4>1. slot' = [slot EXCEPT ![x] = Again(@)]
        BY <3>3 DEF Deadline
      <4> QED BY <1>1, <2>1, <2>2, <3>2, <4>1, SlotTypes
    <3>4. CASE Resend(x)
      <4>1. /\ slot[x].st = "backoff"
            /\ \E held \in BOOLEAN :
                 slot' = [slot EXCEPT ![x] = Slot(IF held THEN "parked" ELSE "sent", @.attempt + 1, @.game)]
        BY <3>4 DEF Resend, HeldBack
      <4> QED BY <1>1, <2>2, <3>2, <4>1
    <3>5. CASE Hear(x)
      <4>1. x = o
        BY <1>1, <2>2, <3>2, <3>5, HearCases
      <4> QED BY <1>1, <3>5, <4>1, RefusedWhenDone
    <3> QED BY <3>1, <3>3, <3>4, <3>5
  <2>6. CASE \E w \in waiting : WaitEnds(w)
    BY <1>1, <2>2, <2>6, WaitedWhenDone
  <2>7. CASE \E w \in writes : WriteEnds(w)
    BY <1>1, <2>2, <2>7, WrittenWhenDone
  <2>8. CASE \E d \in Device : Disconnect(d) \/ Rejoin(d)
    BY <1>1, <2>1, <2>2, <2>8, PromotedSlots DEF Disconnect, Rejoin, ClientTypes
  <2>9. CASE \E d \in Device : LoseSeat(d)
    <3>1. PICK d \in Device : LoseSeat(d)
      BY <2>9
    <3>2. PICK told, kept : /\ told = {x \in {d} : bound[x]} /\ kept = Cleared(told)
                            /\ Leave(told) /\ Promoted(kept)
      BY <3>1 DEF LoseSeat
    <3>3. /\ kept \in [Owed -> SlotType]
          /\ \A x \in Owed : kept[x] = (IF x.device \in told THEN Idle ELSE slot[x])
      BY <2>1, <3>2, SlotsCleared
    <3>4. o.device \notin told
      BY <1>1, <2>1, <3>2, Leaves
    <3> QED BY <1>1, <2>1, <2>2, <3>2, <3>3, <3>4, PromotedSlots
  <2>10. CASE \E d \in Device : CloseRoom(d)
    <3>1. PICK told : told = {x \in Device : bound[x]} /\ Leave(told) /\ slot' = Cleared(told)
      BY <2>10 DEF CloseRoom
    <3>2. \A x \in Owed : Cleared(told)[x] = (IF x.device \in told THEN Idle ELSE slot[x])
      BY <2>1, SlotsCleared
    <3> QED BY <1>1, <2>1, <2>2, <3>1, <3>2, Leaves
  <2>11. CASE \E d \in Device : RejoinRefused(d)
    <3>1. PICK told : told \in SUBSET Device /\ Leave(told) /\ slot' = Cleared(told)
      BY <2>11 DEF RejoinRefused
    <3>2. \A x \in Owed : Cleared(told)[x] = (IF x.device \in told THEN Idle ELSE slot[x])
      BY <2>1, SlotsCleared
    <3> QED BY <1>1, <2>1, <2>2, <3>1, <3>2, Leaves
  <2>12. CASE \E d \in Device, reload \in BOOLEAN : LoseLink(d, reload)
    <3>1. PICK d \in Device, reload \in BOOLEAN : LoseLink(d, reload)
      BY <2>12
    <3>2. o.device # d
      BY <1>1, <2>1, <3>1 DEF LoseLink, ClientTypes
    <3>3. slot'[o] = slot[o]
      BY <3>1, <3>2 DEF LoseLink
    <3> QED BY <1>1, <2>2, <3>3
  <2>13. CASE \E d \in Device : RejoinAnswered(d)
    <3>1. slot'[o] = slot[o]
      BY <1>1, <2>13 DEF RejoinAnswered
    <3> QED BY <1>1, <2>2, <3>1
  <2>14. CASE Play \/ \E d \in Device : Enter(d) \/ Connect(d)
    BY <2>3, <2>14 DEF Play, Enter, Connect
  <2> QED BY <1>1, <2>3, <2>4, <2>5, <2>6, <2>7, <2>8, <2>9, <2>10, <2>11, <2>12, <2>13, <2>14
          DEF SubNext, subVars
<1>2. SubInv /\ [SubNext]_subVars =>
        [\A o \in Owed :
           slot[o].st \in {"sent", "heard"} /\ slot'[o] = Idle /\ slot[o].attempt < MaxAttempts /\ bound'[o.device]
           => \/ phase' # "finished" \/ game' # slot[o].game
              \/ o.event = "own" /\ rows'[game'][o.device] # <<>>
              \/ o.event = "global" /\ (globalRows'[game'] > 0 \/ Pending(game, None)' \/ host' # o.device)]_subVars
  BY <1>1 DEF Done, Pending
<1> QED BY <1>2, BooksAreSound, PTL DEF SubSpec, StopsOnlyWhenDone
=============================================================================
