------------------------------ MODULE TurnClock ------------------------------
(***************************************************************************)
(* The clock the server runs on a turn: one timer per room, set from the   *)
(* time the turn began and the duration of the card in play, and set again *)
(* by everything that may change either.                                   *)
(*                                                                         *)
(* Time passes in half seconds, so that a remaining time in whole seconds  *)
(* is rounded as the code rounds it.  A callback may run late.             *)
(*                                                                         *)
(* Abstracted: who may act and what a turn scores (RoomGame): whether a    *)
(* turn ends the game is a free choice, an undo is possible whenever the   *)
(* turn before is known.  Of the deck only its length is kept, and an undo *)
(* may leave any.  A room that is deleted takes its timer along            *)
(* (SeatLifecycle has deletions).                                          *)
(***************************************************************************)
EXTENDS Integers

CONSTANTS Durations,      \* turnDuration: seconds a host may choose; 0 is no clock
          MaxSeats,
          DeckSize,
          MaxChain,       \* MAX_CHAIN_CARDS
          MaxRestarts,    \* MAX_TIMER_RESTARTS_PER_TURN
          MaxLate,        \* bound of the model: half seconds a callback may be late
          MaxAge          \* bound of the model: half seconds an untimed turn is followed

ASSUME ClockAssumption ==
  /\ Durations \subseteq Nat
  /\ MaxSeats \in Nat /\ DeckSize \in Nat \ {0}
  /\ MaxChain \in Nat /\ MaxRestarts \in Nat /\ MaxLate \in Nat /\ MaxAge \in Nat

VARIABLES
  phase,     \* roomPhase
  seats,     \* how many players the room has
  turn,      \* seat of the active player, 0 for null
  prev,      \* seat of the turn that can be undone, 0 for none
  card,      \* the card in play of the turn in progress
  deck,      \* how many cards are left
  dealt,     \* how many cards the turn in progress was dealt
  duration,  \* turnDuration
  started,   \* turnStartTime is set ...
  age,       \* ... this many half seconds ago
  armed,     \* turnExpireTimer is set ...
  left,      \* ... and due in as many half seconds
  seenSeat, seenDeck, restarts,   \* turnTimerState
  \* history
  since,     \* half seconds since the turn began, or drew within its budget
  timedFor,  \* the card the timer was last set for
  nth        \* the turns are numbered 0, 1, 0, 1, ...

table == <<phase, seats, turn, prev, card, deck, dealt>>
memory == <<seenSeat, seenDeck, restarts>>
clock == <<started, age, armed, left, timedFor>>
vars == <<table, duration, clock, memory, since, nth>>

Cards == {"plain", "Stop", "Kleeblatt", "Feuerwerk"}
Running == phase = "playing" /\ turn # 0

\* getEffectiveTurnDuration, in seconds.
Effective(c, d) == CASE c = "Feuerwerk" -> 3 * d [] c = "Kleeblatt" -> 2 * d [] OTHER -> d

\* calculateRemainingTurnTime: whole seconds, the elapsed ones rounded down.
Remaining(c, d, elapsed) == LET rest == Effective(c, d) - (elapsed \div 2) IN IF rest < 0 THEN 0 ELSE rest

-----------------------------------------------------------------------------
ClearServerTurnTimer == armed' = FALSE /\ left' = 0 /\ timedFor' = "plain"

\* Seeded fault of StartServerTurnTimer: every card gets the duration of a plain one.
StartPlainTimer ==
  IF phase' = "playing" /\ turn' # 0 /\ duration' # 0 /\ started'
  THEN armed' = TRUE /\ left' = 2 * Remaining("plain", duration', age') /\ timedFor' = card'
  ELSE ClearServerTurnTimer

\* startServerTurnTimer for the table and the start of the turn as they will
\* be.  Time left over: a caller that may find none expires the turn instead.
StartServerTurnTimer ==
  IF phase' = "playing" /\ turn' # 0 /\ duration' # 0 /\ started'
  THEN armed' = TRUE /\ left' = 2 * Remaining(card', duration', age') /\ timedFor' = card'
  ELSE ClearServerTurnTimer

Idle == seenSeat' = 0 /\ seenDeck' = 0 /\ restarts' = 0
RememberCurrentTurn == seenSeat' = turn' /\ seenDeck' = deck'

StopClock == started' = FALSE /\ age' = 0 /\ ClearServerTurnTimer

\* drawNextCardForRoom: an exhausted deck is rebuilt.
Deal == deck' = (IF deck = 0 THEN DeckSize ELSE deck) - 1 /\ card' \in Cards

TurnMoves == nth' = 1 - nth /\ since' = 0
NoTurn == turn' = 0 /\ prev' = 0 /\ card' = "plain" /\ dealt' = 0

GameOver == phase' = "finished" /\ NoTurn /\ UNCHANGED deck

\* A turn that opens on a card of its own.
Opens(seat, undoable) == phase' = "playing" /\ turn' = seat /\ prev' = undoable /\ Deal /\ dealt' = 1

SeatAfter(n, seat) == IF seat = n THEN 1 ELSE seat + 1

\* advanceTurnOnTimeout, for the turn of `seat` among `n`.
AdvanceTurnOnTimeout(n, seat) ==
  /\ TurnMoves
  /\ \/ GameOver /\ StopClock /\ Idle
     \/ /\ Opens(SeatAfter(n, seat), seat)
        /\ started' = TRUE /\ age' = 0
        /\ RememberCurrentTurn /\ restarts' = 0
        /\ StartServerTurnTimer

\* Sets the timer again for a turn whose table stays and that may have run out.
Resync(n, seat) ==
  IF Running /\ duration' # 0 /\ Remaining(card, duration', age) = 0
  THEN AdvanceTurnOnTimeout(n, seat)
  ELSE /\ turn' = seat
       /\ UNCHANGED <<phase, card, deck, dealt, started, age, since, nth>>
       /\ StartServerTurnTimer

-----------------------------------------------------------------------------
\* The clock itself.
Tick ==
  /\ started /\ age < MaxAge
  /\ armed => left > -MaxLate
  /\ age' = age + 1 /\ since' = since + 1
  /\ left' = IF armed THEN left - 1 ELSE left
  /\ UNCHANGED <<table, duration, started, armed, timedFor, memory, nth>>

\* The timer's callback.
Expire ==
  /\ armed /\ left <= 0
  /\ UNCHANGED <<seats, duration>>
  /\ IF Running THEN AdvanceTurnOnTimeout(seats, turn)
     ELSE ClearServerTurnTimer /\ UNCHANGED <<phase, turn, prev, card, deck, dealt, started, age, memory, since, nth>>

-----------------------------------------------------------------------------
\* pushState: what follows an accepted action.
Schedule ==
  IF phase' = "playing" /\ turn' # 0 /\ (turn' # seenSeat \/ (deck' # seenDeck /\ restarts < MaxRestarts))
  THEN /\ started' = TRUE /\ age' = 0
       /\ RememberCurrentTurn /\ restarts' = (IF turn' # seenSeat THEN 0 ELSE restarts + 1)
       /\ StartServerTurnTimer
  ELSE IF phase' # "playing" THEN StopClock /\ Idle
  ELSE UNCHANGED <<clock, memory>>

Push(step) == step /\ UNCHANGED <<seats, duration>> /\ TurnMoves /\ Schedule

StartGame ==
  /\ ~Running /\ seats >= 2
  /\ Push(/\ phase' = "playing" /\ turn' = 1 /\ prev' = 0 /\ dealt' = 1
          /\ deck' = DeckSize - 1 /\ card' \in Cards)

Commit == Running /\ Push(GameOver \/ Opens(SeatAfter(seats, turn), turn))

Undo ==
  /\ Running /\ prev # 0
  /\ Push(/\ turn' = prev /\ prev' = 0 /\ dealt' = 1 /\ UNCHANGED phase
          /\ deck' \in 0..DeckSize /\ card' \in Cards)

Reset == Push(phase' = "lobby" /\ NoTurn /\ deck' = 0)

-----------------------------------------------------------------------------
\* drawCard: a new card is a new deadline, as long as the budget lasts.
DrawCard ==
  /\ Running /\ card = "plain" /\ dealt < MaxChain
  /\ Deal /\ dealt' = dealt + 1
  /\ UNCHANGED <<phase, seats, turn, prev, duration, nth>>
  /\ RememberCurrentTurn
  /\ IF restarts < MaxRestarts
     THEN /\ started' = TRUE /\ age' = 0 /\ since' = 0
          /\ restarts' = restarts + 1 /\ StartServerTurnTimer
     ELSE restarts' = MaxRestarts /\ UNCHANGED <<clock, since>>

-----------------------------------------------------------------------------
\* Seeded fault of UpdateConfig: a changed duration begins the turn anew.
ConfigRestarts(d) ==
  /\ duration' = d
  /\ UNCHANGED <<table, started, memory, nth>>
  /\ age' = 0 /\ since' = 0 /\ StartServerTurnTimer

\* updateConfig, which sets the timer again whatever it was sent.
UpdateConfig(d) ==
  /\ duration' = d
  /\ UNCHANGED seats
  /\ Resync(seats, turn)
  /\ nth' = nth => UNCHANGED <<prev, memory>>

Join == /\ phase = "lobby" /\ seats < MaxSeats /\ seats' = seats + 1
        /\ UNCHANGED <<phase, turn, prev, card, deck, dealt, duration, clock, memory, since, nth>>

\* abortGameIfLowPlayers.
Abort == phase' = "lobby" /\ NoTurn /\ deck' = 0 /\ StopClock /\ Idle /\ TurnMoves

\* handleActivePlayerRemoved and what its callers do next, for a leave, a kick
\* or an expired seat.  The last seat's removal deletes the room.
Remove(k) ==
  /\ k <= seats /\ seats >= 2 /\ seats' = seats - 1
  /\ UNCHANGED duration
  /\ IF ~Running THEN UNCHANGED <<phase, turn, prev, card, deck, dealt, clock, memory, since, nth>>
     ELSE IF k = turn
     THEN \/ /\ turn = seats /\ GameOver /\ StopClock
             /\ RememberCurrentTurn /\ restarts' = 0 /\ TurnMoves
          \/ seats = 2 /\ Abort
          \/ /\ seats > 2 /\ Opens(IF turn = seats THEN 1 ELSE turn, 0)
             /\ started' = TRUE /\ age' = 0
             /\ RememberCurrentTurn /\ restarts' = 0 /\ StartServerTurnTimer /\ TurnMoves
     ELSE IF seats = 2 THEN Abort
     ELSE /\ Resync(seats', IF k < turn THEN turn - 1 ELSE turn)
          /\ nth' = nth => /\ prev' = IF k = prev THEN 0 ELSE IF k < prev THEN prev - 1 ELSE prev
                           /\ RememberCurrentTurn /\ restarts' = 0

-----------------------------------------------------------------------------
Init ==
  /\ phase = "lobby" /\ seats = 1 /\ turn = 0 /\ prev = 0 /\ card = "plain"
  /\ deck = 0 /\ dealt = 0 /\ duration \in Durations
  /\ started = FALSE /\ age = 0 /\ armed = FALSE /\ left = 0 /\ timedFor = "plain"
  /\ seenSeat = 0 /\ seenDeck = 0 /\ restarts = 0
  /\ since = 0 /\ nth = 0

Next ==
  \/ Tick \/ Expire
  \/ StartGame \/ Commit \/ Undo \/ Reset \/ DrawCard
  \/ Join
  \/ \E d \in Durations : UpdateConfig(d)
  \/ \E k \in 1..MaxSeats : Remove(k)

\* Time goes on and a due callback runs; nobody has to play.
Spec == Init /\ [][Next]_vars /\ WF_vars(Tick) /\ WF_vars(Expire)

-----------------------------------------------------------------------------
Timed == Running /\ duration # 0

\* Whatever happens to a timed turn (chains, undos, departures, a new duration),
\* its timer is running, and it fires when the card it was set for is used up,
\* counted from the start of the turn or its last budgeted draw: never early,
\* and never more than the rounding of one second later, however often it was
\* set again.  No other timer runs.
DeadlineHolds ==
  /\ armed <=> Timed
  /\ Timed => /\ since + left >= 2 * Effective(timedFor, duration)
              /\ since + left <= 2 * Effective(timedFor, duration) + 1
              /\ restarts < MaxRestarts => timedFor = card

\* A timed turn ends, whoever leaves, joins, draws or goes on changing the
\* duration, and although nobody plays it.
TurnEnds == \A b \in 0..1 : (Timed /\ nth = b) ~> (~Timed \/ nth # b)
=============================================================================
