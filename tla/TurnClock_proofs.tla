-------------------------- MODULE TurnClock_proofs --------------------------
(***************************************************************************)
(* The turn clock holds its deadline for every number of seats, every set  *)
(* of durations and every budget of restarts.                              *)
(*                                                                         *)
(* DeadlineHolds is not inductive: whether pushState finds a new turn to   *)
(* schedule depends on what turnTimerState remembers, which TableInv ties  *)
(* to the table.  The step of Next that matters in each proof is the one   *)
(* that sets the timer, and those all go through two lemmas: a turn that   *)
(* has just begun, and a turn that is set again part way.                  *)
(***************************************************************************)
EXTENDS TurnClock, TLAPS

TypeInv ==
  /\ phase \in {"lobby", "playing", "finished"}
  /\ seats \in Nat /\ turn \in Nat /\ prev \in Nat /\ deck \in Nat /\ dealt \in Nat
  /\ card \in Cards /\ timedFor \in Cards
  /\ duration \in Nat /\ age \in Nat /\ since \in Nat /\ left \in Int
  /\ started \in BOOLEAN /\ armed \in BOOLEAN
  /\ seenSeat \in Nat /\ seenDeck \in Nat /\ restarts \in Nat /\ nth \in 0..1

\* A turn in progress has a seat, another seat's turn before it, a start and
\* a memory of itself.
TableInv ==
  /\ phase = "playing" <=> turn # 0
  /\ turn = 0 => prev = 0
  /\ seenSeat = turn
  /\ turn # 0 => /\ turn <= seats /\ prev <= seats /\ prev # turn /\ seats >= 2
                 /\ seenDeck = deck
                 /\ started /\ since = age

ClockInv == TypeInv /\ TableInv /\ DeadlineHolds

-----------------------------------------------------------------------------
\* Elapsed half seconds, rounded down to seconds.
LEMMA Halves == \A a \in Nat : a \div 2 \in Nat /\ a - 2 * (a \div 2) \in 0..1
BY SMT

\* A turn that has used less than its time is set to be due when it is used up.
LEMMA SetAgain ==
  ASSUME age' \in Nat, since' = age', duration' \in Nat, card' \in Cards,
         phase' = "playing", turn' # 0, started',
         duration' # 0 => Remaining(card', duration', age') # 0,
         StartServerTurnTimer
  PROVE  /\ left' \in Int /\ armed' \in BOOLEAN /\ timedFor' \in Cards
         /\ DeadlineHolds'
<1>1. CASE duration' = 0
  <2>1. armed' = FALSE /\ left' = 0 /\ timedFor' = "plain"
    BY <1>1 DEF StartServerTurnTimer, ClearServerTurnTimer
  <2>2. ~Timed'
    BY <1>1 DEF Timed
  <2>3. left' \in Int
    BY <2>1
  <2> QED BY <2>1, <2>2, <2>3, Zenon DEF DeadlineHolds, Cards
<1>2. CASE duration' # 0
  <2>1. armed' = TRUE /\ timedFor' = card' /\ left' = 2 * Remaining(card', duration', age')
    BY <1>2 DEF StartServerTurnTimer
  <2>2. Effective(card', duration') \in Nat
    BY DEF Effective, Cards
  <2>3. age' \div 2 \in Nat /\ age' - 2 * (age' \div 2) \in 0..1
    BY Halves, Zenon
  <2>4. Remaining(card', duration', age') = Effective(card', duration') - (age' \div 2)
    BY <1>2, <2>2, <2>3 DEF Remaining
  <2>5. left' = 2 * Effective(card', duration') - 2 * (age' \div 2)
    BY <2>1, <2>2, <2>3, <2>4
  <2>6. /\ left' \in Int
        /\ since' + left' >= 2 * Effective(timedFor', duration')
        /\ since' + left' <= 2 * Effective(timedFor', duration') + 1
    BY <2>1, <2>2, <2>3, <2>5
  <2> QED BY <1>2, <2>1, <2>6 DEF DeadlineHolds, Timed, Running
<1> QED BY <1>1, <1>2

\* A turn that begins has all of its time.
LEMMA BeginsWhole ==
  ASSUME age' = 0, since' = 0, duration' \in Nat, card' \in Cards,
         phase' = "playing", turn' # 0, started' = TRUE, StartServerTurnTimer
  PROVE  /\ left' \in Int /\ armed' \in BOOLEAN /\ timedFor' \in Cards
         /\ DeadlineHolds'
<1>1. duration' # 0 => Remaining(card', duration', age') # 0
  <2>1. age' \div 2 = 0
    OBVIOUS
  <2> QED BY <2>1 DEF Remaining, Effective, Cards
<1> QED BY <1>1, SetAgain

\* Where no turn runs, no timer does.
LEMMA StopsWhole ==
  ASSUME ClearServerTurnTimer, phase' # "playing"
  PROVE  /\ left' \in Int /\ armed' \in BOOLEAN /\ timedFor' \in Cards
         /\ DeadlineHolds'
<1>1. armed' = FALSE /\ left' = 0 /\ timedFor' = "plain"
  BY DEF ClearServerTurnTimer
<1>2. ~Timed'
  BY DEF Timed, Running
<1>3. left' \in Int
  BY <1>1
<1> QED BY <1>1, <1>2, <1>3, Zenon DEF DeadlineHolds, Cards

\* A card is dealt.
LEMMA DealTyped ==
  ASSUME deck \in Nat, Deal
  PROVE  deck' \in Nat /\ card' \in Cards
BY ClockAssumption DEF Deal

-----------------------------------------------------------------------------
\* advanceTurnOnTimeout.
LEMMA TimeoutKeeps ==
  ASSUME ClockInv, NEW n \in Nat, n >= 2, NEW seat \in 1..n,
         seats' = n, duration' \in Nat, AdvanceTurnOnTimeout(n, seat)
  PROVE  ClockInv'
<1>1. TurnMoves
  BY DEF AdvanceTurnOnTimeout
<1>2. nth' \in 0..1 /\ since' = 0
  BY <1>1 DEF TurnMoves, ClockInv, TypeInv
<1>3. CASE GameOver /\ StopClock /\ Idle
  <2>1. /\ left' \in Int /\ armed' \in BOOLEAN /\ timedFor' \in Cards
        /\ DeadlineHolds'
    BY <1>3, StopsWhole DEF GameOver, StopClock
  <2> QED BY <1>2, <1>3, <2>1 DEF ClockInv, TypeInv, TableInv, GameOver, NoTurn, StopClock, Idle, Cards
<1>4. CASE /\ Opens(SeatAfter(n, seat), seat)
           /\ started' = TRUE /\ age' = 0
           /\ RememberCurrentTurn /\ restarts' = 0
           /\ StartServerTurnTimer
  <2>1. SeatAfter(n, seat) \in 1..n /\ SeatAfter(n, seat) # seat
    BY DEF SeatAfter
  <2>2. deck' \in Nat /\ card' \in Cards
    BY <1>4, DealTyped DEF Opens, ClockInv, TypeInv
  <2>3. /\ left' \in Int /\ armed' \in BOOLEAN /\ timedFor' \in Cards
        /\ DeadlineHolds'
    BY <1>2, <1>4, <2>1, <2>2, BeginsWhole DEF Opens
  <2> QED BY <1>2, <1>4, <2>1, <2>2, <2>3 DEF ClockInv, TypeInv, TableInv, Opens, RememberCurrentTurn
<1> QED BY <1>3, <1>4 DEF AdvanceTurnOnTimeout

\* What pushState does after a step that ended or began a turn.
LEMMA ScheduleKeeps ==
  ASSUME ClockInv, Schedule, TurnMoves, seats' = seats, duration' = duration,
         phase' \in {"lobby", "playing", "finished"},
         turn' \in Nat, prev' \in Nat, deck' \in Nat, dealt' \in Nat, card' \in Cards,
         phase' = "playing" <=> turn' # 0,
         turn' = 0 => prev' = 0,
         turn' # 0 => turn' <= seats /\ prev' <= seats /\ prev' # turn' /\ seats >= 2,
         turn' # 0 => turn' # seenSeat
  PROVE  ClockInv'
<1>1. nth' \in 0..1 /\ since' = 0 /\ duration' \in Nat
  BY DEF TurnMoves, ClockInv, TypeInv
<1>2. CASE turn' # 0
  <2>1. /\ started' = TRUE /\ age' = 0 /\ restarts' = 0
        /\ RememberCurrentTurn /\ StartServerTurnTimer
    BY <1>2 DEF Schedule
  <2>2. /\ left' \in Int /\ armed' \in BOOLEAN /\ timedFor' \in Cards
        /\ DeadlineHolds'
    BY <1>1, <1>2, <2>1, BeginsWhole
  <2> QED BY <1>1, <1>2, <2>1, <2>2 DEF ClockInv, TypeInv, TableInv, RememberCurrentTurn
<1>3. CASE turn' = 0
  <2>1. StopClock /\ Idle
    BY <1>3 DEF Schedule
  <2>2. /\ left' \in Int /\ armed' \in BOOLEAN /\ timedFor' \in Cards
        /\ DeadlineHolds'
    BY <1>3, <2>1, StopsWhole DEF StopClock
  <2> QED BY <1>1, <1>3, <2>1, <2>2 DEF ClockInv, TypeInv, TableInv, StopClock, Idle
<1> QED BY <1>2, <1>3

-----------------------------------------------------------------------------
LEMMA InitClock == Init => ClockInv
<1> SUFFICES ASSUME Init PROVE ClockInv
  OBVIOUS
<1>1. started \in BOOLEAN /\ armed \in BOOLEAN /\ card \in Cards /\ timedFor \in Cards
  BY Zenon DEF Init, Cards
<1>2. TypeInv /\ TableInv
  BY <1>1, ClockAssumption DEF Init, TypeInv, TableInv
<1>3. armed = FALSE /\ ~Timed
  BY DEF Init, Timed, Running
<1> QED BY <1>2, <1>3, Zenon DEF ClockInv, DeadlineHolds

\* Time moves what has passed and what is left by the same amount.
LEMMA TickKeeps == ClockInv /\ Tick => ClockInv'
<1> SUFFICES ASSUME ClockInv, Tick PROVE ClockInv'
  OBVIOUS
<1> USE DEF ClockInv, TypeInv
<1>1. /\ UNCHANGED <<phase, seats, turn, prev, card, deck, dealt, duration, started, armed, timedFor,
                     seenSeat, seenDeck, restarts, nth>>
      /\ age' = age + 1 /\ since' = since + 1
      /\ left' = IF armed THEN left - 1 ELSE left
  BY DEF Tick, table, memory
<1>2. TypeInv' /\ TableInv'
  BY <1>1 DEF TableInv
<1>3. Effective(timedFor, duration) \in Nat
  BY DEF Effective, Cards
<1>4. DeadlineHolds'
  BY <1>1, <1>3 DEF DeadlineHolds, Timed, Running
<1> QED BY <1>2, <1>4

LEMMA ExpireKeeps == ClockInv /\ Expire => ClockInv'
<1> SUFFICES ASSUME ClockInv, Expire PROVE ClockInv'
  OBVIOUS
<1>1. Running
  BY DEF Expire, ClockInv, TypeInv, DeadlineHolds, Timed
<1>2. AdvanceTurnOnTimeout(seats, turn) /\ seats' = seats /\ duration' = duration
  BY <1>1 DEF Expire
<1>3. seats \in Nat /\ seats >= 2 /\ turn \in 1..seats /\ duration' \in Nat
  BY <1>1, <1>2 DEF Running, ClockInv, TypeInv, TableInv
<1> QED BY <1>2, <1>3, TimeoutKeeps

\* Every push moves the turn to a seat that pushState does not remember.
LEMMA PushKeeps == ClockInv /\ (StartGame \/ Commit \/ Undo \/ Reset) => ClockInv'
<1> SUFFICES ASSUME ClockInv, StartGame \/ Commit \/ Undo \/ Reset PROVE ClockInv'
  OBVIOUS
<1>1. Schedule /\ TurnMoves /\ seats' = seats /\ duration' = duration
  BY DEF StartGame, Commit, Undo, Reset, Push
<1>2. CASE StartGame
  <2>1. /\ phase' = "playing" /\ turn' = 1 /\ prev' = 0 /\ dealt' = 1
        /\ deck' = DeckSize - 1 /\ card' \in Cards
    BY <1>2 DEF StartGame, Push
  <2>2. seenSeat # 1 /\ seats >= 2
    BY <1>2 DEF StartGame, Running, ClockInv, TableInv
  <2>3. deck' \in Nat
    BY <2>1, ClockAssumption
  <2> QED BY <1>1, <2>1, <2>2, <2>3, ScheduleKeeps DEF ClockInv, TypeInv
<1>3. CASE Commit
  <2>1. turn \in 1..seats /\ seats \in Nat /\ seats >= 2 /\ seenSeat = turn
    BY <1>3 DEF Commit, Running, ClockInv, TypeInv, TableInv
  <2>2. CASE GameOver
    BY <1>1, <2>2, ScheduleKeeps DEF GameOver, NoTurn, Cards, ClockInv, TypeInv
  <2>3. CASE Opens(SeatAfter(seats, turn), turn)
    <3>1. SeatAfter(seats, turn) \in 1..seats /\ SeatAfter(seats, turn) # turn
      BY <2>1 DEF SeatAfter
    <3>2. deck' \in Nat /\ card' \in Cards
      BY <2>3, DealTyped DEF Opens, ClockInv, TypeInv
    <3> QED BY <1>1, <2>1, <2>3, <3>1, <3>2, ScheduleKeeps DEF Opens
  <2> QED BY <1>3, <2>2, <2>3 DEF Commit, Push
<1>4. CASE Undo
  <2>1. turn \in 1..seats /\ seats >= 2 /\ seenSeat = turn /\ prev \in 1..seats /\ prev # turn
    BY <1>4 DEF Undo, Running, ClockInv, TypeInv, TableInv
  <2>2. /\ turn' = prev /\ prev' = 0 /\ dealt' = 1 /\ phase' = "playing"
        /\ deck' \in Nat /\ card' \in Cards
    BY <1>4, ClockAssumption DEF Undo, Push, Running
  <2> QED BY <1>1, <2>1, <2>2, ScheduleKeeps DEF ClockInv, TypeInv
<1>5. CASE Reset
  BY <1>1, <1>5, ScheduleKeeps DEF Reset, Push, NoTurn, Cards, ClockInv, TypeInv
<1> QED BY <1>2, <1>3, <1>4, <1>5

\* A draw within the budget begins the time anew; one beyond it leaves the
\* timer as it was set for the card before.
LEMMA DrawKeeps == ClockInv /\ DrawCard => ClockInv'
<1> SUFFICES ASSUME ClockInv, DrawCard PROVE ClockInv'
  OBVIOUS
<1>1. /\ UNCHANGED <<phase, seats, turn, prev, duration, nth>>
      /\ dealt' = dealt + 1 /\ RememberCurrentTurn /\ Running
  BY DEF DrawCard
<1>2. deck' \in Nat /\ card' \in Cards
  BY DealTyped DEF DrawCard, ClockInv, TypeInv
<1>3. CASE restarts < MaxRestarts
  <2>1. /\ started' = TRUE /\ age' = 0 /\ since' = 0
        /\ restarts' = restarts + 1 /\ StartServerTurnTimer
    BY <1>3 DEF DrawCard
  <2>2. /\ left' \in Int /\ armed' \in BOOLEAN /\ timedFor' \in Cards
        /\ DeadlineHolds'
    BY <1>1, <1>2, <2>1, BeginsWhole DEF Running, ClockInv, TypeInv
  <2> QED BY <1>1, <1>2, <2>1, <2>2 DEF ClockInv, TypeInv, TableInv, RememberCurrentTurn, Running
<1>4. CASE ~(restarts < MaxRestarts)
  <2>1. restarts' = MaxRestarts /\ UNCHANGED <<started, age, armed, left, timedFor, since>>
    BY <1>4 DEF DrawCard, clock
  <2>2. TypeInv' /\ TableInv'
    BY <1>1, <1>2, <2>1, ClockAssumption DEF ClockInv, TypeInv, TableInv, RememberCurrentTurn, Running
  <2>3. Timed' <=> Timed
    BY <1>1 DEF Timed, Running
  <2>4. DeadlineHolds'
    BY <1>1, <2>1, <2>3, ClockAssumption DEF ClockInv, DeadlineHolds
  <2> QED BY <2>2, <2>4 DEF ClockInv
<1> QED BY <1>3, <1>4

-----------------------------------------------------------------------------
\* A timer set again part way: the turn goes on with what is left, or ends.
LEMMA ResyncKeeps ==
  ASSUME ClockInv, Running, NEW n \in Nat, n >= 2, NEW seat \in 1..n,
         seats' = n, duration' \in Nat, Resync(n, seat),
         nth' = nth => /\ prev' \in 0..n /\ prev' # seat
                       /\ seenSeat' = seat /\ seenDeck' = deck /\ restarts' \in Nat
  PROVE  ClockInv'
<1>1. CASE duration' # 0 /\ Remaining(card, duration', age) = 0
  BY <1>1, TimeoutKeeps DEF Resync
<1>2. CASE ~(duration' # 0 /\ Remaining(card, duration', age) = 0)
  <2>1. /\ turn' = seat
        /\ UNCHANGED <<phase, card, deck, dealt, started, age, since, nth>>
        /\ StartServerTurnTimer
    BY <1>2 DEF Resync
  <2>2. /\ age' \in Nat /\ since' = age' /\ started' /\ phase' = "playing"
        /\ card' \in Cards
    BY <2>1 DEF Running, ClockInv, TypeInv, TableInv
  <2>3. /\ left' \in Int /\ armed' \in BOOLEAN /\ timedFor' \in Cards
        /\ DeadlineHolds'
    BY <1>2, <2>1, <2>2, SetAgain
  <2> QED BY <2>1, <2>2, <2>3 DEF ClockInv, TypeInv, TableInv
<1> QED BY <1>1, <1>2

LEMMA ConfigKeeps == ClockInv /\ (\E d \in Durations : UpdateConfig(d)) => ClockInv'
<1> SUFFICES ASSUME ClockInv, NEW d \in Durations, UpdateConfig(d) PROVE ClockInv'
  OBVIOUS
<1>1. /\ duration' = d /\ seats' = seats /\ d \in Nat
      /\ Resync(seats, turn)
      /\ nth' = nth => UNCHANGED <<prev, seenSeat, seenDeck, restarts>>
  BY ClockAssumption DEF UpdateConfig, memory
<1>2. CASE Running
  BY <1>1, <1>2, ResyncKeeps DEF Running, ClockInv, TypeInv, TableInv
<1>3. CASE ~Running
  <2>1. /\ turn' = turn
        /\ UNCHANGED <<phase, card, deck, dealt, started, age, since, nth>>
        /\ StartServerTurnTimer
    BY <1>1, <1>3 DEF Resync
  <2>2. phase' # "playing"
    BY <1>3, <2>1 DEF Running, ClockInv, TableInv
  <2>3. ClearServerTurnTimer
    BY <2>1, <2>2 DEF StartServerTurnTimer
  <2>4. /\ left' \in Int /\ armed' \in BOOLEAN /\ timedFor' \in Cards
        /\ DeadlineHolds'
    BY <2>2, <2>3, StopsWhole
  <2> QED BY <1>1, <1>3, <2>1, <2>4 DEF Running, ClockInv, TypeInv, TableInv
<1> QED BY <1>2, <1>3

LEMMA JoinKeeps == ClockInv /\ Join => ClockInv'
<1> SUFFICES ASSUME ClockInv, Join PROVE ClockInv'
  OBVIOUS
<1>1. /\ seats' = seats + 1
      /\ UNCHANGED <<phase, turn, prev, card, deck, dealt, duration, started, age, armed, left, timedFor,
                     seenSeat, seenDeck, restarts, since, nth>>
  BY DEF Join, clock, memory
<1>2. DeadlineHolds'
  BY <1>1 DEF ClockInv, DeadlineHolds, Timed, Running
<1> QED BY <1>1, <1>2 DEF ClockInv, TypeInv, TableInv

-----------------------------------------------------------------------------
LEMMA RemoveKeeps == ClockInv /\ (\E k \in 1..MaxSeats : Remove(k)) => ClockInv'
<1> SUFFICES ASSUME ClockInv, NEW k \in 1..MaxSeats, Remove(k) PROVE ClockInv'
  OBVIOUS
<1>1. /\ k \in 1..seats /\ seats \in Nat /\ seats >= 2 /\ seats' = seats - 1
      /\ duration' = duration /\ duration \in Nat
  BY DEF Remove, ClockInv, TypeInv
<1>2. CASE ~Running
  <2>1. UNCHANGED <<phase, turn, prev, card, deck, dealt, started, age, armed, left, timedFor,
                    seenSeat, seenDeck, restarts, since, nth>>
    BY <1>2 DEF Remove, clock, memory
  <2>2. DeadlineHolds'
    BY <1>1, <2>1 DEF ClockInv, DeadlineHolds, Timed, Running
  <2> QED BY <1>1, <1>2, <2>1, <2>2 DEF Running, ClockInv, TypeInv, TableInv
<1>3. ASSUME Abort PROVE ClockInv'
  <2>1. phase' = "lobby" /\ ClearServerTurnTimer
    BY <1>3 DEF Abort, StopClock
  <2>2. /\ left' \in Int /\ armed' \in BOOLEAN /\ timedFor' \in Cards
        /\ DeadlineHolds'
    BY <2>1, StopsWhole
  <2>3. card' \in Cards /\ started' \in BOOLEAN
    BY <1>3 DEF Abort, NoTurn, StopClock, Cards
  <2>4. nth' \in 0..1 /\ since' = 0 /\ seats' \in Nat
    BY <1>1, <1>3 DEF Abort, TurnMoves, ClockInv, TypeInv
  <2>5. TypeInv'
    BY <1>1, <1>3, <2>2, <2>3, <2>4 DEF Abort, NoTurn, StopClock, Idle, TypeInv
  <2>6. TableInv'
    BY <1>3 DEF Abort, NoTurn, Idle, TableInv
  <2> QED BY <2>2, <2>5, <2>6 DEF ClockInv
<1>4. CASE Running /\ k = turn
  <2>1. CASE GameOver /\ StopClock /\ RememberCurrentTurn /\ restarts' = 0 /\ TurnMoves
    <3>1. /\ left' \in Int /\ armed' \in BOOLEAN /\ timedFor' \in Cards
          /\ DeadlineHolds'
      BY <2>1, StopsWhole DEF GameOver, StopClock
    <3>2. card' \in Cards /\ started' \in BOOLEAN
      BY <2>1 DEF GameOver, NoTurn, StopClock, Cards
    <3>3. nth' \in 0..1 /\ since' = 0 /\ seats' \in Nat
      BY <1>1, <2>1 DEF TurnMoves, ClockInv, TypeInv
    <3>4. TypeInv'
      BY <1>1, <2>1, <3>1, <3>2, <3>3
         DEF GameOver, NoTurn, StopClock, RememberCurrentTurn, ClockInv, TypeInv
    <3>5. TableInv'
      BY <2>1 DEF GameOver, NoTurn, RememberCurrentTurn, TableInv
    <3> QED BY <3>1, <3>4, <3>5 DEF ClockInv
  <2>2. CASE /\ seats > 2 /\ Opens(IF turn = seats THEN 1 ELSE turn, 0)
             /\ started' = TRUE /\ age' = 0
             /\ RememberCurrentTurn /\ restarts' = 0 /\ StartServerTurnTimer /\ TurnMoves
    <3>1. deck' \in Nat /\ card' \in Cards
      BY <2>2, DealTyped DEF Opens, ClockInv, TypeInv
    <3>2. turn' \in 1..seats' /\ phase' = "playing" /\ since' = 0
      BY <1>1, <1>4, <2>2 DEF Opens, TurnMoves
    <3>3. /\ left' \in Int /\ armed' \in BOOLEAN /\ timedFor' \in Cards
          /\ DeadlineHolds'
      BY <1>1, <2>2, <3>1, <3>2, BeginsWhole
    <3> QED BY <1>1, <2>2, <3>1, <3>2, <3>3
            DEF Opens, RememberCurrentTurn, TurnMoves, ClockInv, TypeInv, TableInv
  <2> QED BY <1>3, <1>4, <2>1, <2>2 DEF Remove
<1>5. CASE Running /\ k # turn
  <2> DEFINE seat == IF k < turn THEN turn - 1 ELSE turn
  <2>1. CASE seats = 2
    BY <1>3, <1>5, <2>1 DEF Remove
  <2>2. CASE seats # 2
    <3>1. /\ Resync(seats', seat)
          /\ nth' = nth => /\ prev' = IF k = prev THEN 0 ELSE IF k < prev THEN prev - 1 ELSE prev
                           /\ RememberCurrentTurn /\ restarts' = 0
      BY <1>5, <2>2 DEF Remove
    <3>2. turn \in 1..seats /\ prev \in 0..seats /\ prev # turn
      BY <1>5 DEF Running, ClockInv, TypeInv, TableInv
    <3>3. seats' \in Nat /\ seats' >= 2 /\ seat \in 1..seats'
      BY <1>1, <1>5, <2>2, <3>2
    <3>4. ASSUME nth' = nth PROVE turn' = seat /\ deck' = deck
      BY <3>1, <3>4 DEF Resync, AdvanceTurnOnTimeout, TurnMoves, ClockInv, TypeInv
    <3>5. ASSUME nth' = nth
          PROVE  /\ prev' \in 0..seats' /\ prev' # seat
                 /\ seenSeat' = seat /\ seenDeck' = deck /\ restarts' \in Nat
      BY <1>1, <1>5, <3>1, <3>2, <3>4, <3>5 DEF RememberCurrentTurn
    <3> QED BY <1>1, <1>5, <3>1, <3>3, <3>5, ResyncKeeps
  <2> QED BY <2>1, <2>2
<1> QED BY <1>2, <1>4, <1>5

-----------------------------------------------------------------------------
LEMMA NextKeeps == ClockInv /\ [Next]_vars => ClockInv'
<1> SUFFICES ASSUME ClockInv, [Next]_vars PROVE ClockInv'
  OBVIOUS
<1>1. CASE Tick \/ Expire
  BY <1>1, TickKeeps, ExpireKeeps
<1>2. CASE StartGame \/ Commit \/ Undo \/ Reset
  BY <1>2, PushKeeps
<1>3. CASE DrawCard
  BY <1>3, DrawKeeps
<1>4. CASE Join
  BY <1>4, JoinKeeps
<1>5. CASE \E d \in Durations : UpdateConfig(d)
  BY <1>5, ConfigKeeps, Zenon
<1>6. CASE \E k \in 1..MaxSeats : Remove(k)
  BY <1>6, RemoveKeeps, Zenon
<1>7. CASE UNCHANGED vars
  <2>1. UNCHANGED <<phase, seats, turn, prev, card, deck, dealt, duration, started, age, armed, left,
                    timedFor, seenSeat, seenDeck, restarts, since, nth>>
    BY <1>7 DEF vars, table, clock, memory
  <2> QED BY <2>1 DEF ClockInv, TypeInv, TableInv, DeadlineHolds, Timed, Running
<1> QED BY <1>1, <1>2, <1>3, <1>4, <1>5, <1>6, <1>7 DEF Next

\* The clock of a room: in every state its timer runs exactly while a timed
\* turn does, and is due when the turn's time is up, to the rounding of one
\* second, through pushes, draws, config changes and departures in any order.
THEOREM ClockAlwaysHolds == Spec => []DeadlineHolds
<1>1. Init => ClockInv
  BY InitClock
<1>2. ClockInv /\ [Next]_vars => ClockInv'
  BY NextKeeps
<1>3. ClockInv => DeadlineHolds
  BY DEF ClockInv
<1> QED BY <1>1, <1>2, <1>3, PTL DEF Spec
=============================================================================
