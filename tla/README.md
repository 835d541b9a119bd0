# Tutto: a verification development of the game

Tutto is a dice-and-card game played on one device or online. Online, a Node
server (Express, Socket.IO, SQLite) is the authority: it holds every room in
memory, applies the players' actions, deals the cards, runs the turn clock and
records what finished games did. The browser client (React, Zustand) shows the
room, sends actions and reconnects; offline it plays the same rules by itself,
with people or bots. A service worker serves the client and brings new builds.

This directory models these protocols in TLA+, checks them on small instances
with TLC, and proves the central facts about the server, the online client and
the service worker for every size with TLAPS. Paths below are relative to the
repository.

## 1. The system

### Components

| Component | Source | State it keeps | Operations |
|---|---|---|---|
| Room game authority | `server/socketGameStateHandlers.ts`, `gameActionAuthority.ts`, `deckAuthority.ts`, `rooms.ts`, `turnTimers.ts`; the rules in `src/utils/coreGameEngine.ts` | roster, phase, active seat, round, card in play, private deck, deal log of two turns, undo record, `gameplayToken`, `acceptedDraw`, `liveTurnState` | `pushState` (start, reset, commit, undo), `drawCard`, `liveTurnState`, turn expiry, removal of a seat, roster order and configuration in the lobby |
| Seats, sessions, rooms | `server/socketRoomHandlers.ts`, `socketRosterHandlers.ts`, `socketConfigHandlers.ts`, `rooms.ts` | the table of rooms, seats and their connections, host, reconnect timers and their nonces, rejoin reservations, `session.roomId`, channel membership | `joinRoom` (awaits the statistics), `leaveRoom`, disconnect, `kickPlayer`, expiry of a reconnect window, deletion of rooms |
| Statistics recording | `server/socketStatsHandlers.ts`, `statsWriteCoordinator.ts`, `rooms.ts`; the clients' slots in `src/store/socketSlice.ts` | frozen verdict, participants, per-game marks, pending writes, rows; submissions kept until they are answered | freezing at the finish, rows of absent seats, `endGameStats`, `submitGlobalStats`, resending |
| Turn clock | `server/turnTimers.ts`, `rooms.ts` | the expiry timer, turn start, restart budget | arming, clearing, expiry, restart |
| Online client | `src/store/socketSlice.ts`, `src/utils/onlineProtocol.ts` | version floor, parked push, push and draw in flight, rejoin state | push, acknowledgement, retry, rejoin, draw, state requests |
| Score engine | `src/utils/coreGameEngine.ts`, `turnValue.ts` | none (pure) | next turn, undo, points, leaders, counters |
| Dice turn | `src/utils/diceLogic.ts`, `diceTurnReducer.ts`, `diceTurnState.ts`, `diceTurnControls.ts` | the dice of the turn in progress | roll, put aside, bank, draw |
| Local game and persistence | `src/store/gameSlice.ts`, `persistence.ts`, `useGameStore.ts`, `timers.ts` | an offline game, saved games | the rules of the engine, save, restore |
| Bots and coach | `src/utils/botStrategies.ts`, `botEndgame.ts`, `coachHint.ts`, `src/hooks/useBotDriver.ts` | the driver's timer | choosing and taking a move |
| Admission, rate limits | `server/socketAdmission.ts`, `rateLimit.ts` | counters per address and per event | admit, refuse, forget |
| Database | `server/database.ts`, `server/migrations/` | rows | upserts |
| HTTP API, start-up, shutdown | `server/api.ts`, `index.ts`, `shutdown.ts`, `startupGuards.ts` | process state | requests, signals |
| Service worker | `src/sw.js`, `src/utils/swUpdate.ts` | caches | install, activate, update prompt |
| User interface | `src/components/`, `src/App.tsx` | view state | rendering |

### How they interact

A client connects (a *connection* here is one socket; a reconnect is a new one)
and sends `joinRoom` with its device id, its lasting identity. Everything it
does afterwards names the room only through `session.roomId`. A gameplay
request names the `gameplayToken` it is based on; the server compares, applies
the action, replaces the token and broadcasts the room. The first broadcast of
a finished game freezes the verdict and starts the writes for those who are
away; the others send their own submissions. Every way of giving up a seat
(leave, kick, expired window) goes through `handleActivePlayerRemoved`, which
moves the turn, replaces the token and may deal a card, and ends in
`abortGameIfLowPlayers`, `promoteHostAfterLoss` or `deleteRoom`.

The server is one event loop. A handler without `await` is one atomic step; what
interleaves is the order of requests, copies of requests, timers, and the
continuations of the three handlers that await: `joinRoom` (statistics read),
`endGameStats` and `submitGlobalStats` (database writes).

### What is hard, and what makes each component correct

* **Room game.** What a push did to the deck is inferred from the seats before
  and after it; the undo record and the deal log are written in different places
  by commits, expiries, removals and undos; a draw may be asked twice, at any
  later time, while bystanders leave and change the token. Correct means: an
  undo gives back exactly the cards of two turns, in order; a draw takes one
  card; nobody is skipped or plays twice; the game ends only at a fair point.
* **Seats.** A join waits, and everything else may happen meanwhile: the socket
  closes or joins elsewhere, the device's other connection joins, the reconnect
  deadline passes. Correct means: nobody is seated on a dead connection, a
  device has one seat, a reserved seat is neither lost nor kept for ever, no
  room outlives every way to free it.
* **Statistics.** Writes answer later and fail; the room goes on. Correct means:
  a game is counted once per device and once globally, with the verdict it had,
  and a failure can be retried without disturbing the next game.
* **Turn clock.** Correct means: a timed running turn always has a timer, and a
  turn cannot be restarted for ever.
* **Online client.** Moves are shown before they are acknowledged; answers are
  lost, late or overtaken; a rejoin and a parked move race. Correct means: what
  is on screen once nothing is awaited is a state the room has had, a draw given
  up was not dealt in the turn that is still running, and once the network holds
  the client shows the room's state.
* **Dice turn.** The panel, the server's check of a claim and the clock's verdict
  each read the same chain of cards; a reload resumes the turn from a snapshot.
  Correct means: they agree, and no dice outlive their turn.
* **Local game.** The saved game and the cached turn are two files on one disk.
  Correct means: an undo restores the turn whole, a reload resumes where the
  game stood, and no visit to a room writes over it.
* **Bots.** A driver acts only when the table it watches changes. Correct means:
  no bot is stranded, and the optimal one counts the end of the game as the
  engine does.
* **Service worker.** Installs are overtaken by deploys, fail, or are replaced;
  pages of older builds stay open. Correct means: those pages keep their chunks,
  a start without a network shows a document, and the new build arrives.

`PROJECT.json` lists the hazards one by one with the line each bites at and the
properties that would catch it.

## 2. The modules

| Module | What it is |
|---|---|
| `CardTape` | abstract specification of the deck: one tape of cards and two cuts |
| `RoomGame` | one room's game on the server; implements `CardTape` |
| `TurnClock` | the server's turn timer of one room |
| `SeatLifecycle` | all rooms' seats, connections, timers and reservations |
| `StatsRecording`, `StatsSubmission` | one room id's finished games and their rows; the same with the clients that submit them |
| `OnlineClient` | one client, its room, and the connection between them |
| `DiceRules`, `DiceTurn` | the rules of the dice; one player's digital turn with its panel, snapshot, server and clock |
| `BotStrategies`, `BotTurn` | what each bot decides; the panel of `DiceTurn` driven by a bot |
| `ScoreEngine`, `LocalGame` | what a turn does to the table, as operators; the local game played with real dice, its saves and reloads |
| `UpdateFlow` | builds, service worker, caches and open pages |
| `RoomGame_proofs`, `TurnClock_proofs`, `StatsSubmission_proofs`, `SeatLifecycle_proofs`, `OnlineClient_proofs`, `DiceTurn_proofs`, `LocalGame_proofs`, `UpdateFlow_proofs` | the theorems (section 4) |
| `MC...` | values of the constants and symmetries for TLC |

In each module operators marked "Seeded fault" are variants of the definition
they precede, with a plausible mistake in it. No specification uses them; each
property of a run is known to fail when one of them takes the place of the
definition it varies (`PROJECT.json`, "mutants").

`StatsSubmission` composes the clients with `StatsRecording`; `BotTurn` composes
the driver with `DiceTurn` and, for the end of the game, `ScoreEngine`;
`LocalGame` composes the store and the panel's chain with `ScoreEngine`. What a
module leaves to another it takes as a free choice: `RoomGame` lets a turn
expire whenever a game is on, `TurnClock` lets a turn score anything.

### RoomGame and CardTape

The variables are the fields of `Room` and `RoomState` named in the module.
Seats are numbered from 1 and `NoSeat` stands for a null `currentPlayerIndex`.

* `Start`, `Reset`, `Commit`, `Undo` are the four actions of `pushState`; each
  does what `applyOnlineGameAction` and the engine do to turn, round and undo
  record, then `SettleDeck`, which is `classifyDeckMove` and `settleDeck` in
  their order: kick-off, teardown, undo, advance, hold. `SettleDeck` reads the
  undo and the advance off the room before and after the push, as the code does,
  and does not know which action it serves.
* `DealNext`/`RecordDealtCard` are `drawNextCardForRoom` and `recordDealtCard`;
  the rebuilt deck is any member of `Decks`, the orders a shuffle can give.
* `IssueDraw`, `DrawCard`, `ReplayDraw` are a draw request and its arrivals.
  A request stays in flight after its answer, so that a copy may arrive at any
  later time; `ForgetDraw` is the network dropping the last copy. `dealt` and
  `answers` are history and guard nothing.
* `Timeout` is `advanceTurnOnTimeout`. It may come whenever a game is on.
* `RemoveSeat` is `handleActivePlayerRemoved` followed by
  `abortGameIfLowPlayers`, or the deletion of the room with its last seat.
* A request the code refuses leaves the room as it was, and has no action. That
  includes a `pushState` with a stale base, so an accepted `Commit` or `Undo` is
  always about the current turn.
* Scores are abstracted: that a sole leader is past the winning score at a
  round's end, and that a Kleeblatt was completed, are free choices. So a
  property here holds whatever the scores are.
* `randomUUID` is a fresh member of `Token`; tokens nothing refers to any more
  are used again, so that a finite supply is enough.

`CardTape` says what players may rely on: the cards are one tape, of which the
last turn and the current turn have taken a prefix; hand-overs, draws and undos
only move the cuts, and new cards are added only at the far end, when every card
is face up. `RoomGame` implements it under
`tape <- dealtLast \o dealtThis \o cards` (`PlaysFromTape`).

### TurnClock

Time passes in half seconds, so that remaining whole seconds are rounded as
`calculateRemainingTurnTime` rounds them. `StartServerTurnTimer`,
`ClearServerTurnTimer` and `Resync` are the functions of their names; the other
actions are the handlers that call them (commit, undo, reset, draw with its
restart budget, removal, configuration). A callback runs up to `MaxLate` half
seconds late. `since`, `timedFor` and `nth` are history.

### SeatLifecycle

`rooms[r]` is the room object or `NoRoom`; `pending` the `joinRoom` calls that
wait; `session`, `channel` and `sock` are kept per connection. `JoinStart` is
the handler up to its `await` (generation counter, release of the older
reservation, early refusals, reservation of an offline seat); `JoinFinish` is
what comes after: `JoinAbandoned` (superseded, disconnected, or the reservation
no longer stands), `JoinRefused` (elsewhere by now, seat changed, game running,
room limit, name), `JoinTakesSeat` and `JoinRetakesSeat`. `Leave`, `Disconnect`,
`Kick`, `TimerFires` and `SetWindow` are the other handlers; `StartGame`,
`FinishGame` and `ResetGame` are `pushState` as far as seats depend on the
phase. A room's `nonce[d]` is `disconnectTimerMetadata`, kept apart from
`timers[d]` because the code keeps it apart. Names are abstracted to the choice
whether one conflicts, the per-address cap to `MaxRooms`. Of time the module
keeps one relation (`OutlastsOlderJoins`): the shortest window
(`MIN_ENABLED_RECONNECT_TIMEOUT`, 10 s, `src/utils/configValidation.ts:86`)
outlasts the wait of a join (`JOIN_STATS_WAIT_MS`, 5 s,
`server/socketRoomHandlers.ts:25`), so a deadline never passes before a rejoin
has ended that reserved the seat before that deadline was set. Without it a
device with three connections could keep a room for ever.

### StatsRecording and StatsSubmission

One room id, its games numbered from 1. The number stands for the identity of
`statsRecordedForGame` and for `finishedGameToken`. `Finish` and the finishing
case of `GiveUpSeat` do what the first broadcast of a finished game does:
`rememberFinishedGame` and `recordDepartedSeatsStats`. `SubmitOwn` and `Resume`
are `endGameStats` before and after its wait, `SubmitGlobal` and `Rollback` are
`submitGlobalStats`, `WriteCommits` and `WriteFails` the outcome of a write with
what `writeDeviceStatsOnce` does on it. `DeleteRoom` forgets the game but not
the writes under way. `outcome` and `failed` are history.

`StatsSubmission` adds the clients: a slot for each submission that is owed,
which is sent, answered, sent again after a failed write or a deadline, or held
back while the connection is down. A submission that outlives its deadline on
the way counts as lost; the winning move and its submission are one step; a
client learns at once that its seat or the host's part is gone. `Leader` fixes
who wins each game while seated, `MaxFailures` is the last game whose writes may
fail, `Followed` says which kind of submission a behaviour follows (the two
share only the room and the database). Clients without a finish token, rate
limits, the streak refresh and the counters of a row are left out.

### OnlineClient

`Push` shows a move at once and sends it; `ClientPushAck`, `ClientState` (the
`gameState` handler with its version floor) and the watchdog settle it;
`parked` is the move held back while the transport is down and `retry` the one
sent again when a rejoin is pending. `RequestDraw`, `DrawDeadline` and
`ClientDrawAck` are the server-dealt draw and its recovery by `requestState`.
`ServerPush`, `ServerDraw`, `ServerRead`, `ServerJoin`/`ServerSeat` are the
server's handlers as far as this client can tell; `OthersAct` is everything
else that may happen to the room. A game state is the gameplay token that names
it. A drop loses all that is on its way to the client and any suffix of what is
on its way to the server; what is left may be processed late. Every armed timer
may run out at any moment, with two exceptions: a draw's 5 s deadline comes
before the 10 s deadline of a join, and waits while more than `MaxQueue`
messages are in flight.

### DiceRules, DiceTurn, BotStrategies, BotTurn

Dice are interchangeable, so a roll is a bag; points are in units of 50.
`Busts`, `Valid`, `Points`, `Largest` are `isBust`, `isValidSelection`,
`scoreSelection` and the panel's "select all" of `diceLogic.ts`. `DiceTurn`
follows one player's turns: `Open`, `Finalize`, `Select`, `RollOn`,
`StopAndScore`, `DrawCard`, `AcknowledgeDrawnCard`, `StopTurn` are the reducer's
actions with the effects that follow them, `SendSnapshot` the debounced relay to
the room and the cache, `Deal` and `Finish` the server's, `Timeout` the clock's
(`TimedOut` is its verdict on the last snapshot), `Reload` a reload with the
restore of `diceTurnRestore.ts` (`Derived`). Toggling single dice is merged
into one selection, the delay of a bust's summary into the roll; physical dice
are `LocalGame`'s, and the recovery of a draw the store takes back is left out.
So is the ceiling on the scores of a claim (section 5).

`BotStrategies` gives each personality's choice; where the code compares expected
values (`turnValue.ts`) either result is allowed, so the properties hold for
every valuation. `BotTurn` is `DiceTurn` with `useBotDriver.ts` in the player's
place; a local draw is answered at once.

### ScoreEngine and LocalGame

`CalculateNextTurn` and `CalculateUndo` are the functions of `coreGameEngine.ts`
with everything they call (deductions, counters, records, leaders, the end of
the game); the order of a rebuilt deck is handed in, and the order in which a
log entry lists the players one deduction hits is left out: each deduction is a
function from the names it hits to what they lost. `AfterEach` is the one loop
the engine and Otto's `bankOutcome` share, the deductions of a chain played one
by one. In `LocalGame` the store is the record `game`, which is exactly what is
saved; `disk` and `cache` are the saved game and the cached turn. `Persist`
comes with every change of the store, as the store's subscription does. `MaxLog`
is `MAX_HISTORY_LOG_SIZE`: `Enter` drops the oldest entry of a full log, as
`buildTurnResultPatch` does, and an undo then leaves the log one entry short, as
`gameSlice.ts:400-405` says. `Reload`, `OpenLink` (a join link, with the session
that is stored offered over the form), `SoftRecover` and `HardReset` (the error
boundary; the second, which the player confirms, deletes the save), `JoinRoom`,
`LoseRoom`, `Reconnect` and `LeaveRoom` take the page away in all the ways the
code has. `before`, `opening` and `torn` are history; `opening.turns` holds the
entries of all turns taken and not undone, whether the log still has them or
not. Typed totals come from a small set; the bonus checkbox of a card is the
choice of another total; reordering the roster is covered by removing and
adding; bots' choices and clocks are left out.

### UpdateFlow

An install is several steps (open the generation and copy forward, the document,
the chunk, the end), so that a deploy, a lost connection, a takeover or a recovery
falls between any two of them. A page's reaction to an event is one step.

`SoftRecover` is `clearCachesAndUnregisterWorkers` of the error boundary with the reload
that follows, which a page runs by itself on its first crash and behind two
buttons: it deletes every generation and ends the registration. The other pages
become orphans (`LeftBehind`). They have no registration, and so neither look for
updates nor hear of a worker that waits, and the worker they had in control goes on answering
them (`stray`) until a new worker claims all pages. Such a worker opens its
generation again when a page asks it for a file (`LoadChunk`); a navigation opens
it too, which is left to the request for a file. So the order of the generations is
not the order of the builds, and `later` keeps it: of each generation, those
opened after it, which is the order of `caches.keys()`. The code awaits the
deletion before it unregisters, and the model does both in one step; what a
worker may do in between is left out (section 5).

The browser's part is external, as the source relies on it: one waiting worker,
replaced by a newer one; recurring update checks; a waiting worker told to skip
waiting activates before another install finishes (the browser activates it at
once; if another install could overtake it for good, the one-shot `updateApplied`,
`swUpdate.ts:124`, would keep the page that asked from asking again); each page hears
of a waiting worker and of a new controller; a reload is atomic.

## 3. What the runs check

All runs search their whole state space; nothing is constrained.

| Run | Instance | Properties | What it shows |
|---|---|---|---|
| `seats` | 3 devices, decks of 2 cards, 2 rounds, 1 draw | `TableInv`, `UndoRecordIsDealLog`, `EqualTurns`, `FairFinish`, `LiveBelongsToTurn` | removals before, at and after the active seat, undos, expiries and chains leave turn order, rounds, undo record and deal log agreeing |
| `draws` | 2 devices, 2 draw requests, 5 tokens, chains of 3 | `ReceiptNamesCardInPlay`, `OneCardPerDraw`, `PlaysFromTape` | a draw takes one card and is answered alike however often it arrives, and the room implements the tape |
| `clock` | durations 0, 1, 2 s, 3 seats, one restart | `DeadlineHolds`, `TurnEnds` | the timer of a timed turn runs and is due when its card is used up; every timed turn ends |
| `rejoins` | 2 connections of one device, 1 of another, 2 rooms, 2 joins waiting | `ConnectedSeatIsLive`, `HostCanAct`, `ReservationIsHeld`, `ReservedSeatKept`, `OneSeatPerDevice` | joins racing leaves, drops, deadlines, kicks, moves between rooms and each other |
| `rooms_freed` | 2 connections of one device, 1 of another, 1 room, 2 joins waiting | `RoomsAreFreed`, `WindowCloses` | windows end, and a room is freed whose seats are all offline, some of them with no timer |
| `stuck_seat` | 3 connections of one device, 1 of another | `UntouchedSeatCanBeRetaken` (violated) | the finding below |
| `records` | 2 devices, 2 games, writes of the first may fail, 2 attempts | `OneRowPerGame`, `RowsTellOutcome`, `AwayAreRecorded`, `FailureCanBeRetried`, `StopsOnlyWhenDone` | rows and totals of a game and its rematch, submitted, lost, held back and repeated |
| `client` | 3 connections, 1 move or draw of the player, 1 step of the others | `NoPhantomMove`, `NullDrawIsSafe`, `Converges`, `DrawIsAnswered` | lost, late and repeated messages never leave a phantom move, and the client converges |
| `turn` | 3 dice with 3 faces, both rulesets, chains of 2, 3 rolls, 2 turns, 1 reload | `CommitsAreAccepted`, `AuthoritiesAgree`, `ToldDecisionStands`, `DiceBelongToTurn` | panel, server and clock tell one story of a turn |
| `bots` | as `turn`, 1 turn, every personality | `OttoSettlesRight`, `NoBotStranded` | no bot waits for ever; Otto counts the end of the game as the engine does |
| `local` | 2 players, 7 cards in 3 orders, both rulesets, 3 turns, a log of 2 entries | `UndoRestores`, `ReloadResumes`, `SaveSurvives`, `ChainIsWhole`, `LogExplainsScores` | undo, reloads, crashes, resets, invitations and rooms around a local game; an undo restores everything but the entry a full log has dropped |
| `deploy` | 3 builds, two of which share a chunk, 2 tabs | `OldTabsKeepChunks`, `OfflineStart`, `UpdatesArrive` | installs overtaken, failed and replaced under open pages, and pages that crash and throw the caches and workers away |

Bounds, and why they are enough for the cases that matter:

* `MaxRound` 2 lets an undo unwind a round and a removal end one; a third device
  makes "before, at, after the active seat" distinct, and lets a game go on
  after a removal. `MaxChain` 2 or 3 lets a chain meet its cap; decks of two
  cards are exhausted within a turn, so that a rebuild falls between any two
  deals. Tokens: one in force, three a receipt and a request can name, one fresh.
* `clock`: durations of 1 and 2 seconds with half-second steps let a timer be set
  again before and after a rounding; one restart lets the budget be used up, and
  `MaxChain` 3 lets a draw go past it. `MaxAge` ends an untimed turn's ageing.
* A device with two connections is the least that races itself; the third in
  `stuck_seat` is the rejoin after the second drop. `MaxPending` 2, the joins that
  wait at once, lets a join supersede one that still waits. `rejoins` has a second
  room, because a device moves between rooms; `rooms_freed` has one, which both
  devices share, so that one seat can be offline without a timer as the other is
  given up (`isAbandonedRoom` on two seats), in either order and with the window on
  or off. Both properties say `[]<>`: a closed connection never opens again in the model,
  so that a moment with no room left is the end of all of them.
* Two games make a rematch while writes of the first are under way; two attempts
  (the code has three) make one repeat and one last attempt.
* `client`: the third connection is the rejoin after a rejoin that failed. Larger
  instances (two connections with three moves) were searched while modelling.
* `turn` and `bots`: with three dice of three faces a straight is three dice, a
  triple uses up the table, a 1 counts alone and a 2 or 3 only as a triple. Two
  turns let dice of one turn meet the other; one reload falls anywhere.
* `local`: each deck order puts a turn-ending card first, in between or last, so
  that a chain of three meets every kind of card. `MaxLog` 2 (50 in the code) is full
  before the third turn, so that entries are dropped, and turns undone on a full
  log. The theorems hold for every `MaxLog`, 50 included.
* `deploy`: three builds let one generation fall out of the two that are kept; the
  second tab is the one a recovery of the first leaves behind.

Deadlock is checked for `RoomGame` and `TurnClock`. The other systems stop in
the model: `SeatLifecycle` when every connection is closed (an id is never used
again), `StatsSubmission` when its games are played, `OnlineClient`, `DiceTurn`,
`BotTurn`, `LocalGame` and `UpdateFlow` when their bounds are used up. Their
configurations say `CHECK_DEADLOCK FALSE`.

**Fairness.**

* `SeatLifecycle`: weak fairness of the continuation of a waiting join, because
  the wait for the statistics is bounded by `JOIN_STATS_WAIT_MS`, and of
  `TimerFires`, because an armed timer fires; its guard, that the deadline outlasts
  older joins, is the comparison of two constants above. No player is obliged to
  act.
* `TurnClock`: of `Tick` and `Expire`; nobody has to play.
* `OnlineClient`: messages arrive, armed timers run out, the server notices a
  closed socket, a dropped transport is opened again (Socket.IO's own
  reconnection). Nobody has to act, and no message survives a drop by fairness.
* `UpdateFlow`: the browser goes on with an install it has begun, looks for a new
  script again and again (`swUpdate.ts:12`), and activates a worker that may.
  `UpdatesArrive` presumes besides that the server can be reached from some time
  on and that each page is idle now and then. Pages loaded before any worker was
  in control are not claimed to be reached, nor orphans: their registration has
  been ended by another page's recovery, and only a reload brings them a new one.

Two properties name a limit of the code. `Converges` and `DrawIsAnswered` leave
out a client whose rejoin deadline has passed: it is told, and may leave.
`OldTabsKeepChunks` holds until two generations have been opened after the page's
own, or a page's recovery has deleted them all.

### Finding

`stuck_seat`: `kickPlayer` (`server/socketRosterHandlers.ts:119`) deletes the
disconnect timer and leaves its `disconnectTimerMetadata`. If the kicked device
sits down again in that room and later drops while the reconnect window is 0,
the reservation of its rejoin records no nonce, the old one is still in the
table, and the comparison after the wait (`server/socketRoomHandlers.ts:531`)
refuses every rejoin as superseded. Every other path clears both with
`clearDisconnectTimer`.

### Observed while modelling, without a run of its own

* `restoreDeckForUndo` (`server/deckAuthority.ts:204`) cuts the restored deck to
  `MAX_DECK_SIZE`: with a configured deck as large as the limit, an undo of a
  turn that ran over a rebuild loses cards, where :182-186 says the cap is out of
  reach. `DeckIsTape` is proved under the hypothesis that rules this out.
* A repeat of the totals is answered as a duplicate while the first write is still
  under way; if that write fails, nobody sends them again
  (`server/socketStatsHandlers.ts:102`; `src/store/socketSlice.ts:561` takes a
  duplicate for a row that is in). A resend between a new connection and its
  rejoin goes out without a seat and is refused for good.
* `useReconnectResume.ts:80-87` refuses a snapshot whose chain does not end on
  the card in play; the panel then starts a chain of the last card alone, and
  each claim it makes is refused (`gameActionAuthority.ts:18`), so that only the
  clock, an undo or the host ends the turn. `CommitsAreAccepted` is claimed of a
  panel that knows every card.
* A Kleeblatt completed and restored after a reload is published without
  `stopped`, and the clock then forfeits it; `AuthoritiesAgree` says so in its
  guard.
* `relayPhysicalChain` (`Game.tsx:190-194`) relays only online, so that a local
  classic undo in mid-chain gives back only the card in play.
* The one previous generation an activation keeps is the last to be created, not
  the one that was in control (`sw.js:90-98`). A deploy during an install can
  leave a newer document in that generation.
* An automatic recovery takes the chunks of every other open page
  (`ErrorBoundary.tsx:49-52`), also of one on an older build, whose chunks the server
  no longer has; `sw.js:90-98` and `swUpdate.ts:184-187` count on the retained generation
  for such a page. `OldTabsKeepChunks` therefore ends with a recovery.
* A worker that a recovery left behind opens its own generation again, empty, as
  the newest. The next activation may keep that one for the previous generation
  and delete the real one.
* A recovery deletes the caches before it unregisters the workers. Cut off
  between the two (the page is closed), it leaves a worker in control whose
  generation has no document, and the first start without a network then shows
  none; `OfflineStart` fails in a variant of the model with two steps.
* A modernized Feuerwerk that has met its null with points in hand is won for the
  panel (`diceTurnRestore.ts:105`), and the clock charges a bust for it
  (`server/turnTimers.ts:230`, `coreGameEngine.ts:604`): what is recorded depends on
  whether the summary is confirmed in time. `AuthoritiesAgree` leaves the card out.
* SIGTERM during the migrations: `start()` still listens afterwards
  (`server/index.ts:182`).

## 4. What is proved

TLAPS checks the theorems below for every value of the constants that satisfies
the named assumptions of the modules: `NullAssumption` (null is no player, card,
token or draw), `DeckAssumption` (a deck is a nonempty sequence of cards) and
`BoundAssumption` of `RoomGame`; `DeviceAssumption`, `NonceAssumption` and
`NoneAssumption` of `SeatLifecycle`; `BoundAssumption`, `LeaderAssumption` and
`NoneAssumption` of `StatsRecording`, `AttemptsAssumption` and
`ClientAssumption` of `StatsSubmission`; `ClockAssumption`, `OnlineAssumption`,
`LocalAssumption`, `BuildAssumption` and `BotAssumption`. Most say that null is
none of the values it stands beside (`LocalAssumption`: no status, no summary of
a chain, neither as the turn hands it in nor as the record keeps it) and that
numbers are numbers. They give the constants their kind and nothing more. The
bounds of a model stay arbitrary numbers. Three theorems of `DiceTurn_proofs`
(`PanelsAreSound`, `DiceAreOfTheirTurn`, `ToldDecisionsHold`) have a hypothesis
more, `PlayerHosts`: the player at the panel is the one who may take back or
restart the game. Without it the first two are false, and rightly: the slot of a
turn is made of round and player, an undo or a restart brings a slot back, and
only the device that asks for either drops its own snapshot; the third rests on
them. Where a column "states" names a property, a run of section 3 shows it on a
small instance.

| Module | Theorem | States | In words |
|---|---|---|---|
| `RoomGame_proofs` | `TableIsSound` | `TableInv` | the table is well typed, its turn is at a seat, the deal log ends on the card in play |
| | `ReceiptAlwaysCurrent` | `ReceiptNamesCardInPlay` | a receipt that would be honoured names the card in play |
| | `DrawAtMostOnce` | `OneCardPerDraw` | a draw request takes one card and has one answer |
| | `TurnsStayEqual`, `FinishIsFair` | `EqualTurns`, `FairFinish` | seats before the active one have had one turn more; a game ends when all are even |
| | `UndoRecordIsRight` | `UndoRecordIsDealLog` | undo record and deal log agree on the last turn |
| | `LiveIsOfThisTurn` | `LiveBelongsToTurn` | the live dice are of the turn in progress |
| | `DeckIsTape` | `PlaysFromTape` | the room implements `CardTape`, step by step |
| `TurnClock_proofs` | `ClockAlwaysHolds` | `DeadlineHolds` | a timed turn has a timer, due when its card is used up |
| `SeatLifecycle_proofs` | `ConnectedSeatsAreLive` | `ConnectedSeatIsLive` | a connected seat has a live connection in the room |
| | `DevicesSitOnce` | `OneSeatPerDevice` | no device has two seats |
| | `HostsCanAct` | `HostCanAct` | the host is connected, or its window is open |
| | `ReservationsAreHeld` | `ReservationIsHeld` | every reservation has a current join waiting |
| | `ReservedSeatsStay` | `ReservedSeatKept` | only a kick takes a reserved offline seat |
| | `IdentitiesLast` | | unlimited identities never run out |
| `StatsSubmission_proofs` | `RowsAreUnique` | `OneRowPerGame` | a game is recorded at most once |
| | `RowsTellVerdict` | `RowsTellOutcome` | a row tells the verdict of its game |
| | `AwayHaveRows` | `AwayAreRecorded` | who is away gets a row without asking |
| | `MarksStandForRows` | `FailureCanBeRetried` | a failed write leaves nothing that refuses its repeat |
| | `StopsWhenDone` | `StopsOnlyWhenDone` | a client stops only when its row is in, under way or unwanted |
| `OnlineClient_proofs` | `ScreenShowsTheRoom` | `NoPhantomMove` | a client that awaits nothing shows a state the server has had |
| `DiceTurn_proofs` | `DiceAreOfTheirTurn` | `DiceBelongToTurn` | a panel shows the turn it is about, and cached dice under the present slot are this turn's |
| | `DecidedTurnsAreAccepted` | `CommitsAreAccepted` | the server accepts the claim of a decided panel that knows the cards dealt |
| | `VerdictsAgree` | `AuthoritiesAgree` | the clock and the panel that resumes read the same end of a turn in a snapshot |
| | `ToldDecisionsHold` | `ToldDecisionStands` | a decision the room was told of is what the panel goes on to show |
| | `BotsAreNotStranded` | `NoBotStranded` | a bot's driver has its timer running whenever the table waits for it |
| | `OttoSettlesTheEnd` | `OttoSettlesRight` | in the last seat of a round the optimal bot takes a win that can be banked, and banks a defeat only where every bank is one |
| `LocalGame_proofs` | `ReloadsResume` | `ReloadResumes` | after a reload the table or the turn in progress is as it was left |
| | `ChainsAreWhole` | `ChainIsWhole` | a turn in progress holds every card the game drew for it |
| | `SavesSurvive` | `SaveSurvives` | no step taken in a room changes the saved local game |
| | `LogsExplain` | `LogExplainsScores` | every score is the sum of what the entries of the turns taken say was earned and lost, and the log shows the last of them |
| | `UndosRestore` | `UndoRestores` | an undone turn leaves table, round, seat, chart and card as the turn found them, and the log less the entry it pushed out of a full one |
| `UpdateFlow_proofs` | `StartsOffline` | `OfflineStart` | once a worker is in control, its generation holds a document |
| | `TabsKeepChunks` | `OldTabsKeepChunks` | a page keeps its chunk until two generations were opened after its own, or a recovery |

The theorems `DrawsAreSound`, `BooksAreSound`, `SeatsAreSound`, `ScreenIsSound`,
`PanelsAreSound`, `ChainsAreTold`, `TablesAreSound`, `OttosTablesHold`,
`SavesAreSound`, `LedgersHold` and `CachesAreSound` state the inductive
invariants; each module has one lemma per action and cites them by case.

*The table.* None of the three parts of `TableInv` is inductive alone: the type
of the undo record needs the card in play to be a card, which the log gives; the
log is kept by an undo only because a turn opens on one card; both need the
active seat to exist. Lemmas about the deck (`DealOpens`, `DealExtends`,
`KickoffDeals`, `RestoreReopens`) and the roster (`RemoveAtLemma`,
`RemoveAtInjective`) are stated once.

*The draws.* `OneCardPerDraw` speaks of history and has to be tied to what the
server still knows: `DrawInv` adds that a request that was dealt a card names a
base that is no longer the token (so only a replay can answer it), that a receipt
in force agrees with the answers its request has had, and that a request without
a card has no answer. Fresh tokens keep the first; the second is kept by the
bystander rule of `handleActivePlayerRemoved`, which issues the receipt again
under the new token.

*The turns.* `EqualTurns`, `FairFinish` and `UndoRecordIsDealLog` hold together
or not at all (`TurnInv`): an undo leaves everybody even only because the player
of its record sits right before the active one, and that the deck follows is
because the deal log tells of the same turn. `DeckIsTape` rests on `TapeInv` and on
`DecksFit`, its hypothesis: a deck with two chains put back on it stays below
the cap of `restoreDeckForUndo`. The shipped deck of 56 cards and chains of at
most 100 do (256 against 1089); a configured deck near the limit does not, which
is the first observation above.

*The clock.* `DeadlineHolds` compares a timer with what has passed; its
inductive form ties both to the memory `turnTimerState`, and two lemmas say what
a timer set at the start of a turn, and set again part way, has left.

*The seats.* `SeatInv` says of each room that it is sound and hosted, of each
device that its seats and reservations are one across rooms, and ties seats to
connections and reservations to joins. `ReservedSeatKept` at first lacked the
premise that the seat is offline; the small run had hidden that, and the proof
did not go through. The action theorems need that a new timer or room finds an
identity nobody has: `[]IdsLeft`. `IdentitiesLast` discharges it for finitely
many rooms and devices and unlimited identities, which is what `Symbol()` and
object identity give the code.

*The rows.* `SubInv` and `BookInv` say for which writes a mark may stand and
which submission a slot is still waiting for; `ClientsAgree` that a slot, its
message and the server's books speak of the same game and player.

*The screen.* `ScreenInv`: the token of every state on its way is one a room has
had, the token in force is among them, and a predicted move is on screen only
while the client is acting. The proof showed the model too generous to the
network: a join that was refused left an earlier one of the same connection
waiting, whereas `joinGeneration` supersedes it in every case.

*The dice.* `DiceInv` says of a snapshot under the present slot that it is of
this turn and of every other that it is older (`CacheIsOld`), so that a later
turn that gets the slot of an earlier one finds either nothing or a snapshot
whose turn number betrays it.

*The tale of a turn.* Four parties account for one turn: the panel adds it up
step by step (`Kept`, `Awarded`, `Drawn`), the server recounts the claim
(`Canonical`), the clock reads the last snapshot (`TimedOut`), a panel that
resumes reads it again (`Derived`). They agree because all of them are handed
the same tale. `Linked` says of a chain that every card before the last is
completed, brought one tutto and took the total on from where it was; `OpenTale`
and `DoneTale` add what the last card may have done so far, and that tuttos and
deductions are what the recount of the outcomes comes to. In the classic rules
`TurnInv` says that the panel, the room's snapshot and the cache each tell one
(`TaleInv`): a panel in hand is playing an open chain or shows one of five
endings (`Decided`: won, burnt out on a firework, bust, stopped by a card,
banked), and a panel that waits for a card has completed its last. In the
modernized rules there is no chain to tell, and `PlainInv` keeps what the clock's
verdict needs: a banked turn leaves nothing selected, a banked Kleeblatt has both
its tuttos. The recount is a recursive function over the outcomes (`Counted`);
that it obeys its equation, and that it only looks at card, tuttos and what was
held before, is obtained from the least-element principle (`CountedAt`,
`CountedAlike`), since induction over data is not to be had. The three theorems
then are readings of the invariant: `TaleIsCanonical` for a claim, `VerdictIs`
for the five verdicts a snapshot can hold and what the clock makes of each.
`ToldDecisionStands` needs two more invariants: the panel, the snapshot and a
cache of this slot know no more cards than were dealt (`LengthInv`, or a card
still to come could make an old decision current again), and what the room
knows to be decided, the panel shows (`ToldInv`). The first is where
`PlayerHosts` comes in, through `DiceInv`.

*The bots.* A driver that acts and changes nothing it watches is never called
again, so `NoBotStranded` needs that a bot always has something to do.
`BotInv` says of the panel in each phase what it may hold (`Sound`): a table at
rest shows dice that do not bust on its card. On such dice the largest selection
can be kept (`LargestFits`: the straight has a run that fits, and of finitely
many runs one is the longest), on a selection that can be kept something is
offered (`OfferedIs`), and of what is offered every personality chooses
something (`ChosenIs`, for Otto through all the cases of the endgame). A resumed
snapshot is sound because `Resumable` is all that a sound panel can leave in the
cache; that a roll in the air has dice is arithmetic over the library's fold,
whose recursion is obtained from a least-element principle (`SumAt`,
`FaceByFace`). The proof showed the model to look at the driver's watch a moment
too early, before an asked-for card; it now looks at the state the step leaves.

*The end of the game.* `OttoSettlesRight` compares two accounts of a bank: the
engine's, which the panel's committed chain goes through (`CalculateNextTurn`,
the bot in the last seat), and Otto's, who counts before he selects, with his own
score first. `OttoInv` adds to `BotInv` that points and deductions are numbers,
that the dice on the table are those not put aside, that a modernized card with a
price of its own has earned nothing before it is completed (`WeighInv`), and that
a plan is still among the decisions of the table it was made for
(`PlanIsOttos`). The accounts are then brought together piece by piece: what the
bank pays (`BankIs`), which deductions precede it (`CompletedIs`, `SummaryIs`,
`PaidAlike`), what those leave of standings listed in either order
(`TurnedThroughout`, by the least number of deductions at which they would
part), what the engine pays out (`BankedTable`) and who has won (`VerdictOf`,
`TurnedOutcome`, `BankOutcomeIs`); `SettlesAlike` is the sum. The selections
compared are the same as well: whatever can be banked is among the keeps Otto
tries, and the other way round (`BankableIsTried`, `TriedIsBankable`), although
for the straight he tries the longest run alone, because a straight can be banked
only when it takes every die. That the ranking of the keeps (`PriorityIs`) then
never passes a win by is `BestSettlesRight`.

*The save.* `SaveInv` has three parts. `RestoreIsWhole` speaks of disk and cache
alone, because both outlive the visit to a room during which the screen shows
something else; `ScreenIsKept` ties the pair to what is on screen;
`ScreenIsSave` says a local screen is the save or an empty lobby. `ReloadResumes`
needs all three: a reload forgets the screen and keeps the files.

*The ledger.* `LogExplainsScores` and `UndoRestores` rest on one invariant,
`LedgerInv`, beside `SaveInv`. Its parts speak of the saved game, because that
is what survives a visit to a room: `Seated` (names are distinct, so a record
that names a player means one seat); `Stood` (every score is `Ledger`, the sum
of `Earned` minus `Lost` over the entries of the turns taken, and the log
`Shows` the last of these); `Opened` (`opening`, the memory of how the turn
began, is the table as it stands with the cards dealt since); and `Undoes`
(where an undo is offered, `calculateUndo` on the record leads to `before`, the
table at which the last turn began, and that table was explained by its own
entries). The log of the code cannot carry the sum, because it drops its oldest
entry when it is full; the sum is over `opening.turns`, and `Shows` says how
much of it the log still has: all of it, or `MaxLog` entries, or one less since
an undo (`RoomShows`, `EnteredShows`). Neither property is inductive alone: an
undo takes an entry back, and the scores it leaves are explained only because
they are those of `before`.

The step that matters is a committed turn (`Settled`). A score moves by what the
new log entry says: the deductions of one chain are running sums, and `Telescopes`
adds up what each took to the difference of the ends. Sums over entries are functions
on the naturals; `TotalAt` says they have the value their recursion says, and
`TotalOfMore` what an entry more adds. Both come from `UpTo`, the least-element
principle in the place of induction. The way back goes counter by counter, since
the undo does not restore a copy but takes back what the record says was added:
`ClassicTurnBack` and `ModernTurnBack` for the player of the turn, `RepaidIs` for
those who lost points to it, each time showing that the floor at zero, which the
code puts under every counter, is never what decides. The records of a game
(longest chain, most forfeited) go back to the value the record kept. A Stop card
without a summary is the one record that cannot go back (`CanGoBack`), and the
store offers no undo of it. Last, only an undo makes the log of a game in
play shorter (`OnlyUndoShortens`), so the property is about undos and nothing else.

*The caches.* A recovery ends the simple order in which a newer build has the
later generation: a worker that was left behind opens its own again, after newer
ones. `GenerationInv` therefore keeps two orders. By number, the worker in
control is older than the one that waits, and that one than the one being
installed. By time, each of those on their way was opened after any that was
installed before it (`InOrder`, on `later`), and what is being installed is the
last of all once a worker is in control. `PagesInv` says the same of the page's
own generation, and that it holds the chunk while fewer than two others were
opened after it. Only a recovery takes such a generation away, and that ends the
page's claim, or an activation; what an activation takes has a later one beside
the new worker's (`KeptGenerations`), and two are no longer fewer than two
(`TwoLater`). That a worker left behind disturbs none of this is `Served`: it
has somebody to serve only until a worker is in control, and is no newer than
what is being installed.

What stays with TLC, and why:

* liveness (`Converges`, `DrawIsAnswered`, `TurnEnds`, `RoomsAreFreed`,
  `WindowCloses`, `UpdatesArrive`): the prover does not reason about ENABLED;
* not proved yet: `NullDrawIsSafe`, whose inductive form ties a draw that was
  given up to the requests, answers and joins still under way.

## 5. What is not modelled

* Admission, session tokens of HTTP and rate limits: counters around the
  handlers. Where a client reacts to a refusal, the modules include it.
* The database: only whether a write succeeds. Migrations, queries, HTTP parsing,
  start-up and shutdown, logging.
* The user interface: components, translations, animation, sound; the chart and
  the ranking; the client's own countdown (`timers.ts`), which only displays.
* The ceiling on scores (`boundedScore`, `MAX_SCORE_MAGNITUDE`, a million, in
  `gameActionAuthority.ts` and the validator of summaries): `StepIsLegal` and `Accepts` of
  `DiceTurn` leave it out, and `CommitsAreAccepted` is said of turns below it.
* In `AuthoritiesAgree`, three modernized cards. A success of the clock would pay out a
  Kniffel or a Plus_Minus, which it never does on purpose (`turnTimers.ts:218-231`); the
  Feuerwerk is the observation above.
* A recovery cut off between the deletion of the caches and the end of the
  registration, and what the workers do between the two; a variant with two steps
  was searched, and is too large for a run.
* A `pushState` with a stale base has no action in `RoomGame`: the server's part is one
  comparison that changes nothing. What a client makes of the refusal is
  `OnlineClient`'s (`NoPhantomMove`, `Converges`).
* Scores in `RoomGame` and `OnlineClient`; names, colours, reactions, chat-like
  relays and presence everywhere.
* Expected values in the bots' choices (`turnValue.ts`) and the coach, which
  displays Otto's choice.

## 6. Plan

1. `NullDrawIsSafe`.
2. The safety half of `DrawIsAnswered`: a draw that is waited for always has a
   request, an answer, a read or an armed deadline.
