------------------------------ MODULE LocalGame ------------------------------
(***************************************************************************)
(* The local game of one device, played with real dice: the lobby, the     *)
(* turns the players enter, their undo, the game saved on the disk and the *)
(* turn cached beside it, and everything that takes the page away from     *)
(* them: a reload, a crash of the page, a room joined or lost, an          *)
(* invitation opened on top of the saved game.                             *)
(*                                                                         *)
(* The store is one record, `game`, which is exactly what is saved.  What  *)
(* an online room shows while one is joined is not this module's: there    *)
(* `game` is the empty lobby and nothing is saved.  Digital dice are       *)
(* DiceTurn's.                                                             *)
(*                                                                         *)
(* Abstracted: typed totals come from a small set, the bonus checkbox of a *)
(* modernized card is the choice of another total, clocks, colours and     *)
(* bots' choices are left out.                                             *)
(***************************************************************************)
EXTENDS ScoreEngine, SequencesExt

CONSTANTS Roster,         \* names a player can be given
          Decks,          \* orders in which the configured deck may be shuffled
          Rules,          \* rulesets chosen from
          WinningScore,
          Totals,         \* totals typed into the score box; 0 is an empty box
          MaxChain,       \* MAX_CHAIN_CARDS
          MaxLog,         \* MAX_HISTORY_LOG_SIZE
          MaxTurns        \* bound of the model: turns committed in one game

\* The values a chain's summary ranges over as a turn is committed with it
\* (TurnSummary) and as its record keeps it; null is none of them.  Only the
\* server's clock ends a turn in a "timeout".
Chains == Seq([card : STRING, completed : BOOLEAN])
Endings == {"null", "banked", "stopCard"}
Losses == UNION {[names -> Int] : names \in SUBSET Roster}
Summaries == [cards : Chains, plusMinusScores : Seq(Nat), ended : Endings, forfeited : Nat, tuttoCount : Nat]
KeptSummaries == [cards : Chains, tuttoCount : Nat, ended : Endings, deducted : Seq(Losses),
                  prevMostCards : Nat, prevForfeited : Nat]

ASSUME LocalAssumption ==
  /\ Rules \subseteq {"classic", "modernized"}
  /\ WinningScore \in Nat \ {0} /\ Totals \subseteq Nat /\ 0 \in Totals
  /\ MaxChain \in Nat \ {0} /\ MaxLog \in Nat \ {0} /\ MaxTurns \in Nat
  /\ Decks \subseteq Seq(STRING) \ {<<>>}
  /\ None \notin {"lobby", "playing"} /\ None \notin Summaries /\ None \notin KeptSummaries

VARIABLES
  mode,     \* "local", "invited" (a join link, no room yet) or "online"
  offer,    \* the restored session: "none", "asked" or "joining"
  game,     \* the local part of the store
  chain,    \* usePhysicalChain: the turn's cards and Plus/Minus totals, or NoChain
  awaiting, \* the bank-or-draw choice is open
  input,    \* the score box
  disk,     \* tutto_local_game
  cache,    \* PHYSICAL_TURN_STATE_KEY
  \* history
  before,   \* the game as the turn `prev` describes began; its cards unless that cache was lost
  opening,  \* the game as the present turn began
  torn      \* the cache was thrown away under the saved turn

turn == <<chain, awaiting, input>>
ghosts == <<before, opening, torn>>
vars == <<mode, offer, game, turn, disk, cache, ghosts>>

NoChain == [cards |-> <<>>, plus |-> <<>>]
NoCache == [key |-> None]
NoSave == [status |-> None]

EmptyLobby == [status |-> "lobby", ruleset |-> "modernized", players |-> <<>>,
               currentPlayerIndex |-> 0, currentCard |-> None, cards |-> <<>>, round |-> 1,
               winningScore |-> WinningScore, finished |-> FALSE, prev |-> NoUndoableTurn,
               chart |-> <<>>, log |-> <<>>]

Playing(g) == g.status = "playing" /\ ~g.finished
IsClassic(g) == g.ruleset = "classic"
Scores(ps) == [i \in DOMAIN ps |-> ps[i].score]

\* buildTurnKey: a cached turn belongs to this round, seat, card and ruleset.
TurnKey(g) == <<g.round, g.currentPlayerIndex, g.currentCard, g.ruleset>>

-----------------------------------------------------------------------------
\* What every change of the store or of the turn brings with it.

\* Seeded fault of Persist: the lobby shown instead of a lost room is saved.
PersistAlways(paused) ==
  disk' = IF mode' = "local" /\ (mode # "local" \/ game' # game) THEN game' ELSE disk

\* attachPersistence: each change of the local game is written, and what is
\* found on returning to local play; not while writes are paused.
Persist(paused) ==
  disk' = IF mode' = "local" /\ ~paused /\ (mode # "local" \/ game' # game) THEN game' ELSE disk

\* Seeded fault of WriteThrough: the choice is written as it was before
\* the step.
WriteStaleChoice ==
  cache' = IF ~(Playing(game') /\ IsClassic(game')) THEN cache
           ELSE IF chain' = NoChain /\ input' = 0 THEN NoCache
           ELSE [key |-> TurnKey(game'), awaiting |-> awaiting, input |-> input', plus |-> chain'.plus,
                 cards |-> IF chain' = NoChain THEN <<[card |-> game'.currentCard, completed |-> FALSE]>>
                           ELSE chain'.cards]

\* The write-through effect of a mounted classic turn.
WriteThrough ==
  cache' = IF ~(Playing(game') /\ IsClassic(game')) THEN cache
           ELSE IF chain' = NoChain /\ input' = 0 THEN NoCache
           ELSE [key |-> TurnKey(game'), awaiting |-> awaiting', input |-> input', plus |-> chain'.plus,
                 cards |-> IF chain' = NoChain THEN <<[card |-> game'.currentCard, completed |-> FALSE]>>
                           ELSE chain'.cards]

FreshTurn == chain' = NoChain /\ awaiting' = FALSE /\ input' = 0

\* readPhysicalChainCache, as the game mounts; an entry of another turn is evicted.
ReadCache ==
  LET mine == /\ Playing(game') /\ IsClassic(game')
              /\ cache # NoCache /\ cache.key = TurnKey(game')
  IN IF mine
     THEN /\ chain' = [cards |-> cache.cards, plus |-> cache.plus]
          /\ awaiting' = cache.awaiting /\ input' = cache.input
          /\ cache' = cache
     ELSE /\ FreshTurn
          /\ cache' = IF Playing(game') /\ IsClassic(game') THEN NoCache ELSE cache

\* clearTurnCaches under a game that is saved unfinished.
ClearCaches == cache' = NoCache /\ torn' = (torn \/ disk.status = "playing")

-----------------------------------------------------------------------------
\* The lobby.
CanAct == mode = "local" /\ offer = "none"

EditLobby(g) ==
  /\ UNCHANGED <<mode, offer, turn, cache, ghosts>>
  /\ game' = g /\ Persist(FALSE)

AddPlayer(name) ==
  /\ CanAct /\ game.status = "lobby" /\ SeatNamed(game.players, name) = {}
  /\ EditLobby([game EXCEPT !.players = Append(@, FreshPlayer(name))])

RemovePlayer(name) ==
  /\ CanAct /\ game.status = "lobby" /\ SeatNamed(game.players, name) # {}
  /\ EditLobby([game EXCEPT !.players = RemoveAt(@, CHOOSE i \in SeatNamed(@, name) : TRUE)])

SetRuleset(rules) ==
  /\ CanAct /\ game.status = "lobby" /\ rules # game.ruleset
  /\ EditLobby([game EXCEPT !.ruleset = rules])

\* The game as a turn that has just begun found it, the entries of all the
\* turns before it, and what it has dealt since.
TurnOf(g, turns) == [players |-> g.players, round |-> g.round, seat |-> g.currentPlayerIndex,
                     chart |-> g.chart, log |-> g.log, turns |-> turns, dealt |-> <<g.currentCard>>]
NoTurn == [dealt |-> <<>>]

\* startGame, from the lobby or again from the end screen.
StartGame ==
  /\ CanAct /\ ~Playing(game) /\ Len(game.players) >= 2
  /\ UNCHANGED <<mode, offer>>
  /\ \E deck \in Decks :
       game' = [game EXCEPT !.status = "playing", !.finished = FALSE, !.round = 1,
                  !.players = [i \in DOMAIN @ |-> FreshPlayer(@[i].name)],
                  !.currentPlayerIndex = 1, !.currentCard = Head(deck), !.cards = Tail(deck),
                  !.prev = NoUndoableTurn, !.chart = <<>>, !.log = <<>>]
  /\ Persist(FALSE) /\ FreshTurn /\ cache' = NoCache
  /\ opening' = TurnOf(game', <<>>) /\ before' = NoTurn /\ torn' = FALSE

\* endGame, from the menu or the end screen.  The scores the roster keeps are
\* left out: nothing in a lobby reads them, and startGame resets them.
EndGame ==
  /\ CanAct /\ game.status = "playing"
  /\ UNCHANGED <<mode, offer>>
  /\ game' = [EmptyLobby EXCEPT !.players = [i \in DOMAIN game.players |-> FreshPlayer(game.players[i].name)],
                                !.ruleset = game.ruleset]
  /\ Persist(FALSE) /\ FreshTurn /\ cache' = NoCache
  /\ opening' = NoTurn /\ before' = NoTurn /\ torn' = FALSE

-----------------------------------------------------------------------------
\* A turn with real dice.
TurnsTaken == (game.round - 1) * Len(game.players) + game.currentPlayerIndex - 1
MyTurn == CanAct /\ Playing(game) /\ TurnsTaken < MaxTurns
HasScoreInput == ~Special(game.currentCard) /\ game.currentCard # "Stop"
BoxShown == HasScoreInput \/ awaiting

\* The chain so far, or the card in play alone and unresolved.
ChainOrCurrent ==
  IF chain # NoChain THEN chain
  ELSE [cards |-> <<[card |-> game.currentCard, completed |-> FALSE]>>, plus |-> <<>>]
MarkLast(cards, done) == [cards EXCEPT ![Len(cards)].completed = done]

\* The sum of a sequence of numbers.
Total(a) == LET sum[k \in 0..Len(a)] == IF k = 0 THEN 0 ELSE sum[k - 1] + a[k] IN sum[Len(a)]

\* tuttosPerCompletion: the tuttos a completed card is known to have taken.
Tuttos(card) == CASE card = "Kleeblatt" -> 2 [] card = "Feuerwerk" -> 0 [] OTHER -> 1

\* buildSummary: a chain that ended on a null completed nothing last.
Summary(ended, lastCompleted, forfeited) ==
  LET cards == MarkLast(ChainOrCurrent.cards, lastCompleted /\ ended # "null")
  IN [cards |-> cards, plusMinusScores |-> ChainOrCurrent.plus, ended |-> ended, forfeited |-> forfeited,
      tuttoCount |-> Total([k \in DOMAIN cards |-> IF cards[k].completed THEN Tuttos(cards[k].card) ELSE 0])]

TypeTotal(n) ==
  /\ MyTurn /\ BoxShown /\ n # input
  /\ UNCHANGED <<mode, offer, game, chain, awaiting, disk, ghosts>>
  /\ input' = n
  /\ WriteThrough

\* buildTurnResultPatch: a full log loses its oldest entry to the new one.
Enter(log, entry) == Append(IF Len(log) < MaxLog THEN log ELSE Tail(log), entry)

\* nextTurn: the engine's result becomes the table, and the next card is drawn.
Committed(r) ==
  /\ UNCHANGED <<mode, offer>>
  /\ LET table == [game EXCEPT !.players = r.players, !.prev = r.prev, !.log = Enter(@, r.entry),
                     !.chart = IF r.order.isRoundEnd THEN Append(@, Scores(r.players)) ELSE @]
     IN IF r.order.isGameOver
        THEN game' = [table EXCEPT !.finished = TRUE, !.currentPlayerIndex = 0]
        ELSE \E deck \in IF game.cards = <<>> THEN Decks ELSE {game.cards} :
               game' = [table EXCEPT !.currentPlayerIndex = r.order.nextIndex, !.round = r.order.nextRound,
                                     !.currentCard = Head(deck), !.cards = Tail(deck)]
  /\ before' = IF torn THEN [opening EXCEPT !.dealt = <<>>] ELSE opening
  /\ opening' = IF r.order.isGameOver THEN NoTurn ELSE TurnOf(game', Append(opening.turns, r.entry))
  /\ torn' = FALSE
  /\ Persist(FALSE) /\ FreshTurn /\ cache' = NoCache

CommitTurn(score, success, summary) == Committed(CalculateNextTurn(game, score, success, summary))

\* commitPhysicalTurn: a turn that scores nothing; what was typed is forfeited.
CommitPhysicalTurn(ended, lastCompleted) ==
  CommitTurn(0, ended = "banked", Summary(ended, lastCompleted, input))

\* commitNextTurn: the score box is banked; an empty one is a bust.
NextTurn ==
  /\ MyTurn /\ BoxShown
  /\ LET banked == input > 0
         completed == awaiting \/ (game.currentCard = "Feuerwerk" /\ banked)
     IN CommitTurn(input, banked,
          IF IsClassic(game) THEN Summary(IF banked THEN "banked" ELSE "null", completed, 0) ELSE None)

\* handlePhysicalBust.
Bust ==
  /\ MyTurn /\ IsClassic(game) /\ HasScoreInput /\ game.currentCard # "Feuerwerk"
  /\ CommitPhysicalTurn("null", FALSE)

\* handleYesNo on a special card: a classic Kniffel or Plus/Minus opens the
\* bank-or-draw choice, everything else commits.
Answer(success) ==
  /\ MyTurn /\ Special(game.currentCard) /\ ~awaiting
  /\ LET card == game.currentCard
     IN \/ ~IsClassic(game) /\ CommitTurn(0, success, None)
        \/ /\ IsClassic(game) /\ (card = "Kleeblatt" \/ ~success)
           /\ CommitPhysicalTurn(IF success THEN "banked" ELSE "null", success)
        \/ /\ IsClassic(game) /\ card # "Kleeblatt" /\ success
           /\ chain' = [cards |-> MarkLast(ChainOrCurrent.cards, TRUE),
                        plus |-> ChainOrCurrent.plus \o (IF card = "Plus_Minus" THEN <<input>> ELSE <<>>)]
           /\ awaiting' = TRUE
           /\ input' = input + (IF card = "Plus_Minus" THEN PLUS_MINUS_SCORE ELSE KNIFFEL_SCORE)
           /\ UNCHANGED <<mode, offer, game, disk, ghosts>>
           /\ WriteThrough

\* The Continue button under a Stop: a chain is forfeited, a bare Stop passes.
Continue ==
  /\ MyTurn /\ game.currentCard = "Stop"
  /\ IF IsClassic(game) /\ chain # NoChain
     THEN CommitPhysicalTurn("stopCard", FALSE)
     ELSE CommitTurn(0, FALSE, None)

\* Seeded fault of RecordDraw: a first draw records the drawn card alone.
RecordDrawnOnly(drawn) ==
  [chain EXCEPT !.cards = Append(IF @ = <<>> THEN @ ELSE MarkLast(@, TRUE), [card |-> drawn, completed |-> FALSE])]

\* recordDraw: drawing on means the card in play was completed.
RecordDraw(drawn) ==
  [ChainOrCurrent EXCEPT !.cards = Append(MarkLast(@, TRUE), [card |-> drawn, completed |-> FALSE])]

\* drawCardMidTurn: an empty deck is built anew.
DrawCardMidTurn ==
  \E deck \in IF game.cards = <<>> THEN Decks ELSE {game.cards} :
    game' = [game EXCEPT !.currentCard = Head(deck), !.cards = Tail(deck)]

\* handlePhysicalDrawNextCard
Draw ==
  /\ MyTurn /\ IsClassic(game) /\ BoxShown /\ game.currentCard # "Feuerwerk"
  /\ UNCHANGED <<mode, offer, before, torn>>
  /\ Len(ChainOrCurrent.cards) < MaxChain
  /\ DrawCardMidTurn
  /\ chain' = RecordDraw(game'.currentCard)
  /\ opening' = [opening EXCEPT !.dealt = Append(@, game'.currentCard)]
  /\ awaiting' = FALSE /\ input' = input
  /\ Persist(FALSE) /\ WriteThrough

\* undo: no room ever relays a local turn's chain, so calculateUndo has none.
\* The log loses its last entry and is not given back one it has dropped.
Undone(r) ==
  /\ UNCHANGED <<mode, offer>>
  /\ game' = [game EXCEPT !.players = r.players, !.currentPlayerIndex = r.nextIndex, !.round = r.nextRound,
                !.cards = r.newDeck, !.currentCard = r.drawnCard, !.prev = NoUndoableTurn,
                !.chart = IF r.isRoundEndUndo THEN Front(@) ELSE @, !.log = Front(@)]
  /\ opening' = TurnOf(game', Front(opening.turns)) /\ before' = NoTurn /\ torn' = FALSE
  /\ Persist(FALSE) /\ FreshTurn /\ cache' = NoCache

Undo == CanAct /\ game.status = "playing" /\ CanUndoState(game) /\ Undone(CalculateUndo(game, <<>>))

-----------------------------------------------------------------------------
\* The page and the rooms it visits.
Saved == IF disk = NoSave THEN EmptyLobby ELSE disk
HasSession == mode = "online" \/ offer = "asked"

\* init after a reload: the saved game is restored, the room left behind offered.
Reload ==
  /\ mode' = "local" /\ offer' = IF HasSession THEN "asked" ELSE "none"
  /\ game' = Saved
  /\ ReadCache /\ Persist(FALSE)
  /\ UNCHANGED ghosts

\* The page opened through a join link: the restore waits, and a room left
\* behind is offered over the form.
OpenLink ==
  /\ mode' = "invited" /\ offer' = (IF HasSession THEN "asked" ELSE "none") /\ game' = EmptyLobby
  /\ FreshTurn
  /\ UNCHANGED <<disk, cache, ghosts>>

\* softRecover: the page crashed and reloads; turn caches go, the saved game
\* and the session stay.
SoftRecover ==
  /\ mode' = "local" /\ offer' = (IF HasSession THEN "asked" ELSE "none")
  /\ game' = Saved /\ FreshTurn /\ ClearCaches /\ Persist(FALSE)
  /\ UNCHANGED <<before, opening>>

\* hardReset: the player has confirmed that the saved game goes too.
HardReset ==
  /\ mode' = "local" /\ offer' = "none" /\ game' = EmptyLobby
  /\ FreshTurn /\ cache' = NoCache /\ disk' = NoSave
  /\ opening' = NoTurn /\ before' = NoTurn /\ torn' = FALSE

\* setMode('online'), from the local lobby.
ChooseOnline ==
  /\ CanAct /\ game.status = "lobby"
  /\ mode' = "invited" /\ game' = EmptyLobby
  /\ UNCHANGED <<offer, turn, disk, cache, ghosts>>

\* setMode('local'), from the online form or on the local lobby: what is saved is restored.
ChooseLocal ==
  /\ offer = "none" /\ (mode = "invited" \/ (mode = "local" /\ game.status = "lobby"))
  /\ UNCHANGED <<offer, ghosts>>
  /\ mode' = "local" /\ game' = Saved
  /\ ReadCache /\ Persist(FALSE)

\* joinRoom from the form.
JoinRoom ==
  /\ mode = "invited" /\ offer = "none" /\ mode' = "online"
  /\ ClearCaches
  /\ UNCHANGED <<offer, game, turn, disk, before, opening>>

\* The restored session is taken up, over the local game behind the prompt.
Reconnect == offer = "asked" /\ offer' = "joining"
             /\ UNCHANGED <<mode, game, turn, disk, cache, ghosts>>

\* Back in the room: its own turn may write its cache over this one's.
Reconnected ==
  /\ offer = "joining" /\ offer' = "none" /\ mode' = "online"
  /\ game' = EmptyLobby /\ FreshTurn
  /\ ClearCaches \/ UNCHANGED <<cache, torn>>
  /\ UNCHANGED <<disk, before, opening>>

ReconnectFails == offer = "joining" /\ offer' = "none"
                  /\ UNCHANGED <<mode, game, turn, disk, cache, ghosts>>

\* cancelReconnect, declining the offer: the turn on screen stays in memory.
DeclineReconnect ==
  /\ offer = "asked" /\ offer' = "none"
  /\ ClearCaches
  /\ UNCHANGED <<mode, game, turn, disk, before, opening>>

\* cancelReconnect and setMode('local', {resume: false}): Return to Main Menu,
\* a kick, a takeover, a room that is gone.  The lobby shown is not saved.
LoseRoom ==
  /\ mode = "online" \/ offer = "joining"
  /\ mode' = "local" /\ offer' = "none" /\ game' = EmptyLobby
  /\ FreshTurn /\ ClearCaches /\ Persist(TRUE)
  /\ UNCHANGED <<before, opening>>

\* leaveRoom and setMode('local').
LeaveRoom ==
  /\ mode = "online" /\ mode' = "local" /\ game' = Saved
  /\ UNCHANGED <<offer, before, opening>>
  /\ FreshTurn /\ ClearCaches /\ Persist(FALSE)

-----------------------------------------------------------------------------
Init ==
  /\ mode = "local" /\ offer = "none" /\ game = EmptyLobby
  /\ chain = NoChain /\ awaiting = FALSE /\ input = 0
  /\ disk = NoSave /\ cache = NoCache
  /\ before = NoTurn /\ opening = NoTurn /\ torn = FALSE

Lobby == \/ \E name \in Roster : AddPlayer(name) \/ RemovePlayer(name)
         \/ \E rules \in Rules : SetRuleset(rules)
         \/ StartGame \/ EndGame
Turn == \/ \E n \in Totals : TypeTotal(n)
        \/ \E success \in BOOLEAN : Answer(success)
        \/ NextTurn \/ Bust \/ Continue \/ Draw \/ Undo
Page == \/ Reload \/ OpenLink \/ SoftRecover \/ HardReset \/ ChooseOnline \/ ChooseLocal
        \/ JoinRoom \/ Reconnect \/ Reconnected \/ ReconnectFails \/ DeclineReconnect
        \/ LoseRoom \/ LeaveRoom

Next == Lobby \/ Turn \/ Page
Spec == Init /\ [][Next]_vars

-----------------------------------------------------------------------------
InPlay == mode = "local" /\ Playing(game)

\* What a turn did is undone whole: the table, the round, the seat, the chart,
\* the log (but for the entry it pushed out of a full one) and the card in
\* play are again what they were as the turn began, also when it was the last
\* of its round, and whatever was reloaded between.
UndoRestores ==
  [][InPlay /\ mode' = "local" /\ Playing(game') /\ Len(game'.log) < Len(game.log)
       => /\ TurnOf(game', before.turns)
               = [before EXCEPT !.dealt = <<IF @ = <<>> THEN game'.currentCard ELSE Head(@)>>,
                                !.log = IF Len(@) < MaxLog THEN @ ELSE Tail(@)]
          /\ game'.prev = NoUndoableTurn]_vars

\* A reload at any moment of a local game resumes it where it stood: table,
\* deck and undo record from the save, chain, choice and typed total from the
\* cache, unless something has thrown the cache away under the turn.
ReloadResumes ==
  InPlay =>
    /\ disk = game
    /\ IsClassic(game) /\ ~torn =>
         IF cache = NoCache \/ cache.key # TurnKey(game)
         THEN chain = NoChain /\ ~awaiting /\ input = 0
         ELSE /\ [cards |-> cache.cards, plus |-> cache.plus] = ChainOrCurrent
              /\ cache.awaiting = awaiting /\ cache.input = input

\* A saved game in progress is only ever replaced by being played on, or by a
\* lobby the player edits, and deleted by the confirmed reset alone: no visit
\* to a room, no lost room and no crash writes over it.
SaveSurvives ==
  [][Playing(disk) /\ disk' # disk /\ ~HardReset
       => mode = "local" /\ mode' = "local" /\ (game = disk \/ (game.status = "lobby" /\ game' # EmptyLobby))]_vars

\* The chain a classic turn will be summarised from names every card the turn
\* has dealt, in order, and only its last card may be unresolved.
ChainIsWhole ==
  InPlay /\ IsClassic(game) /\ ~torn =>
    /\ [k \in DOMAIN ChainOrCurrent.cards |-> ChainOrCurrent.cards[k].card] = opening.dealt
    /\ \A k \in 1..Len(ChainOrCurrent.cards) - 1 : ChainOrCurrent.cards[k].completed

\* What one logged turn gave a player, and what its Plus/Minus cards took.
Earned(entry, name) == IF entry.player = name THEN entry.score ELSE 0
Lost(entry, name) ==
  Total([k \in DOMAIN entry.hits |-> IF name \in DOMAIN entry.hits[k] THEN entry.hits[k][name] ELSE 0])

\* A log shows the last of the turns taken: all of them, or as many as it has
\* room for, or one less since an undo.
Shows(log, turns) ==
  /\ Len(log) = Len(turns) \/ (Len(turns) >= MaxLog /\ Len(log) >= MaxLog - 1)
  /\ Len(log) <= MaxLog
  /\ \A k \in DOMAIN log : log[k] = turns[Len(turns) - Len(log) + k]

\* Every score is what the turns' entries say, taken and not undone: their
\* points, less what the others' Plus/Minus cards took; a Kleeblatt win alone
\* overrules it.  And the log still shows the last of these entries, however
\* often it was full and a turn was undone.
LogExplainsScores ==
  InPlay =>
    /\ Shows(game.log, opening.turns)
    /\ \A i \in DOMAIN game.players :
         LET name == game.players[i].name
             turns == opening.turns
         IN game.players[i].score = Total([k \in DOMAIN turns |-> Earned(turns[k], name) - Lost(turns[k], name)])
=============================================================================
