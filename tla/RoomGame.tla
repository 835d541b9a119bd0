------------------------------ MODULE RoomGame ------------------------------
(***************************************************************************)
(* The server's authority over one online room: who plays, which card is   *)
(* in play, what an undo gives back, which base token a request must name, *)
(* and what a repeated draw request is answered.                           *)
(*                                                                         *)
(* One action per event that changes the room: the pushState actions       *)
(* (start, reset, commit, undo) with the deck move that settles them, the  *)
(* drawCard and liveTurnState handlers, the expiry of the turn clock and   *)
(* the removal of a seat.  Every handler runs to completion, so each is    *)
(* one step; what interleaves is the arrival of requests, copies of        *)
(* requests, expiries and removals.                                        *)
(*                                                                         *)
(* Abstracted: the scores (whether a round end has a sole leader past the  *)
(* winning score is a free choice), the host (any seat may be it), the     *)
(* chart and the history, the clock that decides when Timeout comes.       *)
(* A request the code refuses changes nothing and has no action.           *)
(***************************************************************************)
EXTENDS Naturals, Sequences, FiniteSets, SequencesExt

CONSTANTS Player,       \* devices that may take a seat
          Card,         \* card types, "Stop", "Kleeblatt", "Feuerwerk" among them
          Decks,        \* the orders in which buildDeck may shuffle the configured deck
          Token,        \* gameplay tokens (fresh random ids; a finite supply is reused)
          DrawId,       \* ids of draw requests
          MaxChain,     \* MAX_CHAIN_CARDS: cards one turn may be dealt
          MaxDeckSize,  \* MAX_DECK_SIZE: cards an undo may leave in the deck
          MaxRound,     \* bound of the model: no round is begun after this one
          None          \* null

NoSeat == 0             \* currentPlayerIndex null; seats are numbered from 1
TurnEnders == {"Stop", "Kleeblatt", "Feuerwerk"}
Phases == {"lobby", "playing", "finished"}
Rulesets == {"classic", "modernized"}

ASSUME NullAssumption == None \notin Player /\ None \notin Card /\ None \notin Token /\ None \notin DrawId
ASSUME DeckAssumption == /\ Decks # {}
                         /\ \A deck \in Decks : deck \in Seq(Card) /\ deck # <<>>
ASSUME BoundAssumption == /\ MaxChain \in Nat \ {0}
                          /\ MaxDeckSize \in Nat
                          /\ MaxRound \in Nat \ {0}
                          /\ Token \subseteq Nat

VARIABLES
  players,      \* the roster, in turn order
  phase,        \* roomPhase: "lobby", "playing" or "finished"
  turn,         \* currentPlayerIndex
  round,
  ruleset,
  currentCard,
  cards,        \* the undrawn deck, next card first
  dealtThis,    \* dealtThisTurn: cards dealt to the turn in progress
  dealtLast,    \* dealtLastTurn: cards dealt to the turn before it
  prev,         \* the previous-turn record an undo consumes
  token,        \* gameplayToken: the lineage a request must name
  receipt,      \* acceptedDraw: the last accepted draw and its answer
  live,         \* liveTurnState: whose dice are shown, and the chain they show
  turns,        \* totalTurns of each player
  draws         \* draw requests in flight; `dealt` and `answers` are history

table == <<currentCard, cards, dealtThis, dealtLast>>
vars == <<players, phase, turn, round, ruleset, currentCard, cards, dealtThis,
          dealtLast, prev, token, receipt, live, turns, draws>>

-----------------------------------------------------------------------------
NoTurn == [card |-> None, player |-> None, chain |-> <<>>]
NoReceipt == [drawId |-> None, device |-> None, base |-> None, card |-> None, token |-> None]
NoDraw == [by |-> None, base |-> None, dealt |-> 0, answers |-> {}]
NoLive == [by |-> None, chain |-> <<>>]

Playing == phase = "playing"
Active == players[turn]
Orders(ps) == {s \in [DOMAIN ps -> ToSet(ps)] : IsInjective(s)}
SeatOf(p) == CHOOSE i \in 1..Len(players) : players[i] = p

UsedTokens == {token, receipt.base, receipt.token} \cup {draws[d].base : d \in DrawId}

\* randomUUID, or the mutationId a push brings: an id nothing else names.
NewToken == token' \in {t \in Token \ UsedTokens : \A u \in Token \ UsedTokens : t <= u}

-----------------------------------------------------------------------------
\* The deck: dealing, and the log of what was dealt.

ClearDeck == currentCard' = None /\ cards' = <<>> /\ dealtThis' = <<>> /\ dealtLast' = <<>>

\* Seeded fault of recordDealtCard: a deal that opens a turn does not rotate.
RecordKeepsLastTurn(card, opensTurn) ==
  /\ dealtLast' = dealtLast
  /\ dealtThis' = IF opensTurn THEN <<card>> ELSE Append(dealtThis, card)

\* A deal that opens a turn rotates the log; a draw extends it, up to the cap.
RecordDealtCard(card, opensTurn) ==
  /\ dealtLast' = IF opensTurn THEN dealtThis ELSE dealtLast
  /\ dealtThis' = IF opensTurn THEN <<card>>
                  ELSE IF Len(dealtThis) < MaxChain THEN Append(dealtThis, card)
                  ELSE dealtThis

\* drawNextCardForRoom, with its log entry: an exhausted deck is rebuilt first.
DealNext(opensTurn) ==
  \E pile \in IF cards # <<>> THEN {cards} ELSE Decks :
    /\ currentCard' = Head(pile)
    /\ cards' = Tail(pile)
    /\ RecordDealtCard(Head(pile), opensTurn)

DealKickoff ==
  \E deck \in Decks :
    /\ currentCard' = Head(deck)
    /\ cards' = Tail(deck)
    /\ dealtThis' = <<Head(deck)>>
    /\ dealtLast' = <<>>

\* Seeded fault of restoreDeckForUndo: the discarded turn's cards are lost.
RestoreWithoutThisTurn ==
  LET back == Tail(dealtLast) \o cards IN
  /\ currentCard' = Head(dealtLast)
  /\ cards' = SubSeq(back, 1, IF Len(back) < MaxDeckSize THEN Len(back) ELSE MaxDeckSize)
  /\ dealtThis' = <<Head(dealtLast)>>
  /\ dealtLast' = <<>>
\* Both turns' cards go back on top, and the undone turn's opening card is in
\* play again.  MaxDeckSize is the backstop the code keeps on the result.
RestoreDeckForUndo ==
  LET back == Tail(dealtLast) \o dealtThis \o cards IN
  IF dealtLast = <<>> THEN UNCHANGED table
  ELSE /\ currentCard' = Head(dealtLast)
       /\ cards' = SubSeq(back, 1, IF Len(back) < MaxDeckSize THEN Len(back) ELSE MaxDeckSize)
       /\ dealtThis' = <<Head(dealtLast)>>
       /\ dealtLast' = <<>>

-----------------------------------------------------------------------------
\* What a push did to the deck is read off the room before and after it.

SeatBefore(ps, from) == IF from = 1 THEN Len(ps) ELSE from - 1
SeatAfter(ps, from) == IF from = Len(ps) THEN 1 ELSE from + 1

IsUndoMove == /\ prev.card # None
              /\ prev'.card = None
              /\ turn' = SeatBefore(players', turn)

IsAdvanceMove == /\ turn # NoSeat
                 /\ currentCard # None
                 /\ turn' = SeatAfter(players', turn)

\* The push left the game going and put another seat to play.
SeatMoved == phase' = "playing" /\ turn' # NoSeat /\ turn' # turn

\* classifyDeckMove and settleDeck: kickoff, teardown, undo, advance or hold,
\* in the order the code tries them.
SettleDeck(started) ==
  \/ started /\ DealKickoff
  \/ ~started /\ phase' = "lobby" /\ ClearDeck
  \/ ~started /\ SeatMoved /\ IsUndoMove /\ RestoreDeckForUndo
  \/ ~started /\ SeatMoved /\ ~IsUndoMove /\ IsAdvanceMove /\ DealNext(TRUE)
  \/ /\ ~started
     /\ phase' # "lobby"
     /\ SeatMoved => ~IsUndoMove /\ ~IsAdvanceMove
     /\ UNCHANGED table

-----------------------------------------------------------------------------
Init == /\ players = <<>>
        /\ phase = "lobby"
        /\ turn = NoSeat
        /\ round = 1
        /\ ruleset = "classic"
        /\ currentCard = None /\ cards = <<>> /\ dealtThis = <<>> /\ dealtLast = <<>>
        /\ prev = NoTurn
        /\ token \in {t \in Token : \A u \in Token : t <= u}
        /\ receipt = NoReceipt
        /\ live = NoLive
        /\ turns = [p \in Player |-> 0]
        /\ draws = [d \in DrawId |-> NoDraw]

\* joinRoom, a new seat: in the lobby only, at the end of the roster.
Join(p) ==
  /\ phase = "lobby"
  /\ ~Contains(players, p)
  /\ players' = Append(players, p)
  /\ turns' = [turns EXCEPT ![p] = 0]
  /\ UNCHANGED <<phase, turn, round, ruleset, table, prev, token, receipt, live, draws>>

\* reorderPlayers.
Reorder ==
  /\ phase = "lobby"
  /\ players' \in Orders(players)
  /\ UNCHANGED <<phase, turn, round, ruleset, table, prev, token, receipt, live, turns, draws>>

\* updateConfig, the one setting the rules of this module depend on: the
\* ruleset cannot change while a game is on.
UpdateConfig ==
  /\ phase = "lobby"
  /\ players # <<>>
  /\ ruleset' \in Rulesets
  /\ UNCHANGED <<players, phase, turn, round, table, prev, token, receipt, live, turns, draws>>

\* pushState 'start': kick-off or rematch, in roster order or shuffled.
Start ==
  /\ ~Playing
  /\ Len(players) >= 2
  /\ players' \in Orders(players)
  /\ phase' = "playing"
  /\ turn' = 1
  /\ round' = 1
  /\ prev' = NoTurn
  /\ live' = NoLive
  /\ turns' = [p \in Player |-> 0]
  /\ SettleDeck(TRUE)
  /\ NewToken
  /\ UNCHANGED <<ruleset, receipt, draws>>

\* pushState 'reset': back to the lobby, from any phase.
Reset ==
  /\ players # <<>>
  /\ phase' = "lobby"
  /\ turn' = NoSeat
  /\ round' = 1
  /\ prev' = NoTurn
  /\ live' = NoLive
  /\ UNCHANGED <<players, ruleset, receipt, turns, draws>>
  /\ SettleDeck(FALSE)
  /\ NewToken

\* Seeded fault of buildTurnResultPatch: the dice shown are not taken down.
EndTurnKeepsLive ==
  /\ turns' = [turns EXCEPT ![Active] = @ + 1]
  /\ prev' = [card |-> currentCard, player |-> Active,
              chain |-> IF ruleset = "classic" THEN dealtThis ELSE <<>>]
  /\ live' = live

\* calculateNextTurn: the record of the turn that ends now, and its count.
EndTurn ==
  /\ turns' = [turns EXCEPT ![Active] = @ + 1]
  /\ prev' = [card |-> currentCard, player |-> Active,
              chain |-> IF ruleset = "classic" THEN dealtThis ELSE <<>>]
  /\ live' = NoLive

LastSeat == turn = Len(players)

\* Seeded fault of advanceTurnOrder: any seat past the goal ends the game.
FinishMidRound == /\ phase' = "finished"
                  /\ turn' = NoSeat
                  /\ UNCHANGED round

\* A sole leader past the winning score ends the game, at a round's end only.
FinishRound == /\ LastSeat
               /\ phase' = "finished"
               /\ turn' = NoSeat
               /\ UNCHANGED round

\* The next seat, or the first seat of the next round.
PassTurn == /\ turn' = SeatAfter(players, turn)
            /\ round' = IF LastSeat THEN round + 1 ELSE round
            /\ round' <= MaxRound
            /\ UNCHANGED phase

\* pushState 'commit': a completed Kleeblatt wins outright.
Commit ==
  /\ Playing
  /\ EndTurn
  /\ \/ FinishRound
     \/ currentCard = "Kleeblatt" /\ phase' = "finished" /\ turn' = NoSeat /\ UNCHANGED round
     \/ PassTurn
  /\ UNCHANGED <<players, ruleset, receipt, draws>>
  /\ SettleDeck(FALSE)
  /\ NewToken

\* canUndoState: a bare Stop stays, a departed player's turn stays, and a
\* wrapped turn order needs a round to unwind.
CanUndo ==
  /\ Playing
  /\ prev.card # None
  /\ ~(prev.card = "Stop" /\ prev.chain = <<>>)
  /\ Contains(players, prev.player)
  /\ SeatOf(prev.player) >= turn => round > 1

\* pushState 'undo'.
Undo ==
  /\ CanUndo
  /\ turn' = SeatOf(prev.player)
  /\ round' = IF SeatOf(prev.player) >= turn THEN round - 1 ELSE round
  /\ turns' = [turns EXCEPT ![prev.player] = IF @ > 0 THEN @ - 1 ELSE 0]
  /\ prev' = NoTurn
  /\ live' = NoLive
  /\ UNCHANGED phase
  /\ UNCHANGED <<players, ruleset, receipt, draws>>
  /\ SettleDeck(FALSE)
  /\ NewToken

-----------------------------------------------------------------------------
\* The drawing client asks with the lineage it sees; it repeats the request
\* until it is answered, so a copy may arrive at any later time.
IssueDraw(d) ==
  /\ Playing
  /\ draws[d] = NoDraw
  /\ draws' = [draws EXCEPT ![d] = [NoDraw EXCEPT !.by = Active, !.base = token]]
  /\ UNCHANGED <<players, phase, turn, round, ruleset, table, prev, token, receipt, live, turns>>

\* No copy of the request is left, and no receipt that counts names it.
ForgetDraw(d) ==
  /\ draws[d] # NoDraw
  /\ receipt.drawId = d => receipt.token # token
  /\ draws' = [draws EXCEPT ![d] = NoDraw]
  /\ UNCHANGED <<players, phase, turn, round, ruleset, table, prev, token, receipt, live, turns>>

IsReplay(d) == /\ receipt.drawId = d
               /\ receipt.device = Active
               /\ receipt.base = draws[d].base
               /\ receipt.token = token

\* Seeded fault of drawCard: a stale base is dealt to.
MayDrawOnStaleBase(d) ==
  /\ ruleset = "classic"
  /\ Len(dealtThis) < MaxChain
  /\ currentCard \notin TurnEnders

MayDraw(d) ==
  /\ draws[d].base = token
  /\ ruleset = "classic"
  /\ Len(dealtThis) < MaxChain
  /\ currentCard \notin TurnEnders

\* drawCard, first arrival: one card for the turn, and a receipt for its copies.
DrawCard(d) ==
  /\ Playing
  /\ draws[d] # NoDraw
  /\ draws[d].by = Active
  /\ ~IsReplay(d)
  /\ MayDraw(d)
  /\ DealNext(FALSE)
  /\ NewToken
  /\ receipt' = [drawId |-> d, device |-> Active, base |-> draws[d].base,
                 card |-> currentCard', token |-> token']
  /\ draws' = [draws EXCEPT ![d].dealt = @ + 1, ![d].answers = @ \cup {currentCard'}]
  /\ UNCHANGED <<players, phase, turn, round, ruleset, prev, live, turns>>

\* drawCard, a copy of the request the receipt answers: the same card again.
ReplayDraw(d) ==
  /\ Playing
  /\ draws[d] # NoDraw
  /\ draws[d].by = Active
  /\ IsReplay(d)
  /\ draws' = [draws EXCEPT ![d].answers = @ \cup {receipt.card}]
  /\ UNCHANGED <<players, phase, turn, round, ruleset, table, prev, token, receipt, live, turns>>

\* liveTurnState: the drawing client may not have seen the newest card yet.
LiveTurnState ==
  /\ Playing
  /\ \/ live' = NoLive
     \/ \E k \in {Len(dealtThis) - 1, Len(dealtThis)} \ {0} :
          live' = [by |-> Active, chain |-> SubSeq(dealtThis, 1, k)]
  /\ UNCHANGED <<players, phase, turn, round, ruleset, table, prev, token, receipt, turns, draws>>

-----------------------------------------------------------------------------
\* advanceTurnOnTimeout.  The snapshot proves a Kleeblatt only if its chain is
\* the one the server dealt.
Timeout ==
  /\ Playing
  /\ EndTurn
  /\ \/ /\ \/ FinishRound
           \/ /\ currentCard = "Kleeblatt" /\ live # NoLive /\ live.chain = dealtThis
              /\ phase' = "finished" /\ turn' = NoSeat /\ UNCHANGED round
        /\ currentCard' = None
        /\ UNCHANGED <<cards, dealtThis, dealtLast>>
     \/ PassTurn /\ DealNext(TRUE)
  /\ NewToken
  /\ UNCHANGED <<players, ruleset, receipt, draws>>

-----------------------------------------------------------------------------
\* handleActivePlayerRemoved and abortGameIfLowPlayers, after a leave, a kick
\* or an expired reconnect window.

\* A bystander's departure must not cost the active player a draw's answer.
ReceiptAfterRemoval(i) ==
  receipt' = IF turn # NoSeat /\ i # turn /\ receipt.token = token
             THEN [receipt EXCEPT !.token = token'] ELSE receipt

\* Seeded fault: the turn's seat number is not moved up with its player.
RemoveAsideUnshifted(i) ==
  /\ i # turn
  /\ turn' = turn
  /\ ReceiptAfterRemoval(i)
  /\ UNCHANGED <<phase, round, ruleset, table, prev, live, turns>>

\* Another seat than the active one goes: the turn stays with its player.
RemoveAside(i) ==
  /\ i # turn
  /\ turn' = IF turn # NoSeat /\ i < turn THEN turn - 1 ELSE turn
  /\ ReceiptAfterRemoval(i)
  /\ UNCHANGED <<phase, round, ruleset, table, prev, live, turns>>

\* Seeded fault: a removal that ends the round does not count it.
RemoveActiveSameRound(i) ==
  /\ i = turn
  /\ prev' = NoTurn
  /\ live' = NoLive
  /\ ReceiptAfterRemoval(i)
  /\ phase' = phase
  /\ turn' = IF LastSeat THEN 1 ELSE turn
  /\ round' = round
  /\ DealNext(TRUE)
  /\ UNCHANGED <<ruleset, turns>>

\* The active seat goes: the seat after it takes over with a card of its own,
\* or the round, and with it perhaps the game, is over.
RemoveActive(i) ==
  /\ i = turn
  /\ prev' = NoTurn
  /\ live' = NoLive
  /\ ReceiptAfterRemoval(i)
  /\ \/ /\ FinishRound
        /\ currentCard' = None
        /\ UNCHANGED <<cards, dealtThis, dealtLast>>
     \/ /\ phase' = phase
        /\ turn' = IF LastSeat THEN 1 ELSE turn
        /\ round' = IF LastSeat THEN round + 1 ELSE round
        /\ round' <= MaxRound
        /\ DealNext(TRUE)
  /\ UNCHANGED <<ruleset, turns>>

\* Seeded fault: the aborted game keeps its receipt.
AbortKeepsReceipt(i) ==
  /\ phase' = "lobby"
  /\ turn' = NoSeat
  /\ ClearDeck
  /\ live' = NoLive
  /\ ReceiptAfterRemoval(i)
  /\ prev' = IF i = turn THEN NoTurn ELSE prev
  /\ round' = IF i = turn /\ LastSeat THEN round + 1 ELSE round
  /\ UNCHANGED <<ruleset, turns>>

\* One player is left of a running game: the room is a lobby again.
RemoveAborts(i) ==
  /\ phase' = "lobby"
  /\ turn' = NoSeat
  /\ ClearDeck
  /\ live' = NoLive
  /\ receipt' = NoReceipt
  /\ prev' = IF i = turn THEN NoTurn ELSE prev
  /\ round' = IF i = turn /\ LastSeat THEN round + 1 ELSE round
  /\ UNCHANGED <<ruleset, turns>>

\* The last seat goes and the room with it; its next life is a new room.
RoomDeleted ==
  /\ phase' = "lobby"
  /\ turn' = NoSeat
  /\ round' = 1
  /\ ruleset' = "classic"
  /\ ClearDeck
  /\ prev' = NoTurn
  /\ receipt' = NoReceipt
  /\ live' = NoLive
  /\ turns' = [p \in Player |-> 0]

RemoveSeat(i) ==
  /\ players' = RemoveAt(players, i)
  /\ NewToken
  /\ \/ Len(players) = 1 /\ RoomDeleted
     \/ Playing /\ Len(players) = 2 /\ RemoveAborts(i)
     \/ Playing /\ Len(players) = 2 /\ i = turn /\ RemoveActive(i) /\ phase' = "finished"
     \/ Playing /\ Len(players) > 2 /\ (RemoveAside(i) \/ RemoveActive(i))
     \/ ~Playing /\ Len(players) > 1 /\ RemoveAside(i)
  /\ UNCHANGED draws

Next == \/ \E p \in Player : Join(p)
        \/ Reorder
        \/ UpdateConfig
        \/ Start
        \/ Reset
        \/ Commit
        \/ Undo
        \/ \E d \in DrawId : IssueDraw(d) \/ ForgetDraw(d) \/ DrawCard(d) \/ ReplayDraw(d)
        \/ LiveTurnState
        \/ Timeout
        \/ \E i \in DOMAIN players : RemoveSeat(i)

Spec == Init /\ [][Next]_vars

-----------------------------------------------------------------------------
(***************************************************************************)
(* What must hold.                                                         *)
(***************************************************************************)

\* Type invariant: every field of the room holds a value of its kind.
TypeOK ==
  /\ players \in Seq(Player)
  /\ phase \in Phases
  /\ turn \in Nat
  /\ round \in Nat \ {0}
  /\ ruleset \in Rulesets
  /\ currentCard \in Card \cup {None}
  /\ cards \in Seq(Card) /\ dealtThis \in Seq(Card) /\ dealtLast \in Seq(Card)
  /\ prev \in [card : Card \cup {None}, player : Player \cup {None}, chain : Seq(Card)]
  /\ token \in Token
  /\ receipt \in [drawId : DrawId \cup {None}, device : Player \cup {None},
                  base : Token \cup {None}, card : Card \cup {None}, token : Token \cup {None}]
  /\ live \in [by : Player \cup {None}, chain : Seq(Card)]
  /\ turns \in [Player -> Nat]
  /\ draws \in [DrawId -> [by : Player \cup {None}, base : Token \cup {None},
                           dealt : Nat, answers : SUBSET (Card \cup {None})]]

\* While a game is on somebody is to play, and nobody is when it is not; no
\* device holds two seats.
TurnIsSeated ==
  /\ IsInjective(players)
  /\ Playing => turn \in DOMAIN players /\ Len(players) >= 2
  /\ ~Playing => turn = NoSeat

\* The deal log describes the turn in progress: it ends on the card in play,
\* stays under the cap, never goes on past a card that ends its turn (a commit
\* of such a chain would be refused for ever), and a modernized turn has one
\* card.  An undo gives cards back from this log and nothing else.
LogMatchesTable ==
  Playing => /\ dealtThis # <<>>
             /\ currentCard = dealtThis[Len(dealtThis)]
             /\ Len(dealtThis) <= MaxChain
             /\ \A k \in 1..(Len(dealtThis) - 1) : dealtThis[k] \notin TurnEnders
             /\ ruleset = "modernized" => Len(dealtThis) = 1

\* The table is sound: types, seats and the deal log hold together through
\* draws, commits, expiries, undos and removals, and each needs the others (the
\* log says which card a turn ends on, the seats who may end it).
TableInv == TypeOK /\ TurnIsSeated /\ LogMatchesTable

\* The undo record and the deal log tell of the same turn.  The record is
\* what calculateUndo (and the undo button) believes, the log is what
\* restoreDeckForUndo acts on, and removals, timeouts and undos write them in
\* different places.  The undone player sits right before the active one, so
\* that the undo is recognised as one.
UndoRecordIsDealLog ==
  Playing /\ prev.card # None =>
    /\ dealtLast # <<>>
    /\ prev.card = dealtLast[Len(dealtLast)]
    /\ prev.chain = IF ruleset = "classic" THEN dealtLast ELSE <<>>
    /\ \A i \in DOMAIN players :
         players[i] = prev.player => i = SeatBefore(players, turn)

\* Nobody is skipped and nobody plays twice: through hand-overs, undos and
\* removals, the seats before the active one have had as many turns as rounds
\* were begun, the others one fewer.
EqualTurns ==
  Playing => \A i \in DOMAIN players :
               turns[players[i]] = IF i < turn THEN round ELSE round - 1

\* A game that no Kleeblatt ended is over only when every player left in it
\* has had as many turns as any other.
FairFinish ==
  phase = "finished" =>
    prev.card = "Kleeblatt" \/ \A i \in DOMAIN players : turns[players[i]] = round

\* A receipt that would still be honoured answers the active player with the
\* card that is in play, drawn in the turn in progress.
ReceiptNamesCardInPlay ==
  receipt.token = token =>
    /\ Playing
    /\ receipt.device = Active
    /\ receipt.card = currentCard
    /\ Len(dealtThis) > 1

\* However often a draw request arrives, it takes one card and has one answer.
OneCardPerDraw ==
  \A d \in DrawId : draws[d].dealt <= 1 /\ Cardinality(draws[d].answers) <= 1

\* The dice shown are the active player's, and their chain is one the server
\* dealt this turn: what an expiry reads out of them is about this turn.
LiveBelongsToTurn ==
  live # NoLive => /\ Playing
                   /\ live.by = Active
                   /\ live.chain # <<>>
                   /\ IsPrefix(live.chain, dealtThis)

\* The room's deck is the tape of CardTape: an undo brings the cards back in
\* the order they came, and no step but a rebuild, a kick-off or a teardown
\* changes which cards come next.
Tape == INSTANCE CardTape WITH tape <- dealtLast \o dealtThis \o cards,
                               last <- Len(dealtLast),
                               now <- Len(dealtThis)
PlaysFromTape == Tape!TapeSpec
=============================================================================
