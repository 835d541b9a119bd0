--------------------------- MODULE RoomGame_proofs ---------------------------
(***************************************************************************)
(* The table of a room (players, turn, card, deal log) is sound, a draw    *)
(* request takes one card, everybody gets as many turns, an undo takes     *)
(* back the turn it names, and the deck deals from one tape: for every     *)
(* value of the constants.                                                 *)
(***************************************************************************)
EXTENDS RoomGame, SequenceTheorems, FiniteSetTheorems, TLAPS

-----------------------------------------------------------------------------
(***************************************************************************)
(* Lemmas about the sequences a room is made of.                           *)
(***************************************************************************)

\* Taking one seat out of the roster closes the gap and keeps the order.
LEMMA RemoveAtLemma ==
  ASSUME NEW S, NEW s \in Seq(S), NEW i \in 1..Len(s)
  PROVE  /\ RemoveAt(s, i) \in Seq(S)
         /\ Len(RemoveAt(s, i)) = Len(s) - 1
         /\ \A j \in 1..(Len(s) - 1) : RemoveAt(s, i)[j] = IF j < i THEN s[j] ELSE s[j + 1]
<1> DEFINE a == SubSeq(s, 1, i - 1)
           b == SubSeq(s, i + 1, Len(s))
<1>1. a \in Seq(S) /\ Len(a) = i - 1 /\ \A j \in 1..(i - 1) : a[j] = s[j]
  OBVIOUS
<1>2. b \in Seq(S) /\ Len(b) = Len(s) - i /\ \A j \in 1..(Len(s) - i) : b[j] = s[i + j]
  OBVIOUS
<1>3. RemoveAt(s, i) = a \o b
  BY DEF RemoveAt
<1> HIDE DEF a, b
<1>4. a \o b \in Seq(S) /\ Len(a \o b) = Len(s) - 1
  <2>1. a \o b \in Seq(S) /\ Len(a \o b) = Len(a) + Len(b)
    BY <1>1, <1>2, ConcatProperties
  <2>2. Len(s) \in Nat
    OBVIOUS
  <2> QED BY <1>1, <1>2, <2>1, <2>2
<1>5. \A j \in 1..(Len(s) - 1) : (a \o b)[j] = IF j < i THEN s[j] ELSE s[j + 1]
  <2> TAKE j \in 1..(Len(s) - 1)
  <2>1. CASE j < i
    BY <1>1, <1>2, <2>1
  <2>2. CASE ~(j < i)
    <3>1. (a \o b)[j] = b[j - (i - 1)]
      BY <1>1, <1>2, <2>2
    <3>2. j - (i - 1) \in 1..(Len(s) - i)
      BY <2>2
    <3>3. b[j - (i - 1)] = s[i + (j - (i - 1))]
      BY <1>2, <3>2
    <3> QED BY <2>2, <3>1, <3>3
  <2> QED BY <2>1, <2>2
<1> QED BY <1>3, <1>4, <1>5

\* A roster without one of its seats seats every other player once.
LEMMA RemoveAtInjective ==
  ASSUME NEW S, NEW s \in Seq(S), NEW i \in 1..Len(s), IsInjective(s)
  PROVE  IsInjective(RemoveAt(s, i))
<1>1. /\ Len(RemoveAt(s, i)) = Len(s) - 1
      /\ \A j \in 1..(Len(s) - 1) : RemoveAt(s, i)[j] = IF j < i THEN s[j] ELSE s[j + 1]
      /\ RemoveAt(s, i) \in Seq(S)
  BY RemoveAtLemma
<1>2. DOMAIN RemoveAt(s, i) = 1..(Len(s) - 1)
  BY <1>1
<1>3. \A j, k \in 1..Len(s) : s[j] = s[k] => j = k
  BY DEF IsInjective
<1> QED BY <1>1, <1>2, <1>3 DEF IsInjective

\* Every order of a roster is a roster of the same length.
LEMMA OrdersLemma ==
  ASSUME NEW S, NEW s \in Seq(S), NEW t \in Orders(s)
  PROVE  t \in Seq(S) /\ Len(t) = Len(s) /\ IsInjective(t)
<1>1. t \in [1..Len(s) -> S]
  BY DEF Orders, ToSet
<1> QED BY <1>1 DEF Orders

\* A token that is new is one that nothing in the room names.
LEMMA NewTokenLemma ==
  ASSUME NewToken
  PROVE  /\ token' \in Token
         /\ token' # token /\ token' # receipt.token /\ token' # receipt.base
         /\ \A d \in DrawId : token' # draws[d].base
BY DEF NewToken, UsedTokens

-----------------------------------------------------------------------------
(***************************************************************************)
(* Lemmas about the deck.                                                  *)
(***************************************************************************)

DeckOK == /\ cards \in Seq(Card)
          /\ dealtThis \in Seq(Card)
          /\ dealtLast \in Seq(Card)

\* A deal that opens a turn puts one card on the table and files the last
\* turn's cards; the card is a card of the deck.
LEMMA DealOpens ==
  ASSUME DeckOK, DealNext(TRUE)
  PROVE  /\ DeckOK'
         /\ currentCard' \in Card
         /\ dealtThis' = <<currentCard'>>
         /\ dealtLast' = dealtThis
<1>1. PICK pile \in (IF cards # <<>> THEN {cards} ELSE Decks) :
        /\ currentCard' = Head(pile)
        /\ cards' = Tail(pile)
        /\ RecordDealtCard(Head(pile), TRUE)
  BY DEF DealNext
<1>2. pile \in Seq(Card) /\ pile # <<>>
  BY DeckAssumption DEF DeckOK
<1>3. Head(pile) \in Card /\ Tail(pile) \in Seq(Card)
  BY <1>2
<1> QED BY <1>1, <1>3 DEF DeckOK, RecordDealtCard

\* A draw adds one card of the deck to the turn's own.
LEMMA DealExtends ==
  ASSUME DeckOK, DealNext(FALSE), Len(dealtThis) < MaxChain
  PROVE  /\ DeckOK'
         /\ currentCard' \in Card
         /\ dealtThis' = Append(dealtThis, currentCard')
         /\ dealtLast' = dealtLast
<1>1. PICK pile \in (IF cards # <<>> THEN {cards} ELSE Decks) :
        /\ currentCard' = Head(pile)
        /\ cards' = Tail(pile)
        /\ RecordDealtCard(Head(pile), FALSE)
  BY DEF DealNext
<1>2. pile \in Seq(Card) /\ pile # <<>>
  BY DeckAssumption DEF DeckOK
<1>3. Head(pile) \in Card /\ Tail(pile) \in Seq(Card)
  BY <1>2
<1> QED BY <1>1, <1>3 DEF DeckOK, RecordDealtCard

LEMMA KickoffDeals ==
  ASSUME DealKickoff
  PROVE  /\ DeckOK'
         /\ currentCard' \in Card
         /\ dealtThis' = <<currentCard'>>
         /\ dealtLast' = <<>>
<1>1. PICK deck \in Decks : /\ currentCard' = Head(deck)
                            /\ cards' = Tail(deck)
                            /\ dealtThis' = <<Head(deck)>>
                            /\ dealtLast' = <<>>
  BY DEF DealKickoff
<1>2. deck \in Seq(Card) /\ deck # <<>>
  BY DeckAssumption
<1>3. Head(deck) \in Card /\ Tail(deck) \in Seq(Card)
  BY <1>2
<1> QED BY <1>1, <1>3 DEF DeckOK

\* An undo of a logged turn puts that turn's opening card back in play.
LEMMA RestoreReopens ==
  ASSUME DeckOK, RestoreDeckForUndo, dealtLast # <<>>
  PROVE  /\ DeckOK'
         /\ currentCard' \in Card
         /\ dealtThis' = <<currentCard'>>
         /\ dealtLast' = <<>>
<1> DEFINE back == Tail(dealtLast) \o dealtThis \o cards
           n == IF Len(back) < MaxDeckSize THEN Len(back) ELSE MaxDeckSize
<1>1. /\ currentCard' = Head(dealtLast)
      /\ cards' = SubSeq(back, 1, n)
      /\ dealtThis' = <<Head(dealtLast)>>
      /\ dealtLast' = <<>>
  BY DEF RestoreDeckForUndo
<1>2. Tail(dealtLast) \in Seq(Card) /\ Head(dealtLast) \in Card
  BY DEF DeckOK
<1>3. back \in Seq(Card)
  BY <1>2, ConcatProperties DEF DeckOK
<1>4. n \in Nat /\ n <= Len(back)
  BY <1>3, BoundAssumption
<1>5. SubSeq(back, 1, n) \in Seq(Card)
  <2> HIDE DEF back, n
  <2>1. CASE n = 0
    BY <2>1, <1>3
  <2>2. CASE n # 0
    BY <2>2, <1>3, <1>4, SubSeqProperties
  <2> QED BY <2>1, <2>2
<1> QED BY <1>1, <1>2, <1>5 DEF DeckOK

-----------------------------------------------------------------------------
(***************************************************************************)
(* The table: types, seats and the deal log, in one inductive invariant    *)
(* (TableInv).  The log is needed for the types (the card a turn ends on   *)
(* is a card), the seats for both.                                         *)
(***************************************************************************)

\* One card on the table is a log that describes it.
LEMMA OneCardLog ==
  ASSUME currentCard' \in Card, dealtThis' = <<currentCard'>>
  PROVE  LogMatchesTable'
BY BoundAssumption DEF LogMatchesTable

\* The deck move of a push that leaves the game going keeps a good log good.
LEMMA SettleKeepsLog ==
  ASSUME TableInv, Playing, SettleDeck(FALSE), phase' = "playing", ruleset' = ruleset
  PROVE  DeckOK' /\ currentCard' \in Card /\ LogMatchesTable'
<1>1. DeckOK /\ currentCard \in Card
  BY DEF TableInv, TypeOK, LogMatchesTable, DeckOK
<1>2. \/ RestoreDeckForUndo
      \/ DealNext(TRUE)
      \/ UNCHANGED table
  BY DEF SettleDeck
<1>3. CASE RestoreDeckForUndo /\ dealtLast # <<>>
  BY <1>1, <1>3, RestoreReopens, OneCardLog
<1>4. CASE DealNext(TRUE)
  BY <1>1, <1>4, DealOpens, OneCardLog
<1>5. CASE UNCHANGED table
  BY <1>1, <1>5 DEF DeckOK, TableInv, LogMatchesTable, Playing, table
<1>6. CASE RestoreDeckForUndo /\ dealtLast = <<>>
  BY <1>5, <1>6 DEF RestoreDeckForUndo
<1> QED BY <1>2, <1>3, <1>4, <1>5, <1>6

\* A push back to the lobby leaves no card behind; one that ends the game
\* leaves the table as it is.
LEMMA SettleOutsidePlay ==
  ASSUME SettleDeck(FALSE)
  PROVE  /\ phase' = "lobby" => ClearDeck
         /\ phase' = "finished" => UNCHANGED table
BY DEF SettleDeck, SeatMoved

LEMMA TableInit == Init => TableInv
<1> SUFFICES ASSUME Init PROVE TableInv
  OBVIOUS
<1>1. TypeOK
  BY DEF Init, TypeOK, Phases, Rulesets, NoTurn, NoReceipt, NoLive, NoDraw, NoSeat
<1>2. TurnIsSeated
  BY DEF Init, TurnIsSeated, Playing, IsInjective
<1>3. LogMatchesTable
  BY DEF Init, LogMatchesTable, Playing
<1> QED BY <1>1, <1>2, <1>3 DEF TableInv

\* A game cannot be joined twice by one device.
LEMMA TableJoin ==
  ASSUME TableInv, NEW p \in Player, Join(p)
  PROVE  TableInv'
<1>1. players \in Seq(Player) /\ players' = Append(players, p)
  BY DEF TableInv, TypeOK, Join
<1>2. /\ players' \in Seq(Player)
      /\ Len(players') = Len(players) + 1
      /\ \A i \in 1..Len(players) : players'[i] = players[i]
      /\ players'[Len(players) + 1] = p
  BY <1>1, AppendProperties
<1>3. \A i \in 1..Len(players) : players[i] # p
  BY DEF Join, Contains
<1>4. IsInjective(players')
  BY <1>1, <1>2, <1>3 DEF IsInjective, TableInv, TurnIsSeated
<1>5. TypeOK'
  BY <1>2 DEF TableInv, TypeOK, Join, table
<1>6. TurnIsSeated'
  BY <1>4 DEF TableInv, TurnIsSeated, Join, Playing
<1>7. LogMatchesTable'
  BY DEF LogMatchesTable, Join, Playing
<1> QED BY <1>5, <1>6, <1>7 DEF TableInv

LEMMA TableReorder ==
  ASSUME TableInv, Reorder
  PROVE  TableInv'
<1>1. players' \in Seq(Player) /\ IsInjective(players')
  BY OrdersLemma DEF TableInv, TypeOK, Reorder
<1>2. TypeOK'
  BY <1>1 DEF TableInv, TypeOK, Reorder, table
<1> QED BY <1>1, <1>2 DEF TableInv, TurnIsSeated, LogMatchesTable, Reorder, Playing

LEMMA TableConfig ==
  ASSUME TableInv, UpdateConfig
  PROVE  TableInv'
<1>1. TypeOK'
  BY DEF TableInv, TypeOK, UpdateConfig, table
<1> QED BY <1>1 DEF TableInv, TurnIsSeated, LogMatchesTable, UpdateConfig, Playing

LEMMA TableStart ==
  ASSUME TableInv, Start
  PROVE  TableInv'
<1>1. players' \in Seq(Player) /\ Len(players') = Len(players) /\ IsInjective(players')
  BY OrdersLemma DEF TableInv, TypeOK, Start
<1>2. DealKickoff
  BY DEF Start, SettleDeck
<1>3. DeckOK' /\ currentCard' \in Card /\ LogMatchesTable'
  BY <1>2, KickoffDeals, OneCardLog
<1>4. TypeOK'
  BY <1>1, <1>3, NewTokenLemma DEF TableInv, TypeOK, Start, DeckOK, Phases, NoTurn, NoLive
<1>5. TurnIsSeated'
  <2>1. Len(players) >= 2 /\ turn' = 1 /\ phase' = "playing"
    BY DEF Start
  <2>2. 1 \in DOMAIN players'
    BY <1>1, <2>1
  <2> QED BY <1>1, <2>1, <2>2 DEF TurnIsSeated, Playing
<1> QED BY <1>3, <1>4, <1>5 DEF TableInv

LEMMA TableReset ==
  ASSUME TableInv, Reset
  PROVE  TableInv'
<1>1. ClearDeck
  BY SettleOutsidePlay DEF Reset
<1>2. TypeOK'
  BY <1>1, NewTokenLemma DEF TableInv, TypeOK, Reset, ClearDeck, Phases, NoTurn, NoLive, NoSeat
<1> QED BY <1>2 DEF TableInv, TurnIsSeated, LogMatchesTable, Reset, Playing

\* The record of a turn that ends is about a card of the deck and a seat.
LEMMA EndTurnTypes ==
  ASSUME TableInv, Playing, EndTurn
  PROVE  /\ turns' \in [Player -> Nat]
         /\ prev' \in [card : Card \cup {None}, player : Player \cup {None}, chain : Seq(Card)]
         /\ prev'.card = currentCard /\ prev'.card # None
         /\ live' \in [by : Player \cup {None}, chain : Seq(Card)]
<1>1. currentCard \in Card /\ currentCard # None
  BY NullAssumption DEF TableInv, TypeOK, LogMatchesTable
<1>2. Active \in Player
  BY DEF TableInv, TypeOK, TurnIsSeated, Active
<1>3. dealtThis \in Seq(Card) /\ <<>> \in Seq(Card)
  BY DEF TableInv, TypeOK
<1>4. turns' \in [Player -> Nat]
  BY <1>2 DEF EndTurn, TableInv, TypeOK
<1>5. live' \in [by : Player \cup {None}, chain : Seq(Card)]
  BY <1>3 DEF EndTurn, NoLive
<1> QED BY <1>1, <1>2, <1>3, <1>4, <1>5 DEF EndTurn

\* Whoever the turn passes to holds a seat.
LEMMA PassTurnSeats ==
  ASSUME TableInv, Playing, PassTurn
  PROVE  /\ turn' \in Nat /\ turn' \in DOMAIN players /\ turn' # turn
         /\ round' \in Nat \ {0}
         /\ phase' = "playing"
<1>1. turn \in 1..Len(players) /\ Len(players) \in Nat /\ Len(players) >= 2
  BY SMTT(30) DEF TableInv, TypeOK, TurnIsSeated
<1>2. turn' = IF turn = Len(players) THEN 1 ELSE turn + 1
  BY DEF PassTurn, SeatAfter
<1>3. round' \in Nat \ {0}
  BY DEF PassTurn, TableInv, TypeOK
<1>4. turn' \in 1..Len(players) /\ turn' # turn
  BY <1>1, <1>2
<1>5. phase' = "playing"
  BY DEF PassTurn, Playing
<1>6. DOMAIN players = 1..Len(players)
  BY DEF TableInv, TypeOK
<1> QED BY <1>1, <1>3, <1>4, <1>5, <1>6

LEMMA TableCommit ==
  ASSUME TableInv, Commit
  PROVE  TableInv'
<1>1. Playing /\ EndTurn /\ SettleDeck(FALSE) /\ NewToken
      /\ UNCHANGED <<players, ruleset, receipt, draws>>
  BY DEF Commit
<1>2. CASE phase' = "finished" /\ turn' = NoSeat /\ round' = round
  <2>1. UNCHANGED table
    BY <1>1, <1>2, SettleOutsidePlay
  <2>2. TypeOK'
    BY <1>1, <1>2, <2>1, EndTurnTypes, NewTokenLemma DEF TableInv, TypeOK, table, Phases, NoSeat
  <2> QED BY <1>1, <1>2, <2>2 DEF TableInv, TurnIsSeated, LogMatchesTable, Playing
<1>3. CASE PassTurn
  <2>1. DeckOK' /\ currentCard' \in Card /\ LogMatchesTable'
    BY <1>1, <1>3, PassTurnSeats, SettleKeepsLog
  <2>2. turn' \in Nat /\ turn' \in DOMAIN players /\ round' \in Nat \ {0} /\ phase' = "playing"
    BY <1>1, <1>3, PassTurnSeats
  <2>3. TypeOK'
    BY <1>1, <2>1, <2>2, EndTurnTypes, NewTokenLemma DEF TableInv, TypeOK, DeckOK, Phases
  <2>4. TurnIsSeated'
    BY <1>1, <2>2 DEF TableInv, TurnIsSeated, Playing
  <2> QED BY <2>1, <2>3, <2>4 DEF TableInv
<1> QED BY <1>2, <1>3 DEF Commit, FinishRound

\* The player an undo names holds a seat.
LEMMA SeatOfLemma ==
  ASSUME TableInv, NEW p, Contains(players, p)
  PROVE  SeatOf(p) \in DOMAIN players /\ players[SeatOf(p)] = p
<1>1. \E i \in 1..Len(players) : players[i] = p
  BY DEF Contains
<1>2. SeatOf(p) \in 1..Len(players) /\ players[SeatOf(p)] = p
  BY <1>1 DEF SeatOf
<1> QED BY <1>2 DEF TableInv, TypeOK

LEMMA TableUndo ==
  ASSUME TableInv, Undo
  PROVE  TableInv'
<1>1. /\ CanUndo /\ Playing /\ SettleDeck(FALSE) /\ NewToken
      /\ UNCHANGED <<players, ruleset, receipt, draws>>
      /\ UNCHANGED phase
  BY DEF Undo, CanUndo
<1>2. phase' = "playing"
  BY <1>1 DEF Playing
<1>3. SeatOf(prev.player) \in DOMAIN players
  BY <1>1, SeatOfLemma DEF CanUndo
<1>4. DeckOK' /\ currentCard' \in Card /\ LogMatchesTable'
  BY <1>1, <1>2, SettleKeepsLog
<1>5. round' \in Nat \ {0}
  BY <1>1 DEF Undo, CanUndo, TableInv, TypeOK
<1>6. turns' \in [Player -> Nat]
  <2>1. turns \in [Player -> Nat] /\ prev.player \in Player
    BY <1>1, SeatOfLemma DEF CanUndo, TableInv, TypeOK
  <2>2. (IF turns[prev.player] > 0 THEN turns[prev.player] - 1 ELSE 0) \in Nat
    BY <2>1
  <2> QED BY <2>1, <2>2 DEF Undo
<1>7. turn' \in Nat /\ turn' \in DOMAIN players
  BY <1>3 DEF Undo, TableInv, TypeOK
<1>8. TypeOK'
  BY SMTT(30), <1>1, <1>4, <1>5, <1>6, <1>7, NewTokenLemma DEF Undo, TableInv, TypeOK, DeckOK, NoTurn, NoLive
<1>9. TurnIsSeated'
  BY <1>1, <1>2, <1>7 DEF TableInv, TurnIsSeated, Playing
<1> QED BY <1>4, <1>8, <1>9 DEF TableInv

LEMMA TableIssue ==
  ASSUME TableInv, NEW d \in DrawId, IssueDraw(d) \/ ForgetDraw(d) \/ ReplayDraw(d)
  PROVE  TableInv'
<1>1. /\ UNCHANGED <<players, phase, turn, round, ruleset, table, prev, token, receipt, live, turns>>
  BY DEF IssueDraw, ForgetDraw, ReplayDraw
<1>2. Playing => Active \in Player
  BY DEF TableInv, TypeOK, TurnIsSeated, Active
<1>3. draws' \in [DrawId -> [by : Player \cup {None}, base : Token \cup {None},
                           dealt : Nat, answers : SUBSET (Card \cup {None})]]
  <2>1. CASE IssueDraw(d)
    BY <2>1, <1>2 DEF IssueDraw, NoDraw, TableInv, TypeOK
  <2>2. CASE ForgetDraw(d)
    BY <2>2 DEF ForgetDraw, NoDraw, TableInv, TypeOK
  <2>3. CASE ReplayDraw(d)
    BY ZenonT(40), <2>3 DEF ReplayDraw, TableInv, TypeOK
  <2> QED BY <2>1, <2>2, <2>3
<1>4. TypeOK'
  BY <1>1, <1>3 DEF TableInv, TypeOK, table
<1> QED BY <1>1, <1>4 DEF TableInv, TurnIsSeated, LogMatchesTable, Playing, table

LEMMA TableDraw ==
  ASSUME TableInv, NEW d \in DrawId, DrawCard(d)
  PROVE  TableInv'
<1>1. /\ Playing /\ MayDraw(d) /\ DealNext(FALSE) /\ NewToken
      /\ UNCHANGED <<players, phase, turn, round, ruleset, prev, live, turns>>
  BY DEF DrawCard
<1>2. DeckOK /\ Len(dealtThis) < MaxChain
  BY <1>1 DEF MayDraw, TableInv, TypeOK, DeckOK
<1>3. /\ DeckOK' /\ currentCard' \in Card
      /\ dealtThis' = Append(dealtThis, currentCard')
  BY <1>1, <1>2, DealExtends
<1>4. Active \in Player
  BY <1>1 DEF TableInv, TypeOK, TurnIsSeated, Active
<1>5. receipt' \in [drawId : DrawId \cup {None}, device : Player \cup {None},
                   base : Token \cup {None}, card : Card \cup {None}, token : Token \cup {None}]
  BY <1>1, <1>3, <1>4, NewTokenLemma DEF DrawCard, TableInv, TypeOK
<1>6. draws' \in [DrawId -> [by : Player \cup {None}, base : Token \cup {None},
                           dealt : Nat, answers : SUBSET (Card \cup {None})]]
  <2>1. draws \in [DrawId -> [by : Player \cup {None}, base : Token \cup {None},
                            dealt : Nat, answers : SUBSET (Card \cup {None})]]
    BY DEF TableInv, TypeOK
  <2>2. draws[d].dealt + 1 \in Nat
    BY <2>1
  <2>3. draws[d].answers \cup {currentCard'} \in SUBSET (Card \cup {None})
    BY <1>3, <2>1
  <2> QED BY <2>1, <2>2, <2>3 DEF DrawCard
<1>7. TypeOK'
  BY <1>1, <1>3, <1>5, <1>6, NewTokenLemma DEF TableInv, TypeOK, DeckOK
<1>8. TurnIsSeated'
  BY <1>1 DEF TableInv, TurnIsSeated, Playing
<1>9. LogMatchesTable'
  <2>1. dealtThis \in Seq(Card) /\ dealtThis # <<>> /\ currentCard = dealtThis[Len(dealtThis)]
    BY <1>1 DEF TableInv, TypeOK, LogMatchesTable
  <2>2. /\ Len(dealtThis') = Len(dealtThis) + 1
        /\ \A k \in 1..Len(dealtThis) : dealtThis'[k] = dealtThis[k]
        /\ dealtThis'[Len(dealtThis) + 1] = currentCard'
    BY <1>3, <2>1, AppendProperties
  <2>3. \A k \in 1..Len(dealtThis) : dealtThis[k] \notin TurnEnders
    BY <1>1, <2>1 DEF TableInv, LogMatchesTable, MayDraw
  <2>4. ruleset' # "modernized" /\ Len(dealtThis') <= MaxChain
    BY <1>1, <1>2, <2>1, <2>2, BoundAssumption DEF MayDraw
  <2> QED BY <2>1, <2>2, <2>3, <2>4 DEF LogMatchesTable
<1> QED BY <1>7, <1>8, <1>9 DEF TableInv

LEMMA TableLive ==
  ASSUME TableInv, LiveTurnState
  PROVE  TableInv'
<1>1. live' \in [by : Player \cup {None}, chain : Seq(Card)]
  <2>1. CASE live' = NoLive
    BY <2>1 DEF NoLive
  <2>2. CASE \E k \in {Len(dealtThis) - 1, Len(dealtThis)} \ {0} :
               live' = [by |-> Active, chain |-> SubSeq(dealtThis, 1, k)]
    <3>1. Active \in Player /\ dealtThis \in Seq(Card) /\ dealtThis # <<>>
      BY DEF LiveTurnState, TableInv, TypeOK, TurnIsSeated, LogMatchesTable, Active
    <3>2. \A k \in {Len(dealtThis) - 1, Len(dealtThis)} \ {0} : SubSeq(dealtThis, 1, k) \in Seq(Card)
      BY <3>1
    <3> QED BY <2>2, <3>1, <3>2
  <2> QED BY <2>1, <2>2 DEF LiveTurnState
<1>2. TypeOK'
  BY <1>1 DEF LiveTurnState, TableInv, TypeOK, table
<1> QED BY <1>2 DEF TableInv, TurnIsSeated, LogMatchesTable, LiveTurnState, Playing, table

LEMMA TableTimeout ==
  ASSUME TableInv, Timeout
  PROVE  TableInv'
<1>1. /\ Playing /\ EndTurn /\ NewToken
      /\ UNCHANGED <<players, ruleset, receipt, draws>>
  BY DEF Timeout
<1>2. CASE /\ phase' = "finished" /\ turn' = NoSeat /\ round' = round
           /\ currentCard' = None
           /\ UNCHANGED <<cards, dealtThis, dealtLast>>
  <2>1. TypeOK'
    BY <1>1, <1>2, EndTurnTypes, NewTokenLemma DEF TableInv, TypeOK, Phases, NoSeat
  <2> QED BY <1>1, <1>2, <2>1 DEF TableInv, TurnIsSeated, LogMatchesTable, Playing
<1>3. CASE PassTurn /\ DealNext(TRUE)
  <2>1. DeckOK
    BY DEF TableInv, TypeOK, DeckOK
  <2>2. DeckOK' /\ currentCard' \in Card /\ LogMatchesTable'
    BY <1>3, <2>1, DealOpens, OneCardLog
  <2>3. turn' \in Nat /\ turn' \in DOMAIN players /\ round' \in Nat \ {0} /\ phase' = "playing"
    BY <1>1, <1>3, PassTurnSeats
  <2>4. TypeOK'
    BY <1>1, <2>2, <2>3, EndTurnTypes, NewTokenLemma DEF TableInv, TypeOK, DeckOK, Phases
  <2>5. TurnIsSeated'
    BY <1>1, <2>3 DEF TableInv, TurnIsSeated, Playing
  <2> QED BY <2>2, <2>4, <2>5 DEF TableInv
<1> QED BY <1>2, <1>3 DEF Timeout, FinishRound

\* The roster that a removal leaves.
LEMMA RemainingSeats ==
  ASSUME TableInv, NEW i \in DOMAIN players, RemoveSeat(i)
  PROVE  /\ i \in 1..Len(players) /\ Len(players) \in Nat
         /\ players' \in Seq(Player)
         /\ Len(players') = Len(players) - 1
         /\ \A j \in 1..(Len(players) - 1) :
              players'[j] = IF j < i THEN players[j] ELSE players[j + 1]
         /\ IsInjective(players')
<1>1. players \in Seq(Player) /\ i \in 1..Len(players) /\ IsInjective(players)
  <2>1. players \in Seq(Player)
    BY DEF TableInv, TypeOK
  <2>2. i \in 1..Len(players)
    BY <2>1
  <2>3. IsInjective(players)
    BY DEF TableInv, TurnIsSeated
  <2> QED BY <2>1, <2>2, <2>3
<1>2. players' = RemoveAt(players, i)
  BY DEF RemoveSeat
<1>3. /\ RemoveAt(players, i) \in Seq(Player)
      /\ Len(RemoveAt(players, i)) = Len(players) - 1
      /\ \A j \in 1..(Len(players) - 1) :
           RemoveAt(players, i)[j] = IF j < i THEN players[j] ELSE players[j + 1]
  BY <1>1, RemoveAtLemma
<1>4. IsInjective(RemoveAt(players, i))
  BY <1>1, RemoveAtInjective
<1>5. Len(players) \in Nat
  BY <1>1
<1> QED BY <1>1, <1>2, <1>3, <1>4, <1>5

\* A receipt that is kept is a receipt.
LEMMA ReceiptTypes ==
  ASSUME TableInv, NEW i, ReceiptAfterRemoval(i), NewToken
  PROVE  receipt' \in [drawId : DrawId \cup {None}, device : Player \cup {None},
                      base : Token \cup {None}, card : Card \cup {None}, token : Token \cup {None}]
BY NewTokenLemma DEF ReceiptAfterRemoval, TableInv, TypeOK

LEMMA TableRemoveAside ==
  ASSUME TableInv, NEW i \in DOMAIN players, RemoveSeat(i), RemoveAside(i),
         ~Playing \/ Len(players) > 2
  PROVE  TableInv'
<1>1. NewToken /\ draws' = draws
  BY DEF RemoveSeat
<1>2. turn' \in Nat /\ (~Playing => turn' = NoSeat)
      /\ (Playing => turn' \in 1..Len(players'))
  <2>1. turn' = (IF turn # NoSeat /\ i < turn THEN turn - 1 ELSE turn) /\ i # turn
    BY DEF RemoveAside
  <2>2. /\ i \in 1..Len(players) /\ Len(players) \in Nat
        /\ Len(players') = Len(players) - 1
    BY RemainingSeats
  <2>3. /\ turn \in Nat /\ (~Playing => turn = 0)
        /\ (Playing => turn \in 1..Len(players))
    BY DEF TableInv, TypeOK, TurnIsSeated, NoSeat
  <2> QED BY <2>1, <2>2, <2>3 DEF NoSeat
<1>3. TypeOK'
  BY <1>1, <1>2, RemainingSeats, NewTokenLemma, ReceiptTypes
     DEF RemoveAside, TableInv, TypeOK, table
<1>4. TurnIsSeated'
  <2>1. DOMAIN players' = 1..Len(players')
    BY RemainingSeats
  <2> QED BY <1>2, <2>1, RemainingSeats DEF TableInv, TurnIsSeated, RemoveAside, Playing
<1>5. LogMatchesTable'
  BY DEF TableInv, LogMatchesTable, RemoveAside, Playing, table
<1> QED BY <1>3, <1>4, <1>5 DEF TableInv

LEMMA TableRemoveActive ==
  ASSUME TableInv, NEW i \in DOMAIN players, RemoveSeat(i), RemoveActive(i), Playing,
         Len(players) > 2 \/ phase' = "finished"
  PROVE  TableInv'
<1>1. /\ NewToken /\ draws' = draws /\ i = turn /\ ReceiptAfterRemoval(i)
      /\ prev' = NoTurn /\ live' = NoLive /\ UNCHANGED <<ruleset, turns>>
  BY DEF RemoveSeat, RemoveActive
<1>2. /\ prev' \in [card : Card \cup {None}, player : Player \cup {None}, chain : Seq(Card)]
      /\ live' \in [by : Player \cup {None}, chain : Seq(Card)]
  BY <1>1 DEF NoTurn, NoLive
<1>3. CASE /\ phase' = "finished" /\ turn' = NoSeat /\ round' = round
           /\ currentCard' = None
           /\ UNCHANGED <<cards, dealtThis, dealtLast>>
  <2>1. TypeOK'
    BY <1>1, <1>2, <1>3, RemainingSeats, NewTokenLemma, ReceiptTypes
       DEF TableInv, TypeOK, Phases, NoSeat
  <2> QED BY <1>3, <2>1, RemainingSeats DEF TableInv, TurnIsSeated, LogMatchesTable, Playing
<1>4. CASE /\ phase' = phase
           /\ turn' = IF LastSeat THEN 1 ELSE turn
           /\ round' = IF LastSeat THEN round + 1 ELSE round
           /\ DealNext(TRUE)
  <2>1. DeckOK
    BY DEF TableInv, TypeOK, DeckOK
  <2>2. DeckOK' /\ currentCard' \in Card /\ LogMatchesTable'
    BY <1>4, <2>1, DealOpens, OneCardLog
  <2>3. phase = "playing" /\ Len(players) > 2
    BY <1>4 DEF Playing
  <2>4. turn' \in Nat /\ turn' \in 1..Len(players') /\ Len(players') >= 2
    BY <1>1, <1>4, <2>3, RemainingSeats DEF LastSeat
  <2>5. round' \in Nat \ {0}
    BY <1>4 DEF TableInv, TypeOK
  <2>6. TypeOK'
    BY <1>1, <1>2, <1>4, <2>2, <2>4, <2>5, RemainingSeats, NewTokenLemma, ReceiptTypes
       DEF TableInv, TypeOK, DeckOK
  <2>7. TurnIsSeated'
    BY <1>4, <2>3, <2>4, RemainingSeats DEF TurnIsSeated, Playing
  <2> QED BY <2>2, <2>6, <2>7 DEF TableInv
<1> QED BY <1>3, <1>4 DEF RemoveActive, FinishRound

LEMMA TableRemoveAborts ==
  ASSUME TableInv, NEW i \in DOMAIN players, RemoveSeat(i), RemoveAborts(i)
  PROVE  TableInv'
<1>1. NewToken /\ draws' = draws
  BY DEF RemoveSeat
<1>2. TypeOK'
  BY <1>1, RemainingSeats, NewTokenLemma
     DEF RemoveAborts, TableInv, TypeOK, ClearDeck, Phases, NoSeat, NoTurn, NoLive, NoReceipt
<1> QED BY <1>2, RemainingSeats
     DEF RemoveAborts, TableInv, TurnIsSeated, LogMatchesTable, Playing

LEMMA TableRoomDeleted ==
  ASSUME TableInv, NEW i \in DOMAIN players, RemoveSeat(i), RoomDeleted
  PROVE  TableInv'
<1>1. NewToken /\ draws' = draws
  BY DEF RemoveSeat
<1>2. TypeOK'
  BY <1>1, RemainingSeats, NewTokenLemma
     DEF RoomDeleted, TableInv, TypeOK, ClearDeck, Phases, Rulesets, NoSeat, NoTurn, NoLive, NoReceipt
<1> QED BY <1>2, RemainingSeats
     DEF RoomDeleted, TableInv, TurnIsSeated, LogMatchesTable, Playing

LEMMA TableRemove ==
  ASSUME TableInv, NEW i \in DOMAIN players, RemoveSeat(i)
  PROVE  TableInv'
BY TableRemoveAside, TableRemoveActive, TableRemoveAborts, TableRoomDeleted DEF RemoveSeat

LEMMA TableStutter == TableInv /\ UNCHANGED vars => TableInv'
BY DEF vars, table, TableInv, TypeOK, TurnIsSeated, LogMatchesTable, Playing

LEMMA TableNext == TableInv /\ [Next]_vars => TableInv'
<1> SUFFICES ASSUME TableInv, [Next]_vars PROVE TableInv'
  OBVIOUS
<1>1. ASSUME NEW p \in Player, Join(p) PROVE TableInv'
  BY <1>1, TableJoin
<1>2. CASE Reorder
  BY <1>2, TableReorder
<1>3. CASE UpdateConfig
  BY <1>3, TableConfig
<1>4. CASE Start
  BY <1>4, TableStart
<1>5. CASE Reset
  BY <1>5, TableReset
<1>6. CASE Commit
  BY <1>6, TableCommit
<1>7. CASE Undo
  BY <1>7, TableUndo
<1>8. ASSUME NEW d \in DrawId, IssueDraw(d) \/ ForgetDraw(d) \/ DrawCard(d) \/ ReplayDraw(d)
      PROVE  TableInv'
  BY <1>8, TableIssue, TableDraw
<1>9. CASE LiveTurnState
  BY <1>9, TableLive
<1>10. CASE Timeout
  BY <1>10, TableTimeout
<1>11. ASSUME NEW i \in DOMAIN players, RemoveSeat(i) PROVE TableInv'
  BY <1>11, TableRemove
<1>12. CASE UNCHANGED vars
  BY <1>12, TableStutter
<1> QED BY <1>1, <1>2, <1>3, <1>4, <1>5, <1>6, <1>7, <1>8, <1>9, <1>10, <1>11, <1>12 DEF Next

\* The table's invariant holds in every reachable state.
THEOREM TableIsSound == Spec => []TableInv
BY TableInit, TableNext, PTL DEF Spec

\* Every field of the room always holds a value of its kind, whatever the
\* players, cards, decks and bounds are.
THEOREM TypeCorrect == Spec => []TypeOK
<1>1. TableInv => TypeOK
  BY DEF TableInv
<1> QED BY <1>1, TableIsSound, PTL

\* While a game is on there is a seat to play and at least two seats, and no
\* device ever holds two: the roster surgery of removals is right.
THEOREM TurnAlwaysSeated == Spec => []TurnIsSeated
<1>1. TableInv => TurnIsSeated
  BY DEF TableInv
<1> QED BY <1>1, TableIsSound, PTL

\* The deal log an undo works from always describes the turn in progress.
THEOREM LogAlwaysMatches == Spec => []LogMatchesTable
<1>1. TableInv => LogMatchesTable
  BY DEF TableInv
<1> QED BY <1>1, TableIsSound, PTL

-----------------------------------------------------------------------------
(***************************************************************************)
(* A draw request is answered once, however often it arrives.  The         *)
(* argument is about tokens: a request deals only while its base is the    *)
(* room's token, and dealing replaces the token by one nothing names, so   *)
(* the same request never deals again; a copy is answered only while the   *)
(* receipt carries the room's token, which every step but the removal of a *)
(* bystander ends.                                                         *)
(***************************************************************************)

\* The strengthening: the requests that were dealt a card no longer name the
\* room's token, and the receipt that counts agrees with its request.
DrawInv ==
  /\ ReceiptNamesCardInPlay
  /\ \A d \in DrawId : draws[d].dealt = 0 => draws[d].answers = {}
  /\ \A d \in DrawId : draws[d].dealt # 0 => draws[d].base # token
  /\ \A d \in DrawId : draws[d].dealt <= 1
  /\ \A d \in DrawId : \A a, b \in draws[d].answers : a = b
  /\ receipt.token = token =>
       /\ receipt.drawId \in DrawId
       /\ draws[receipt.drawId].dealt = 1
       /\ draws[receipt.drawId].answers = {receipt.card}

LEMMA DrawInit == Init => DrawInv
BY NullAssumption DEF Init, DrawInv, ReceiptNamesCardInPlay, NoReceipt, NoDraw

\* A step that takes a new token and leaves the receipt and the requests alone
\* only makes them older.
LEMMA NewTokenAgesAll ==
  ASSUME DrawInv, NewToken, receipt' = receipt, draws' = draws
  PROVE  DrawInv'
<1>1. receipt'.token # token'
  BY NewTokenLemma
<1>2. \A d \in DrawId : draws'[d].base # token'
  BY NewTokenLemma
<1> QED BY <1>1, <1>2 DEF DrawInv, ReceiptNamesCardInPlay

\* So does one that takes a new token and drops the receipt.
LEMMA NewTokenNoReceipt ==
  ASSUME DrawInv, NewToken, receipt' = NoReceipt, draws' = draws
  PROVE  DrawInv'
<1>1. receipt'.token # token'
  BY NewTokenLemma, NullAssumption DEF NoReceipt
<1>2. \A d \in DrawId : draws'[d].base # token'
  BY NewTokenLemma
<1> QED BY <1>1, <1>2 DEF DrawInv, ReceiptNamesCardInPlay

\* Outside play no receipt counts, so the lobby may do what it likes.
LEMMA LobbyKeepsDraws ==
  ASSUME DrawInv, phase = "lobby", UNCHANGED <<token, receipt, draws>>
  PROVE  DrawInv'
<1>1. receipt.token # token
  BY DEF DrawInv, ReceiptNamesCardInPlay, Playing
<1> QED BY <1>1 DEF DrawInv, ReceiptNamesCardInPlay

LEMMA DrawIssue ==
  ASSUME TableInv, DrawInv, NEW d \in DrawId, IssueDraw(d)
  PROVE  DrawInv'
<1>1. draws[d] = NoDraw
  BY DEF IssueDraw
<1>2. draws' = [draws EXCEPT ![d] = [NoDraw EXCEPT !.by = Active, !.base = token]]
  BY DEF IssueDraw
<1>3. draws'[d].dealt = 0 /\ draws'[d].answers = {}
  BY <1>2 DEF NoDraw, TableInv, TypeOK
<1>4. \A e \in DrawId \ {d} : draws'[e] = draws[e]
  BY <1>2 DEF TableInv, TypeOK
<1>5. receipt.token = token => receipt.drawId # d
  BY <1>1 DEF DrawInv, NoDraw
<1>6. ReceiptNamesCardInPlay'
  BY DEF IssueDraw, DrawInv, ReceiptNamesCardInPlay, Playing, Active, table
<1>7. token' = token /\ receipt' = receipt
  BY DEF IssueDraw
<1> QED BY <1>3, <1>4, <1>5, <1>6, <1>7 DEF DrawInv

LEMMA DrawForget ==
  ASSUME TableInv, DrawInv, NEW d \in DrawId, ForgetDraw(d)
  PROVE  DrawInv'
<1>1. draws' = [draws EXCEPT ![d] = NoDraw]
  BY DEF ForgetDraw
<1>2. draws'[d].dealt = 0 /\ draws'[d].answers = {}
  BY <1>1 DEF NoDraw, TableInv, TypeOK
<1>3. \A e \in DrawId \ {d} : draws'[e] = draws[e]
  BY <1>1 DEF TableInv, TypeOK
<1>4. receipt.token = token => receipt.drawId # d
  BY DEF ForgetDraw
<1>5. ReceiptNamesCardInPlay'
  BY DEF ForgetDraw, DrawInv, ReceiptNamesCardInPlay, Playing, Active, table
<1>6. token' = token /\ receipt' = receipt
  BY DEF ForgetDraw
<1> QED BY <1>2, <1>3, <1>4, <1>5, <1>6 DEF DrawInv

\* The deal itself: it happens to a request that was never dealt a card.
LEMMA DrawDeals ==
  ASSUME TableInv, DrawInv, NEW d \in DrawId, DrawCard(d)
  PROVE  DrawInv'
<1>1. /\ Playing /\ draws[d].base = token /\ DealNext(FALSE) /\ NewToken
      /\ Len(dealtThis) < MaxChain
      /\ UNCHANGED <<players, phase, turn>>
  BY DEF DrawCard, MayDraw
<1>2. draws[d].dealt = 0 /\ draws[d].answers = {}
  BY <1>1 DEF DrawInv
<1>3. draws' = [draws EXCEPT ![d].dealt = @ + 1, ![d].answers = @ \cup {currentCard'}]
  BY DEF DrawCard
<1>4. /\ draws'[d].dealt = 1 /\ draws'[d].answers = {currentCard'}
      /\ draws'[d].base = draws[d].base
  BY <1>2, <1>3 DEF TableInv, TypeOK
<1>5. \A e \in DrawId \ {d} : draws'[e] = draws[e]
  BY <1>3 DEF TableInv, TypeOK
<1>6. \A e \in DrawId : draws'[e].base # token'
  BY <1>1, <1>4, <1>5, NewTokenLemma
<1>7. receipt' = [drawId |-> d, device |-> Active, base |-> draws[d].base,
                  card |-> currentCard', token |-> token']
  BY DEF DrawCard
<1>8. dealtThis' = Append(dealtThis, currentCard') /\ Len(dealtThis) \in Nat \ {0}
      /\ dealtThis \in Seq(Card)
  BY <1>1, DealExtends DEF TableInv, TypeOK, LogMatchesTable, DeckOK
<1>9. Len(dealtThis') > 1
  BY <1>8, AppendProperties
<1>10. ReceiptNamesCardInPlay'
  BY <1>1, <1>7, <1>9 DEF ReceiptNamesCardInPlay, Playing, Active
<1> QED BY <1>4, <1>5, <1>6, <1>7, <1>10 DEF DrawInv

\* A copy of the request gets the answer the request got.
LEMMA DrawReplays ==
  ASSUME TableInv, DrawInv, NEW d \in DrawId, ReplayDraw(d)
  PROVE  DrawInv'
<1>1. receipt.token = token /\ receipt.drawId = d
  BY DEF ReplayDraw, IsReplay
<1>2. draws[d].answers = {receipt.card}
  BY <1>1 DEF DrawInv
<1>3. draws' = [draws EXCEPT ![d].answers = @ \cup {receipt.card}]
  BY DEF ReplayDraw
<1>4. /\ draws'[d].answers = draws[d].answers /\ draws'[d].dealt = draws[d].dealt
      /\ draws'[d].base = draws[d].base
  BY <1>2, <1>3 DEF TableInv, TypeOK
<1>5. \A e \in DrawId \ {d} : draws'[e] = draws[e]
  BY <1>3 DEF TableInv, TypeOK
<1>6. ReceiptNamesCardInPlay'
  BY DEF ReplayDraw, DrawInv, ReceiptNamesCardInPlay, Playing, Active, table
<1>7. token' = token /\ receipt' = receipt
  BY DEF ReplayDraw
<1> QED BY <1>4, <1>5, <1>6, <1>7 DEF DrawInv

\* The bystander's removal: the receipt moves to the new token, and it still
\* names the active player, whose seat may have moved up.
LEMMA DrawBystander ==
  ASSUME TableInv, DrawInv, NEW i \in DOMAIN players, RemoveSeat(i), RemoveAside(i)
  PROVE  DrawInv'
<1>1. NewToken /\ draws' = draws
  BY DEF RemoveSeat
<1>2. CASE receipt' = receipt
  BY <1>1, <1>2, NewTokenAgesAll
<1>3. CASE /\ turn # NoSeat /\ i # turn /\ receipt.token = token
           /\ receipt' = [receipt EXCEPT !.token = token']
  <2>1. /\ Playing /\ receipt.device = Active /\ receipt.card = currentCard
        /\ Len(dealtThis) > 1
    BY <1>3 DEF DrawInv, ReceiptNamesCardInPlay
  <2>2. /\ receipt'.token = token' /\ receipt'.device = receipt.device
        /\ receipt'.card = receipt.card /\ receipt'.drawId = receipt.drawId
    BY <1>3 DEF TableInv, TypeOK
  <2>3. players'[turn'] = players[turn]
    <3>1. turn' = IF i < turn THEN turn - 1 ELSE turn
      BY <1>3 DEF RemoveAside
    <3>2. turn \in 1..Len(players) /\ i \in 1..Len(players) /\ i # turn /\ Len(players) \in Nat
      <4>1. turn \in DOMAIN players /\ players \in Seq(Player)
        BY <2>1 DEF TableInv, TypeOK, TurnIsSeated
      <4> QED BY <1>3, <4>1
    <3>3. turn' \in 1..(Len(players) - 1)
      BY <3>1, <3>2
    <3>4. players'[turn'] = IF turn' < i THEN players[turn'] ELSE players[turn' + 1]
      BY <3>3, RemainingSeats
    <3> QED BY <3>1, <3>2, <3>4
  <2>4. UNCHANGED <<phase, table>>
    BY DEF RemoveAside
  <2>5. ReceiptNamesCardInPlay'
    BY <2>1, <2>2, <2>3, <2>4 DEF ReceiptNamesCardInPlay, Playing, Active, table
  <2>6. \A d \in DrawId : draws'[d].base # token'
    BY <1>1, NewTokenLemma
  <2> QED BY <1>1, <1>3, <2>2, <2>5, <2>6 DEF DrawInv
<1> QED BY <1>2, <1>3 DEF RemoveAside, ReceiptAfterRemoval

LEMMA DrawRemove ==
  ASSUME TableInv, DrawInv, NEW i \in DOMAIN players, RemoveSeat(i)
  PROVE  DrawInv'
<1>1. NewToken /\ draws' = draws
  BY DEF RemoveSeat
<1>2. CASE RemoveAside(i)
  BY <1>2, DrawBystander
<1>3. CASE RemoveActive(i)
  <2>1. receipt' = receipt
    BY <1>3 DEF RemoveActive, ReceiptAfterRemoval
  <2> QED BY <1>1, <2>1, NewTokenAgesAll
<1>4. CASE RemoveAborts(i) \/ RoomDeleted
  <2>1. receipt' = NoReceipt
    BY <1>4 DEF RemoveAborts, RoomDeleted
  <2> QED BY <1>1, <2>1, NewTokenNoReceipt
<1> QED BY <1>2, <1>3, <1>4 DEF RemoveSeat

LEMMA DrawNext == TableInv /\ DrawInv /\ [Next]_vars => DrawInv'
<1> SUFFICES ASSUME TableInv, DrawInv, [Next]_vars PROVE DrawInv'
  OBVIOUS
<1>1. ASSUME NEW p \in Player, Join(p) PROVE DrawInv'
  BY <1>1, LobbyKeepsDraws DEF Join
<1>2. CASE Reorder \/ UpdateConfig
  BY <1>2, LobbyKeepsDraws DEF Reorder, UpdateConfig
<1>3. CASE Start \/ Reset \/ Commit \/ Undo \/ Timeout
  BY <1>3, NewTokenAgesAll DEF Start, Reset, Commit, Undo, Timeout
<1>4. ASSUME NEW d \in DrawId, IssueDraw(d) \/ ForgetDraw(d) \/ DrawCard(d) \/ ReplayDraw(d)
      PROVE  DrawInv'
  BY <1>4, DrawIssue, DrawForget, DrawDeals, DrawReplays
<1>5. CASE LiveTurnState
  BY <1>5 DEF LiveTurnState, DrawInv, ReceiptNamesCardInPlay, Playing, Active, table
<1>6. ASSUME NEW i \in DOMAIN players, RemoveSeat(i) PROVE DrawInv'
  BY <1>6, DrawRemove
<1>7. CASE UNCHANGED vars
  BY <1>7 DEF vars, DrawInv, ReceiptNamesCardInPlay, Playing, Active
<1> QED BY <1>1, <1>2, <1>3, <1>4, <1>5, <1>6, <1>7 DEF Next

THEOREM DrawsAreSound == Spec => [](TableInv /\ DrawInv)
<1>1. Init => TableInv /\ DrawInv
  BY TableInit, DrawInit
<1>2. TableInv /\ DrawInv /\ [Next]_vars => (TableInv /\ DrawInv)'
  BY TableNext, DrawNext
<1> QED BY <1>1, <1>2, PTL DEF Spec

\* A receipt that would still be honoured answers the active player with the
\* card in play (rooms.ts re-tokens it when a bystander leaves, and only then).
THEOREM ReceiptAlwaysCurrent == Spec => []ReceiptNamesCardInPlay
<1>1. DrawInv => ReceiptNamesCardInPlay
  BY DEF DrawInv
<1> QED BY <1>1, DrawsAreSound, PTL

\* However often a draw request arrives, and whatever happens in between, it
\* takes at most one card and is given at most one answer.
THEOREM DrawAtMostOnce == Spec => []OneCardPerDraw
<1>1. DrawInv => OneCardPerDraw
  <2> SUFFICES ASSUME DrawInv, NEW d \in DrawId
               PROVE  draws[d].dealt <= 1 /\ Cardinality(draws[d].answers) <= 1
    BY DEF OneCardPerDraw
  <2>1. CASE draws[d].answers = {}
    BY <2>1, FS_EmptySet DEF DrawInv
  <2>2. CASE draws[d].answers # {}
    <3>1. PICK a : a \in draws[d].answers
      BY <2>2
    <3>2. draws[d].answers = {a}
      BY <3>1 DEF DrawInv
    <3>3. Cardinality({a}) = 1
      BY FS_Singleton
    <3> QED BY <3>2, <3>3 DEF DrawInv
  <2> QED BY <2>1, <2>2
<1> QED BY <1>1, DrawsAreSound, PTL

-----------------------------------------------------------------------------
(***************************************************************************)
(* Whose turn it is, how many turns everybody had, and what an undo would  *)
(* take back.                                                              *)
(*                                                                         *)
(* The four properties hold together.  An undo gives the turn back to the  *)
(* player of the record, and takes one turn off that player's count: that  *)
(* leaves everybody even only because the record's player sits right       *)
(* before the active one, and the deck follows only because the deal log   *)
(* tells of the same turn.                                                 *)
(***************************************************************************)


TurnInv == /\ LiveBelongsToTurn
           /\ UndoRecordIsDealLog
           /\ EqualTurns
           /\ FairFinish

-----------------------------------------------------------------------------
(***************************************************************************)
(* Lemmas about the table and its neighbours.                              *)
(***************************************************************************)

\* The seats of a game, as numbers.
LEMMA SeatNumbers ==
  ASSUME TableInv
  PROVE  /\ players \in Seq(Player) /\ Len(players) \in Nat
         /\ DOMAIN players = 1..Len(players)
         /\ round \in Nat /\ turns \in [Player -> Nat]
         /\ \A i \in 1..Len(players) : players[i] \in Player
         /\ \A i, j \in 1..Len(players) : players[i] = players[j] => i = j
         /\ Playing => turn \in 1..Len(players) /\ Len(players) >= 2
<1>1. /\ players \in Seq(Player) /\ IsInjective(players)
      /\ round \in Nat /\ turns \in [Player -> Nat]
      /\ Playing => turn \in 1..Len(players) /\ Len(players) >= 2
  BY SMTT(30) DEF TableInv, TypeOK, TurnIsSeated
<1>2. Len(players) \in Nat /\ DOMAIN players = 1..Len(players)
      /\ \A i \in 1..Len(players) : players[i] \in Player
  BY <1>1
<1>3. \A i, j \in 1..Len(players) : players[i] = players[j] => i = j
  BY <1>1, <1>2 DEF IsInjective
<1> QED BY <1>1, <1>2, <1>3

\* A prefix of what was dealt is still one when more is dealt.
LEMMA PrefixGrows ==
  ASSUME NEW S, NEW s \in Seq(S), NEW t \in Seq(S), NEW e \in S, IsPrefix(s, t)
  PROVE  IsPrefix(s, Append(t, e))
<1>1. /\ Len(Append(t, e)) = Len(t) + 1
      /\ \A k \in 1..Len(t) : Append(t, e)[k] = t[k]
      /\ Append(t, e) \in Seq(S)
  BY AppendProperties
<1>2. Len(s) <= Len(t) /\ SubSeq(s, 1, Len(s)) = SubSeq(t, 1, Len(s)) /\ Len(s) \in Nat /\ Len(t) \in Nat
  BY DEF IsPrefix
<1>3. SubSeq(Append(t, e), 1, Len(s)) = SubSeq(t, 1, Len(s))
  BY <1>1, <1>2
<1> QED BY <1>1, <1>2, <1>3 DEF IsPrefix

\* The first cards of a chain are a prefix of it.
LEMMA CutIsPrefix ==
  ASSUME NEW S, NEW t \in Seq(S), NEW k \in 1..Len(t)
  PROVE  SubSeq(t, 1, k) # <<>> /\ IsPrefix(SubSeq(t, 1, k), t)
<1>1. SubSeq(t, 1, k) \in Seq(S) /\ Len(SubSeq(t, 1, k)) = k
      /\ \A j \in 1..k : SubSeq(t, 1, k)[j] = t[j]
  OBVIOUS
<1>2. SubSeq(SubSeq(t, 1, k), 1, k) = SubSeq(t, 1, k)
  BY <1>1
<1> QED BY <1>1, <1>2 DEF IsPrefix

-----------------------------------------------------------------------------
(***************************************************************************)
(* Steps that leave the turn order alone, or leave the game.               *)
(***************************************************************************)

\* No game, no turn to be wrong about.
LEMMA LobbyIsEven ==
  ASSUME phase' = "lobby", live' = NoLive
  PROVE  TurnInv'
BY DEF TurnInv, LiveBelongsToTurn, UndoRecordIsDealLog, EqualTurns, FairFinish, Playing

\* A game that is over keeps its record and its counts.
LEMMA OverIsEven ==
  ASSUME phase' = "finished", live' = NoLive, FairFinish'
  PROVE  TurnInv'
BY DEF TurnInv, LiveBelongsToTurn, UndoRecordIsDealLog, EqualTurns, Playing

\* Outside play no dice are shown.
LEMMA NoDiceOutsidePlay ==
  ASSUME TurnInv, ~Playing
  PROVE  live = NoLive
BY DEF TurnInv, LiveBelongsToTurn

LEMMA TurnsQuiet ==
  ASSUME TurnInv, UNCHANGED <<players, phase, turn, round, table, prev, turns, ruleset>>,
         LiveBelongsToTurn'
  PROVE  TurnInv'
<1>1. UndoRecordIsDealLog'
  BY DEF TurnInv, UndoRecordIsDealLog, Playing, table, SeatBefore
<1>2. EqualTurns'
  BY DEF TurnInv, EqualTurns, Playing
<1>3. FairFinish'
  BY DEF TurnInv, FairFinish
<1> QED BY <1>1, <1>2, <1>3 DEF TurnInv

LEMMA TurnsLive ==
  ASSUME TableInv, TurnInv, LiveTurnState
  PROVE  TurnInv'
<1>1. UNCHANGED <<players, phase, turn, round, table, prev, turns, ruleset>>
  BY DEF LiveTurnState
<1>2. CASE live' = NoLive
  BY <1>1, <1>2, TurnsQuiet DEF LiveBelongsToTurn
<1>3. CASE \E k \in {Len(dealtThis) - 1, Len(dealtThis)} \ {0} :
             live' = [by |-> Active, chain |-> SubSeq(dealtThis, 1, k)]
  <2>1. PICK k \in {Len(dealtThis) - 1, Len(dealtThis)} \ {0} :
          live' = [by |-> Active, chain |-> SubSeq(dealtThis, 1, k)]
    BY <1>3
  <2>2. Playing /\ dealtThis \in Seq(Card) /\ dealtThis # <<>>
    BY DEF LiveTurnState, TableInv, TypeOK, LogMatchesTable
  <2>3. k \in 1..Len(dealtThis)
    BY <2>2
  <2>4. live'.chain # <<>> /\ IsPrefix(live'.chain, dealtThis)
    BY <2>1, <2>2, <2>3, CutIsPrefix
  <2>5. dealtThis' = dealtThis
    BY <1>1 DEF table
  <2>6. LiveBelongsToTurn'
    BY <1>1, <2>1, <2>2, <2>4, <2>5 DEF LiveBelongsToTurn, Playing, Active
  <2> QED BY <1>1, <2>6, TurnsQuiet
<1> QED BY <1>2, <1>3 DEF LiveTurnState

\* A draw adds to the turn in progress and touches nothing of the one before.
LEMMA TurnsDraw ==
  ASSUME TableInv, TurnInv, NEW d \in DrawId, DrawCard(d)
  PROVE  TurnInv'
<1>1. /\ Playing /\ DealNext(FALSE) /\ Len(dealtThis) < MaxChain
      /\ UNCHANGED <<players, phase, turn, round, ruleset, prev, live, turns>>
  BY DEF DrawCard, MayDraw
<1>2. DeckOK
  BY DEF TableInv, TypeOK, DeckOK
<1>3. /\ currentCard' \in Card
      /\ dealtThis' = Append(dealtThis, currentCard')
      /\ dealtLast' = dealtLast
  BY <1>1, <1>2, DealExtends
<1>4. LiveBelongsToTurn'
  <2>1. CASE live = NoLive
    BY <1>1, <2>1 DEF LiveBelongsToTurn
  <2>2. CASE live # NoLive
    <3>1. live.by = Active /\ live.chain # <<>> /\ IsPrefix(live.chain, dealtThis)
      BY <2>2 DEF TurnInv, LiveBelongsToTurn
    <3>2. live.chain \in Seq(Card) /\ dealtThis \in Seq(Card)
      BY DEF TableInv, TypeOK
    <3>3. IsPrefix(live.chain, dealtThis')
      BY <1>3, <3>1, <3>2, PrefixGrows
    <3> QED BY <1>1, <3>1, <3>3 DEF LiveBelongsToTurn, Playing, Active
  <2> QED BY <2>1, <2>2
<1>5. UndoRecordIsDealLog'
  BY <1>1, <1>3 DEF TurnInv, UndoRecordIsDealLog, Playing, SeatBefore
<1>6. EqualTurns' /\ FairFinish'
  BY <1>1 DEF TurnInv, EqualTurns, FairFinish, Playing
<1> QED BY <1>4, <1>5, <1>6 DEF TurnInv

\* A new game: nobody has had a turn, and there is none to take back.
LEMMA TurnsStart ==
  ASSUME TableInv, Start
  PROVE  TurnInv'
<1>1. /\ players' \in Orders(players) /\ phase' = "playing" /\ turn' = 1 /\ round' = 1
      /\ prev' = NoTurn /\ live' = NoLive /\ turns' = [p \in Player |-> 0]
  BY DEF Start
<1>2. players' \in Seq(Player)
  BY <1>1, OrdersLemma DEF TableInv, TypeOK
<1>3. \A i \in DOMAIN players' : players'[i] \in Player /\ i \in Nat /\ i >= 1
  BY <1>2
<1>4. EqualTurns'
  BY <1>1, <1>3 DEF EqualTurns
<1>5. LiveBelongsToTurn' /\ UndoRecordIsDealLog' /\ FairFinish'
  BY <1>1 DEF LiveBelongsToTurn, UndoRecordIsDealLog, FairFinish, NoTurn
<1> QED BY <1>4, <1>5 DEF TurnInv

-----------------------------------------------------------------------------
(***************************************************************************)
(* The hand-over: a turn ends, by a commit or by the clock.                *)
(***************************************************************************)

\* The player whose turn ends has now had as many turns as rounds were begun.
LEMMA CountAfterTurn ==
  ASSUME TableInv, TurnInv, Playing, EndTurn
  PROVE  \A i \in 1..Len(players) :
           turns'[players[i]] = IF i <= turn THEN round ELSE round - 1
<1> TAKE i \in 1..Len(players)
<1>1. /\ turns' = [turns EXCEPT ![players[turn]] = @ + 1]
      /\ turn \in 1..Len(players)
  BY SeatNumbers DEF EndTurn, Active
<1>2. \A j \in 1..Len(players) : turns[players[j]] = IF j < turn THEN round ELSE round - 1
  BY SeatNumbers DEF TurnInv, EqualTurns
<1>3. CASE i = turn
  BY <1>1, <1>2, <1>3, SeatNumbers
<1>4. CASE i # turn
  <2>1. players[i] # players[turn]
    BY <1>1, <1>4, SeatNumbers
  <2>2. turns'[players[i]] = turns[players[i]]
    BY <1>1, <2>1, SeatNumbers
  <2> QED BY <1>1, <1>2, <1>4, <2>2, SeatNumbers
<1> QED BY <1>3, <1>4

LEMMA TurnsHandOver ==
  ASSUME TableInv, TurnInv, Playing, EndTurn, PassTurn, DealNext(TRUE),
         UNCHANGED <<players, ruleset>>
  PROVE  TurnInv'
<1>1. /\ turn \in 1..Len(players) /\ Len(players) \in Nat /\ Len(players) >= 2
      /\ turn' = (IF turn = Len(players) THEN 1 ELSE turn + 1)
      /\ round' = (IF turn = Len(players) THEN round + 1 ELSE round)
      /\ round \in Nat
  BY SeatNumbers DEF PassTurn, SeatAfter, LastSeat
<1>2. EqualTurns'
  <2>1. \A i \in 1..Len(players) :
          turns'[players[i]] = IF i < turn' THEN round' ELSE round' - 1
    BY <1>1, CountAfterTurn
  <2> QED BY <2>1, SeatNumbers DEF EqualTurns
<1>3. UndoRecordIsDealLog'
  <2>1. prev' = [card |-> currentCard, player |-> Active,
                 chain |-> IF ruleset = "classic" THEN dealtThis ELSE <<>>]
    BY DEF EndTurn
  <2>2. dealtLast' = dealtThis
    BY DealOpens DEF TableInv, TypeOK, DeckOK
  <2>3. dealtThis # <<>> /\ currentCard = dealtThis[Len(dealtThis)]
    BY SMTT(30) DEF TableInv, LogMatchesTable
  <2>4. \A i \in DOMAIN players : players[i] = Active => i = turn
    BY <1>1, SeatNumbers DEF Active
  <2>5. turn = SeatBefore(players, turn')
    BY <1>1 DEF SeatBefore
  <2> QED BY <2>1, <2>2, <2>3, <2>4, <2>5 DEF UndoRecordIsDealLog, SeatBefore
<1>4. LiveBelongsToTurn' /\ FairFinish'
  BY DEF EndTurn, LiveBelongsToTurn, FairFinish, PassTurn, Playing
<1> QED BY <1>2, <1>3, <1>4 DEF TurnInv

\* The end of the game: at the end of a round, or by a Kleeblatt.
LEMMA TurnsFinish ==
  ASSUME TableInv, TurnInv, Playing, EndTurn, UNCHANGED players,
         FinishRound \/ (currentCard = "Kleeblatt" /\ phase' = "finished" /\ round' = round)
  PROVE  TurnInv'
<1>1. phase' = "finished" /\ live' = NoLive /\ round' = round
  BY DEF FinishRound, EndTurn
<1>2. CASE currentCard = "Kleeblatt"
  BY <1>1, <1>2, OverIsEven DEF EndTurn, FairFinish
<1>3. CASE FinishRound
  <2>1. turn = Len(players)
    BY <1>3 DEF FinishRound, LastSeat
  <2>2. \A i \in 1..Len(players) : turns'[players[i]] = round
    BY <2>1, CountAfterTurn, SeatNumbers
  <2>3. FairFinish'
    BY <1>1, <2>2, SeatNumbers DEF FairFinish
  <2> QED BY <1>1, <2>3, OverIsEven
<1> QED BY <1>2, <1>3

\* A commit that passes the turn on is recognised as an advance, and dealt to.
LEMMA CommitDeals ==
  ASSUME TableInv, Commit, PassTurn
  PROVE  DealNext(TRUE)
<1>1. Playing /\ EndTurn /\ SettleDeck(FALSE) /\ UNCHANGED players
  BY DEF Commit
<1>2. phase' = "playing" /\ turn' # turn /\ turn' \in DOMAIN players
  BY <1>1, PassTurnSeats
<1>3. prev'.card # None /\ currentCard # None
  BY <1>1, EndTurnTypes DEF EndTurn
<1>4. turn # NoSeat /\ turn' # NoSeat
  BY <1>1, <1>2, SeatNumbers DEF NoSeat
<1>5. SeatMoved /\ ~IsUndoMove /\ IsAdvanceMove
  BY <1>1, <1>2, <1>3, <1>4 DEF SeatMoved, IsUndoMove, IsAdvanceMove, PassTurn
<1> QED BY <1>1, <1>2, <1>5 DEF SettleDeck

LEMMA TurnsCommit ==
  ASSUME TableInv, TurnInv, Commit
  PROVE  TurnInv'
<1>1. Playing /\ EndTurn /\ SettleDeck(FALSE) /\ UNCHANGED <<players, ruleset>>
  BY DEF Commit
<1>2. CASE FinishRound \/ (currentCard = "Kleeblatt" /\ phase' = "finished" /\ round' = round)
  BY <1>1, <1>2, TurnsFinish
<1>3. CASE PassTurn
  BY <1>1, <1>3, CommitDeals, TurnsHandOver
<1>4. \/ FinishRound
      \/ currentCard = "Kleeblatt" /\ phase' = "finished" /\ round' = round
      \/ PassTurn
  BY DEF Commit
<1> QED BY <1>2, <1>3, <1>4

LEMMA TurnsTimeout ==
  ASSUME TableInv, TurnInv, Timeout
  PROVE  TurnInv'
<1>1. Playing /\ EndTurn /\ UNCHANGED <<players, ruleset>>
  BY DEF Timeout
<1>2. CASE FinishRound \/ (currentCard = "Kleeblatt" /\ phase' = "finished" /\ round' = round)
  BY <1>1, <1>2, TurnsFinish
<1>3. CASE PassTurn /\ DealNext(TRUE)
  BY <1>1, <1>3, TurnsHandOver
<1>4. \/ FinishRound
      \/ currentCard = "Kleeblatt" /\ phase' = "finished" /\ round' = round
      \/ PassTurn /\ DealNext(TRUE)
  BY DEF Timeout
<1> QED BY <1>2, <1>3, <1>4

-----------------------------------------------------------------------------
(***************************************************************************)
(* The undo.                                                               *)
(***************************************************************************)

\* The player to be undone sits right before the active one.
LEMMA UndoneSeat ==
  ASSUME TableInv, TurnInv, CanUndo
  PROVE  /\ SeatOf(prev.player) \in 1..Len(players)
         /\ players[SeatOf(prev.player)] = prev.player
         /\ SeatOf(prev.player) = SeatBefore(players, turn)
<1>1. Playing /\ prev.card # None /\ Contains(players, prev.player)
  BY DEF CanUndo
<1>2. SeatOf(prev.player) \in DOMAIN players /\ players[SeatOf(prev.player)] = prev.player
  BY <1>1, SeatOfLemma
<1>3. \A i \in DOMAIN players : players[i] = prev.player => i = SeatBefore(players, turn)
  BY <1>1 DEF TurnInv, UndoRecordIsDealLog
<1> QED BY <1>2, <1>3, SeatNumbers

LEMMA TurnsUndo ==
  ASSUME TableInv, TurnInv, Undo
  PROVE  TurnInv'
<1> DEFINE s == SeatOf(prev.player)
<1>1. /\ Playing /\ phase' = "playing" /\ turn' = s /\ players' = players
      /\ round' = (IF s >= turn THEN round - 1 ELSE round)
      /\ prev' = NoTurn /\ live' = NoLive
  BY DEF Undo, CanUndo, Playing
<1>2. /\ s \in 1..Len(players) /\ players[s] = prev.player
      /\ s = IF turn = 1 THEN Len(players) ELSE turn - 1
  BY UndoneSeat DEF Undo, SeatBefore
<1>3. /\ turns' = [turns EXCEPT ![players[s]] = IF @ > 0 THEN @ - 1 ELSE 0]
      /\ s >= turn => round > 1
  BY <1>2 DEF Undo, CanUndo
<1> HIDE DEF s
<1>4. \A i \in 1..Len(players) : turns[players[i]] = IF i < turn THEN round ELSE round - 1
  BY <1>1, SeatNumbers DEF TurnInv, EqualTurns
<1>5. turn \in 1..Len(players) /\ Len(players) \in Nat /\ Len(players) >= 2
      /\ round \in Nat \ {0}
  BY <1>1, SeatNumbers DEF TableInv, TypeOK
<1>6. ASSUME NEW i \in 1..Len(players)
      PROVE  turns'[players[i]] = IF i < s THEN round' ELSE round' - 1
  <2>1. CASE i = s
    <3>1. players[s] \in Player /\ turns \in [Player -> Nat]
      BY <1>2, SeatNumbers
    <3>2. turns[players[s]] > 0
      BY SMTT(30), <1>2, <1>3, <1>4, <1>5
    <3>3. turns'[players[s]] = turns[players[s]] - 1
      BY <1>3, <3>1, <3>2
    <3> QED BY SMTT(30), <1>1, <1>2, <1>4, <1>5, <2>1, <3>3
  <2>2. CASE i # s
    <3>1. players[i] # players[s]
      BY <1>2, <2>2, SeatNumbers
    <3>2. turns'[players[i]] = turns[players[i]]
      BY <1>2, <1>3, <3>1, SeatNumbers
    <3> QED BY <1>1, <1>2, <1>4, <1>5, <2>2, <3>2
  <2> QED BY <2>1, <2>2
<1>7. EqualTurns'
  BY <1>1, <1>6, SeatNumbers DEF EqualTurns
<1>8. LiveBelongsToTurn' /\ UndoRecordIsDealLog' /\ FairFinish'
  BY <1>1 DEF LiveBelongsToTurn, UndoRecordIsDealLog, FairFinish, NoTurn
<1> QED BY <1>7, <1>8 DEF TurnInv

-----------------------------------------------------------------------------
(***************************************************************************)
(* Removals: the seats behind the one that goes move up by one.            *)
(***************************************************************************)

LEMMA TurnsRemoveAside ==
  ASSUME TableInv, TurnInv, NEW i \in DOMAIN players, RemoveSeat(i), RemoveAside(i),
         Playing, Len(players) > 2
  PROVE  TurnInv'
<1> DEFINE Old(j) == IF j < i THEN j ELSE j + 1
<1>1. /\ i \in 1..Len(players) /\ Len(players) \in Nat /\ Len(players') = Len(players) - 1
      /\ DOMAIN players' = 1..(Len(players) - 1)
      /\ \A j \in 1..(Len(players) - 1) : players'[j] = players[Old(j)]
  <2>1. \A j \in 1..(Len(players) - 1) :
          players'[j] = IF j < i THEN players[j] ELSE players[j + 1]
    BY RemainingSeats
  <2> QED BY <2>1, RemainingSeats
<1>2. /\ i # turn /\ turn \in 1..Len(players)
      /\ turn' = IF i < turn THEN turn - 1 ELSE turn
  BY SeatNumbers DEF RemoveAside, NoSeat
<1>3. UNCHANGED <<phase, round, ruleset, table, prev, live, turns>>
  BY DEF RemoveAside
<1>4. ASSUME NEW j \in 1..(Len(players) - 1)
      PROVE  Old(j) \in 1..Len(players) /\ Old(j) # i /\ (j < turn' <=> Old(j) < turn)
  BY <1>1, <1>2
<1>5. EqualTurns'
  <2>1. \A k \in 1..Len(players) : turns[players[k]] = IF k < turn THEN round ELSE round - 1
    BY SeatNumbers DEF TurnInv, EqualTurns
  <2>2. \A j \in 1..(Len(players) - 1) :
          turns[players'[j]] = IF j < turn' THEN round ELSE round - 1
    BY <1>1, <1>4, <2>1
  <2> QED BY <1>1, <1>3, <2>2 DEF EqualTurns
<1>6. UndoRecordIsDealLog'
  <2> SUFFICES ASSUME prev.card # None
               PROVE  UndoRecordIsDealLog'
    BY <1>3 DEF UndoRecordIsDealLog
  <2>1. /\ dealtLast # <<>> /\ prev.card = dealtLast[Len(dealtLast)]
        /\ prev.chain = IF ruleset = "classic" THEN dealtLast ELSE <<>>
        /\ \A k \in DOMAIN players : players[k] = prev.player => k = SeatBefore(players, turn)
    BY DEF TurnInv, UndoRecordIsDealLog
  <2>2. ASSUME NEW j \in 1..(Len(players) - 1), players'[j] = prev.player
        PROVE  j = SeatBefore(players', turn')
    <3>1. Old(j) = IF turn = 1 THEN Len(players) ELSE turn - 1
      BY <1>1, <1>4, <2>1, <2>2, SeatNumbers DEF SeatBefore
    <3> QED BY <1>1, <1>2, <1>4, <3>1 DEF SeatBefore
  <2>3. UNCHANGED <<dealtLast, prev, ruleset>>
    BY <1>3 DEF table
  <2> QED BY <1>1, <2>1, <2>2, <2>3 DEF UndoRecordIsDealLog, SeatBefore
<1>7. LiveBelongsToTurn'
  <2>1. turn' \in 1..(Len(players) - 1) /\ Old(turn') = turn
    BY <1>1, <1>2
  <2>2. players'[turn'] = players[turn]
    BY <1>1, <2>1
  <2> QED BY <1>3, <2>2 DEF TurnInv, LiveBelongsToTurn, Playing, Active, table
<1>8. FairFinish'
  BY <1>3 DEF FairFinish, Playing
<1> QED BY <1>5, <1>6, <1>7, <1>8 DEF TurnInv

\* Outside play a removal only takes a player away.
LEMMA TurnsRemoveIdle ==
  ASSUME TableInv, TurnInv, NEW i \in DOMAIN players, RemoveSeat(i), RemoveAside(i), ~Playing
  PROVE  TurnInv'
<1>1. /\ UNCHANGED <<phase, round, prev, live, turns>>
  BY DEF RemoveAside
<1>2. live' = NoLive
  BY <1>1, NoDiceOutsidePlay
<1>3. CASE phase = "lobby"
  BY <1>1, <1>2, <1>3, LobbyIsEven
<1>4. CASE phase = "finished"
  <2>1. ASSUME NEW j \in DOMAIN players'
        PROVE  \E k \in DOMAIN players : players'[j] = players[k]
    <3>1. /\ i \in 1..Len(players) /\ Len(players) \in Nat /\ j \in 1..(Len(players) - 1)
          /\ players'[j] = IF j < i THEN players[j] ELSE players[j + 1]
      BY RemainingSeats
    <3>2. DOMAIN players = 1..Len(players)
      BY SeatNumbers
    <3>3. j \in DOMAIN players /\ j + 1 \in DOMAIN players
      BY <3>1, <3>2
    <3> QED BY <3>1, <3>3
  <2>2. FairFinish'
    BY <1>1, <1>4, <2>1 DEF TurnInv, FairFinish
  <2> QED BY <1>1, <1>2, <1>4, <2>2, OverIsEven
<1> QED BY <1>3, <1>4 DEF Playing, TableInv, TypeOK, Phases

\* The active seat goes: the seat behind it plays in its place, or the next
\* round begins, and either way everybody is even.
LEMMA TurnsRemoveActive ==
  ASSUME TableInv, TurnInv, NEW i \in DOMAIN players, RemoveSeat(i), RemoveActive(i), Playing
  PROVE  TurnInv'
<1>1. /\ i = turn /\ prev' = NoTurn /\ live' = NoLive /\ turns' = turns
  BY DEF RemoveActive
<1>2. /\ i \in 1..Len(players) /\ Len(players) \in Nat
      /\ DOMAIN players' = 1..(Len(players) - 1)
      /\ \A j \in 1..(Len(players) - 1) :
           players'[j] = IF j < i THEN players[j] ELSE players[j + 1]
      /\ round \in Nat
  <2>1. players' \in Seq(Player) /\ Len(players') = Len(players) - 1
    BY RemainingSeats
  <2>2. DOMAIN players' = 1..Len(players')
    BY <2>1
  <2> QED BY <2>1, <2>2, RemainingSeats, SeatNumbers
<1>3. \A k \in 1..Len(players) : turns[players[k]] = IF k < turn THEN round ELSE round - 1
  BY SeatNumbers DEF TurnInv, EqualTurns
<1>4. \A j \in 1..(Len(players) - 1) :
        turns'[players'[j]] = IF j < i THEN round ELSE round - 1
  BY <1>1, <1>2, <1>3
<1>5. CASE FinishRound
  <2>1. phase' = "finished" /\ round' = round /\ i = Len(players)
    BY <1>1, <1>5 DEF FinishRound, LastSeat
  <2>2. FairFinish'
    BY <1>2, <1>4, <2>1 DEF FairFinish
  <2> QED BY <1>1, <2>1, <2>2, OverIsEven
<1>6. CASE /\ phase' = phase
           /\ turn' = IF LastSeat THEN 1 ELSE turn
           /\ round' = IF LastSeat THEN round + 1 ELSE round
  <2>1. \A j \in 1..(Len(players) - 1) :
          turns'[players'[j]] = IF j < turn' THEN round' ELSE round' - 1
    BY <1>1, <1>2, <1>4, <1>6 DEF LastSeat
  <2>2. EqualTurns'
    BY <1>2, <2>1 DEF EqualTurns
  <2>3. LiveBelongsToTurn' /\ UndoRecordIsDealLog' /\ FairFinish'
    BY <1>1, <1>6 DEF LiveBelongsToTurn, UndoRecordIsDealLog, FairFinish, NoTurn, Playing
  <2> QED BY <2>2, <2>3 DEF TurnInv
<1> QED BY <1>5, <1>6 DEF RemoveActive

LEMMA TurnsRemove ==
  ASSUME TableInv, TurnInv, NEW i \in DOMAIN players, RemoveSeat(i)
  PROVE  TurnInv'
<1>1. CASE RoomDeleted
  BY <1>1, LobbyIsEven DEF RoomDeleted
<1>2. CASE RemoveAborts(i)
  BY <1>2, LobbyIsEven DEF RemoveAborts
<1>3. CASE RemoveAside(i) /\ Playing /\ Len(players) > 2
  BY <1>3, TurnsRemoveAside
<1>4. CASE RemoveAside(i) /\ ~Playing
  BY <1>4, TurnsRemoveIdle
<1>5. CASE RemoveActive(i) /\ Playing
  BY <1>5, TurnsRemoveActive
<1> QED BY <1>1, <1>2, <1>3, <1>4, <1>5 DEF RemoveSeat

-----------------------------------------------------------------------------
LEMMA TurnsInit == Init => TurnInv
BY DEF Init, TurnInv, LiveBelongsToTurn, UndoRecordIsDealLog, EqualTurns, FairFinish, Playing

LEMMA TurnsNext == TableInv /\ TurnInv /\ [Next]_vars => TurnInv'
<1> SUFFICES ASSUME TableInv, TurnInv, [Next]_vars PROVE TurnInv'
  OBVIOUS
<1>1. ASSUME NEW p \in Player, Join(p) PROVE TurnInv'
  BY <1>1, NoDiceOutsidePlay, LobbyIsEven DEF Join, Playing
<1>2. CASE Reorder \/ UpdateConfig
  BY <1>2, NoDiceOutsidePlay, LobbyIsEven DEF Reorder, UpdateConfig, Playing
<1>3. CASE Start
  BY <1>3, TurnsStart
<1>4. CASE Reset
  BY <1>4, LobbyIsEven DEF Reset
<1>5. CASE Commit
  BY <1>5, TurnsCommit
<1>6. CASE Undo
  BY <1>6, TurnsUndo
<1>7. ASSUME NEW d \in DrawId, IssueDraw(d) \/ ForgetDraw(d) \/ ReplayDraw(d)
      PROVE  TurnInv'
  <2>1. UNCHANGED <<players, phase, turn, round, ruleset, table, prev, live, turns>>
    BY <1>7 DEF IssueDraw, ForgetDraw, ReplayDraw
  <2>2. LiveBelongsToTurn'
    BY <2>1 DEF TurnInv, LiveBelongsToTurn, Playing, Active, table
  <2> QED BY <2>1, <2>2, TurnsQuiet
<1>8. ASSUME NEW d \in DrawId, DrawCard(d) PROVE TurnInv'
  BY <1>8, TurnsDraw
<1>9. CASE LiveTurnState
  BY <1>9, TurnsLive
<1>10. CASE Timeout
  BY <1>10, TurnsTimeout
<1>11. ASSUME NEW i \in DOMAIN players, RemoveSeat(i) PROVE TurnInv'
  BY <1>11, TurnsRemove
<1>12. CASE UNCHANGED vars
  <2>1. UNCHANGED <<players, phase, turn, round, ruleset, table, prev, live, turns>>
    BY <1>12 DEF vars, table
  <2>2. LiveBelongsToTurn'
    BY <2>1 DEF TurnInv, LiveBelongsToTurn, Playing, Active, table
  <2> QED BY <2>1, <2>2, TurnsQuiet
<1> QED BY <1>1, <1>2, <1>3, <1>4, <1>5, <1>6, <1>7, <1>8, <1>9, <1>10, <1>11, <1>12 DEF Next

THEOREM TurnsAreSound == Spec => [](TableInv /\ TurnInv)
<1>1. Init => TableInv /\ TurnInv
  BY TableInit, TurnsInit
<1>2. TableInv /\ TurnInv /\ [Next]_vars => (TableInv /\ TurnInv)'
  BY TableNext, TurnsNext
<1> QED BY <1>1, <1>2, PTL DEF Spec

\* Through hand-overs, expiries, undos and removals, nobody is skipped and
\* nobody plays twice.
THEOREM TurnsStayEqual == Spec => []EqualTurns
<1>1. TurnInv => EqualTurns
  BY DEF TurnInv
<1> QED BY <1>1, TurnsAreSound, PTL

\* No game but one a Kleeblatt ended is over before everybody left in it has
\* had as many turns as anybody else.
THEOREM FinishIsFair == Spec => []FairFinish
<1>1. TurnInv => FairFinish
  BY DEF TurnInv
<1> QED BY <1>1, TurnsAreSound, PTL

\* What the undo button believes and what restoreDeckForUndo would give back
\* are the same turn, of the player right before the active one.
THEOREM UndoRecordIsRight == Spec => []UndoRecordIsDealLog
<1>1. TurnInv => UndoRecordIsDealLog
  BY DEF TurnInv
<1> QED BY <1>1, TurnsAreSound, PTL

\* The dice snapshot an expiry reads is the active player's, of this turn.
THEOREM LiveIsOfThisTurn == Spec => []LiveBelongsToTurn
<1>1. TurnInv => LiveBelongsToTurn
  BY DEF TurnInv
<1> QED BY <1>1, TurnsAreSound, PTL
-----------------------------------------------------------------------------
(***************************************************************************)
(* The deck is a tape: RoomGame's deck implements CardTape, step by step.  *)
(***************************************************************************)

\* A draw moves a card from the deck to the turn in progress.
LEMMA DrawKeepsTape ==
  ASSUME NEW S, NEW a \in Seq(S), NEW b \in Seq(S), NEW c \in Seq(S), c # <<>>
  PROVE  (a \o (b \o <<Head(c)>>)) \o Tail(c) = (a \o b) \o c
<1>1. Head(c) \in S /\ Tail(c) \in Seq(S)
  OBVIOUS
<1>2. <<Head(c)>> \o Tail(c) = c
  OBVIOUS
<1>3. <<Head(c)>> \in Seq(S)
  BY <1>1
<1>4. (a \o (b \o <<Head(c)>>)) \o Tail(c) = (a \o b) \o (<<Head(c)>> \o Tail(c))
  <2>1. a \o (b \o <<Head(c)>>) = (a \o b) \o <<Head(c)>>
    BY SMTT(60), <1>3, ConcatAssociative
  <2>2. a \o b \in Seq(S)
    BY ConcatProperties
  <2> DEFINE d == a \o b
  <2>3. (d \o <<Head(c)>>) \o Tail(c) = d \o (<<Head(c)>> \o Tail(c))
    <3> HIDE DEF d
    <3> QED BY SMTT(60), <1>1, <1>3, <2>2, ConcatAssociative DEF d
  <2> QED BY <2>1, <2>3
<1> QED BY <1>1, <1>2, <1>4

\* The tape after the part that a hand-over cuts off.
LEMMA CutLast ==
  ASSUME NEW S, NEW a \in Seq(S), NEW b \in Seq(S)
  PROVE  SubSeq(a \o b, Len(a) + 1, Len(a \o b)) = b
<1>1. Len(a \o b) = Len(a) + Len(b) /\ a \o b \in Seq(S) /\ Len(a) \in Nat /\ Len(b) \in Nat
  BY ConcatProperties
<1>2. \A k \in 1..Len(b) : (a \o b)[Len(a) + k] = b[k]
  BY <1>1
<1> DEFINE t == a \o b
<1>3. SubSeq(t, Len(a) + 1, Len(t)) \in Seq(S) /\ Len(SubSeq(t, Len(a) + 1, Len(t))) = Len(b)
  <2> HIDE DEF t
  <2> QED BY <1>1 DEF t
<1>4. \A k \in 1..Len(b) : SubSeq(t, Len(a) + 1, Len(t))[k] = b[k]
  <2>1. \A k \in 1..Len(b) : SubSeq(t, Len(a) + 1, Len(t))[k] = t[Len(a) + k]
    <3> HIDE DEF t
    <3> QED BY <1>1, <1>3 DEF t
  <2> QED BY <1>2, <2>1
<1> QED BY <1>3, <1>4, SeqEqual

\* A hand-over cuts the last turn off and moves a card to a turn of its own.
LEMMA OpenCutsTape ==
  ASSUME NEW S, NEW a \in Seq(S), NEW b \in Seq(S), NEW c \in Seq(S), c # <<>>
  PROVE  (b \o <<Head(c)>>) \o Tail(c) = SubSeq((a \o b) \o c, Len(a) + 1, Len((a \o b) \o c))
<1>1. Head(c) \in S /\ Tail(c) \in Seq(S) /\ <<Head(c)>> \in Seq(S)
  OBVIOUS
<1>2. <<Head(c)>> \o Tail(c) = c
  OBVIOUS
<1>3. (b \o <<Head(c)>>) \o Tail(c) = b \o c
  <2> DEFINE h == <<Head(c)>>
             t == Tail(c)
  <2>1. h \in Seq(S) /\ t \in Seq(S)
    BY <1>1
  <2>2. (b \o h) \o t = b \o (h \o t)
    <3> HIDE DEF h, t
    <3> QED BY SMTT(60), <2>1, ConcatAssociative
  <2> QED BY <1>2, <2>2
<1>4. (a \o b) \o c = a \o (b \o c) /\ b \o c \in Seq(S)
  BY SMTT(60), ConcatAssociative, ConcatProperties
<1> QED BY <1>3, <1>4, CutLast

\* An undo moves both turns' cards, but the first, back to the deck.
LEMMA BackKeepsTape ==
  ASSUME NEW S, NEW a \in Seq(S), NEW b \in Seq(S), NEW c \in Seq(S), a # <<>>
  PROVE  (<<>> \o <<Head(a)>>) \o ((Tail(a) \o b) \o c) = (a \o b) \o c
<1>1. Head(a) \in S /\ Tail(a) \in Seq(S) /\ <<Head(a)>> \in Seq(S) /\ <<>> \in Seq(S)
  OBVIOUS
<1>2. <<Head(a)>> \o Tail(a) = a
  OBVIOUS
<1>3. <<>> \o <<Head(a)>> = <<Head(a)>>
  BY <1>1, ConcatEmptySeq
<1>4. b \o c \in Seq(S)
  BY ConcatProperties
<1>5. (Tail(a) \o b) \o c = Tail(a) \o (b \o c) /\ (a \o b) \o c = a \o (b \o c)
  <2>1. (a \o b) \o c = a \o (b \o c)
    BY SMTT(60), ConcatAssociative
  <2> DEFINE rest == Tail(a)
  <2>2. rest \in Seq(S)
    BY <1>1
  <2>3. (rest \o b) \o c = rest \o (b \o c)
    <3> HIDE DEF rest
    <3> QED BY SMTT(60), <2>2, ConcatAssociative
  <2> QED BY <2>1, <2>3
<1>6. <<Head(a)>> \o (Tail(a) \o (b \o c)) = (<<Head(a)>> \o Tail(a)) \o (b \o c)
  BY SMTT(60), <1>1, <1>4, ConcatAssociative
<1> QED BY <1>2, <1>3, <1>5, <1>6

\* The cap of an undone deck (MAX_DECK_SIZE) is out of reach for decks of this
\* size: two turns at their limit and a rebuilt deck fit under it.  The default
\* deck does by far; a custom deck at the cap itself does not.
DecksFit == \A deck \in Decks : Len(deck) + 2 * MaxChain <= MaxDeckSize

TapeInv == /\ Len(dealtThis) <= MaxChain
           /\ Len(dealtLast) <= MaxChain
           /\ Len(dealtLast) + Len(dealtThis) + Len(cards) <= MaxDeckSize

\* What a deal takes its card from.
LEMMA DealFrom ==
  ASSUME TableInv, NEW opens \in BOOLEAN, DealNext(opens), ~opens => Len(dealtThis) < MaxChain
  PROVE  \E pile \in Seq(Card) :
           /\ pile # <<>>
           /\ cards' = Tail(pile)
           /\ dealtLast' = IF opens THEN dealtThis ELSE dealtLast
           /\ dealtThis' = IF opens THEN <<Head(pile)>> ELSE Append(dealtThis, Head(pile))
           /\ \/ cards # <<>> /\ pile = cards
              \/ cards = <<>> /\ pile \in Decks
<1>1. PICK pile \in (IF cards # <<>> THEN {cards} ELSE Decks) :
        cards' = Tail(pile) /\ RecordDealtCard(Head(pile), opens)
  BY DEF DealNext
<1>2. pile \in Seq(Card) /\ pile # <<>>
  BY DeckAssumption DEF TableInv, TypeOK
<1> QED BY <1>1, <1>2 DEF RecordDealtCard

\* The tape a deal leaves behind is one of the tapes it may leave.
LEMMA TapeSupply ==
  ASSUME TableInv, NEW pile \in Seq(Card),
         \/ cards # <<>> /\ pile = cards
         \/ cards = <<>> /\ pile \in Decks
  PROVE  (dealtLast \o dealtThis) \o pile \in Tape!Supply
<1>1. /\ cards \in Seq(Card) /\ dealtThis \in Seq(Card) /\ dealtLast \in Seq(Card)
  BY DEF TableInv, TypeOK
<1>2. dealtLast \o dealtThis \in Seq(Card)
      /\ Len(dealtLast \o dealtThis) = Len(dealtLast) + Len(dealtThis)
  BY <1>1, ConcatProperties
<1>3. Len((dealtLast \o dealtThis) \o cards) = Len(dealtLast) + Len(dealtThis) + Len(cards)
  BY <1>1, <1>2, ConcatProperties
<1>4. Len(cards) \in Nat /\ (Len(cards) = 0 <=> cards = <<>>)
      /\ Len(dealtLast) \in Nat /\ Len(dealtThis) \in Nat
  BY <1>1
<1>5. CASE cards # <<>> /\ pile = cards
  BY <1>3, <1>4, <1>5 DEF Tape!Supply
<1>6. CASE cards = <<>> /\ pile \in Decks
  <2>1. (dealtLast \o dealtThis) \o cards = dealtLast \o dealtThis
    BY <1>2, <1>6, ConcatEmptySeq
  <2>2. ~(Len(dealtLast) + Len(dealtThis) < Len((dealtLast \o dealtThis) \o cards))
    BY <1>3, <1>4, <1>6
  <2> QED BY <1>6, <2>1, <2>2 DEF Tape!Supply
<1> QED BY <1>5, <1>6

LEMMA HandOverOpens ==
  ASSUME TableInv, Playing, DealNext(TRUE)
  PROVE  Tape!Open
<1>1. PICK pile \in Seq(Card) :
        /\ pile # <<>>
        /\ cards' = Tail(pile)
        /\ dealtLast' = dealtThis
        /\ dealtThis' = <<Head(pile)>>
        /\ \/ cards # <<>> /\ pile = cards
           \/ cards = <<>> /\ pile \in Decks
  BY DealFrom
<1>2. dealtThis \in Seq(Card) /\ dealtLast \in Seq(Card) /\ Len(dealtThis) > 0
  BY DEF TableInv, TypeOK, LogMatchesTable
<1> DEFINE t == (dealtLast \o dealtThis) \o pile
<1>3. (dealtThis \o <<Head(pile)>>) \o Tail(pile) = SubSeq(t, Len(dealtLast) + 1, Len(t))
  BY SMTT(30), <1>1, <1>2, OpenCutsTape
<1>4. t \in Tape!Supply
  BY <1>1, TapeSupply
<1>5. Len(dealtThis') = 1
  BY <1>1
<1> QED BY <1>1, <1>2, <1>3, <1>4, <1>5 DEF Tape!Open

LEMMA DrawDraws ==
  ASSUME TableInv, NEW d \in DrawId, DrawCard(d)
  PROVE  Tape!Draw
<1>1. Playing /\ DealNext(FALSE) /\ Len(dealtThis) < MaxChain
  BY DEF DrawCard, MayDraw
<1>2. PICK pile \in Seq(Card) :
        /\ pile # <<>>
        /\ cards' = Tail(pile)
        /\ dealtLast' = dealtLast
        /\ dealtThis' = Append(dealtThis, Head(pile))
        /\ \/ cards # <<>> /\ pile = cards
           \/ cards = <<>> /\ pile \in Decks
  BY <1>1, DealFrom
<1>3. dealtThis \in Seq(Card) /\ dealtLast \in Seq(Card) /\ Len(dealtThis) > 0
  BY <1>1 DEF TableInv, TypeOK, LogMatchesTable
<1>4. (dealtLast \o dealtThis') \o cards' = (dealtLast \o dealtThis) \o pile
  <2>1. (dealtLast \o (dealtThis \o <<Head(pile)>>)) \o Tail(pile) = (dealtLast \o dealtThis) \o pile
    <3>1. pile \in Seq(Card) /\ pile # <<>> /\ dealtLast \in Seq(Card) /\ dealtThis \in Seq(Card)
      BY <1>2, <1>3
    <3> QED BY <3>1, DrawKeepsTape
  <2>2. dealtThis' = dealtThis \o <<Head(pile)>>
    BY <1>2, <1>3, AppendIsConcat
  <2> QED BY <1>2, <2>1, <2>2
<1>5. (dealtLast \o dealtThis) \o pile \in Tape!Supply
  BY <1>2, TapeSupply
<1>6. Len(dealtThis') = Len(dealtThis) + 1
  BY <1>2, <1>3, AppendProperties
<1> QED BY <1>2, <1>3, <1>4, <1>5, <1>6 DEF Tape!Draw

\* An undo is recognised as one, and there is a turn to restore.
LEMMA UndoRestoresDeck ==
  ASSUME TableInv, TurnInv, Undo
  PROVE  RestoreDeckForUndo /\ dealtLast # <<>>
<1>1. /\ Playing /\ CanUndo /\ SettleDeck(FALSE) /\ phase' = "playing" /\ players' = players
      /\ turn' = SeatOf(prev.player) /\ prev' = NoTurn
  BY DEF Undo, CanUndo, Playing
<1>2. turn' = SeatBefore(players, turn) /\ turn' \in 1..Len(players) /\ turn' # turn
  BY <1>1, UndoneSeat, SeatNumbers DEF SeatBefore
<1>3. turn \in 1..Len(players) /\ prev.card # None /\ prev'.card = None
  BY <1>1, SeatNumbers DEF CanUndo, NoTurn
<1>4. SeatMoved /\ IsUndoMove
  BY <1>1, <1>2, <1>3 DEF SeatMoved, IsUndoMove, NoSeat, SeatBefore
<1>5. dealtLast # <<>>
  BY <1>1, <1>3 DEF TurnInv, UndoRecordIsDealLog
<1> QED BY <1>1, <1>4, <1>5 DEF SettleDeck

\* An undone deck under the cap is every card of both turns but the first.
LEMMA RestoreKeepsAll ==
  ASSUME TableInv, TapeInv, RestoreDeckForUndo, dealtLast # <<>>
  PROVE  /\ cards' = (Tail(dealtLast) \o dealtThis) \o cards
         /\ dealtThis' = <<Head(dealtLast)>>
         /\ dealtLast' = <<>>
         /\ Len(cards') = Len(dealtLast) + Len(dealtThis) + Len(cards) - 1
<1> DEFINE back == (Tail(dealtLast) \o dealtThis) \o cards
           n == IF Len(back) < MaxDeckSize THEN Len(back) ELSE MaxDeckSize
<1>1. /\ cards' = SubSeq(back, 1, n)
      /\ dealtThis' = <<Head(dealtLast)>>
      /\ dealtLast' = <<>>
  BY DEF RestoreDeckForUndo
<1>2. /\ cards \in Seq(Card) /\ dealtThis \in Seq(Card) /\ dealtLast \in Seq(Card)
      /\ Tail(dealtLast) \in Seq(Card) /\ Len(Tail(dealtLast)) = Len(dealtLast) - 1
  BY DEF TableInv, TypeOK
<1>3. Tail(dealtLast) \o dealtThis \in Seq(Card)
      /\ Len(Tail(dealtLast) \o dealtThis) = Len(dealtLast) - 1 + Len(dealtThis)
  BY <1>2, ConcatProperties
<1>4. back \in Seq(Card) /\ Len(back) = Len(dealtLast) - 1 + Len(dealtThis) + Len(cards)
  BY <1>2, <1>3, ConcatProperties
<1>5. n = Len(back) /\ Len(dealtLast) \in Nat /\ Len(dealtThis) \in Nat /\ Len(cards) \in Nat
  BY <1>2, <1>4, BoundAssumption DEF TapeInv
<1>6. SubSeq(back, 1, Len(back)) = back
  <2> HIDE DEF back
  <2> QED BY <1>4, SubSeqFull
<1> QED BY SMTT(30), <1>1, <1>4, <1>5, <1>6

LEMMA UndoTakesBack ==
  ASSUME TableInv, TurnInv, TapeInv, Undo
  PROVE  Tape!TakeBack
<1>1. RestoreDeckForUndo /\ dealtLast # <<>>
  BY UndoRestoresDeck
<1>2. /\ cards' = (Tail(dealtLast) \o dealtThis) \o cards
      /\ dealtThis' = <<Head(dealtLast)>>
      /\ dealtLast' = <<>>
  BY <1>1, RestoreKeepsAll
<1>3. /\ cards \in Seq(Card) /\ dealtThis \in Seq(Card) /\ dealtLast \in Seq(Card)
  BY DEF TableInv, TypeOK
<1>4. (dealtLast' \o dealtThis') \o cards' = (dealtLast \o dealtThis) \o cards
  BY <1>1, <1>2, <1>3, BackKeepsTape
<1>5. Len(dealtLast) > 0 /\ Len(dealtLast') = 0 /\ Len(dealtThis') = 1
  BY <1>1, <1>2, <1>3
<1> QED BY <1>4, <1>5 DEF Tape!TakeBack

LEMMA KickoffStartsTape ==
  ASSUME DealKickoff
  PROVE  Tape!Kickoff
<1>1. PICK deck \in Decks : /\ cards' = Tail(deck)
                            /\ dealtThis' = <<Head(deck)>>
                            /\ dealtLast' = <<>>
  BY DEF DealKickoff
<1>2. deck \in Seq(Card) /\ deck # <<>>
  BY DeckAssumption
<1>3. Head(deck) \in Card /\ Tail(deck) \in Seq(Card)
  BY <1>2
<1>4. <<>> \o <<Head(deck)>> = <<Head(deck)>> /\ <<Head(deck)>> \o Tail(deck) = deck
  BY <1>2, <1>3
<1>5. Len(<<>>) = 0 /\ Len(<<Head(deck)>>) = 1
  BY <1>3
<1> QED BY <1>1, <1>4, <1>5 DEF Tape!Kickoff

LEMMA ClearedTape ==
  ASSUME ClearDeck
  PROVE  Tape!Clear
<1>1. (<<>> \o <<>>) \o <<>> = <<>> /\ Len(<<>>) = 0
  OBVIOUS
<1> QED BY <1>1 DEF ClearDeck, Tape!Clear

LEMMA TapeStutter ==
  ASSUME UNCHANGED <<cards, dealtThis, dealtLast>>
  PROVE  UNCHANGED Tape!tapeVars
BY DEF Tape!tapeVars

\* Every step of the room is a step of the tape, or none.
LEMMA RoomStepIsTapeStep ==
  ASSUME TableInv, TurnInv, TapeInv, [Next]_vars
  PROVE  [Tape!TapeNext]_(Tape!tapeVars)
<1>1. ASSUME UNCHANGED <<cards, dealtThis, dealtLast>>
      PROVE  [Tape!TapeNext]_(Tape!tapeVars)
  BY <1>1, TapeStutter
<1>2. CASE Start
  BY <1>2, KickoffStartsTape DEF Start, SettleDeck, Tape!TapeNext
<1>3. CASE Reset
  BY <1>3, SettleOutsidePlay, ClearedTape DEF Reset, Tape!TapeNext
<1>4. CASE Commit
  <2>1. CASE PassTurn
    BY <1>4, <2>1, CommitDeals, HandOverOpens DEF Commit, Tape!TapeNext
  <2>2. CASE phase' = "finished"
    BY <1>1, <1>4, <2>2, SettleOutsidePlay DEF Commit, table
  <2> QED BY <1>4, <2>1, <2>2 DEF Commit, FinishRound
<1>5. CASE Undo
  BY <1>5, UndoTakesBack DEF Tape!TapeNext
<1>6. CASE Timeout
  <2>1. CASE DealNext(TRUE)
    BY <1>6, <2>1, HandOverOpens DEF Timeout, Tape!TapeNext
  <2> QED BY <1>1, <1>6, <2>1 DEF Timeout
<1>7. ASSUME NEW d \in DrawId, DrawCard(d) PROVE Tape!TapeNext
  BY <1>7, DrawDraws DEF Tape!TapeNext
<1>8. ASSUME NEW i \in DOMAIN players, RemoveSeat(i)
      PROVE  [Tape!TapeNext]_(Tape!tapeVars)
  <2>1. CASE RoomDeleted \/ RemoveAborts(i)
    BY <2>1, ClearedTape DEF RoomDeleted, RemoveAborts, Tape!TapeNext
  <2>2. CASE RemoveAside(i)
    BY <1>1, <2>2 DEF RemoveAside, table
  <2>3. CASE RemoveActive(i) /\ Playing
    <3>1. CASE DealNext(TRUE)
      BY <2>3, <3>1, HandOverOpens DEF Tape!TapeNext
    <3> QED BY <1>1, <2>3, <3>1 DEF RemoveActive
  <2> QED BY <1>8, <2>1, <2>2, <2>3 DEF RemoveSeat
<1>9. ASSUME NEW p \in Player, Join(p) PROVE [Tape!TapeNext]_(Tape!tapeVars)
  BY <1>1, <1>9 DEF Join, table
<1>10. CASE Reorder \/ UpdateConfig \/ LiveTurnState
  BY <1>1, <1>10 DEF Reorder, UpdateConfig, LiveTurnState, table
<1>11. ASSUME NEW d \in DrawId, IssueDraw(d) \/ ForgetDraw(d) \/ ReplayDraw(d)
       PROVE  [Tape!TapeNext]_(Tape!tapeVars)
  BY <1>1, <1>11 DEF IssueDraw, ForgetDraw, ReplayDraw, table
<1>12. CASE UNCHANGED vars
  BY <1>1, <1>12 DEF vars
<1> QED BY <1>2, <1>3, <1>4, <1>5, <1>6, <1>7, <1>8, <1>9, <1>10, <1>11, <1>12 DEF Next

\* A deal keeps the deck and both turns under the cap.
LEMMA DealFits ==
  ASSUME DecksFit, TableInv, TapeInv, NEW opens \in BOOLEAN, DealNext(opens),
         ~opens => Len(dealtThis) < MaxChain
  PROVE  TapeInv'
<1>1. PICK pile \in Seq(Card) :
        /\ pile # <<>>
        /\ cards' = Tail(pile)
        /\ dealtLast' = IF opens THEN dealtThis ELSE dealtLast
        /\ dealtThis' = IF opens THEN <<Head(pile)>> ELSE Append(dealtThis, Head(pile))
        /\ \/ cards # <<>> /\ pile = cards
           \/ cards = <<>> /\ pile \in Decks
  BY DealFrom
<1>2. /\ cards \in Seq(Card) /\ dealtThis \in Seq(Card) /\ dealtLast \in Seq(Card)
      /\ Len(dealtThis) \in Nat /\ Len(dealtLast) \in Nat /\ Len(cards) \in Nat
      /\ MaxChain \in Nat \ {0} /\ MaxDeckSize \in Nat
  BY BoundAssumption DEF TableInv, TypeOK
<1>3. Len(pile) \in Nat \ {0} /\ Len(cards') = Len(pile) - 1 /\ Head(pile) \in Card
  BY <1>1
<1>4. /\ Len(dealtThis) <= MaxChain /\ Len(dealtLast) <= MaxChain
      /\ Len(dealtLast) + Len(dealtThis) + Len(cards) <= MaxDeckSize
  BY DEF TapeInv
<1>5. \/ Len(pile) = Len(cards)
      \/ Len(pile) + 2 * MaxChain <= MaxDeckSize
  BY <1>1 DEF DecksFit
<1>6. CASE opens
  <2>1. Len(dealtLast') = Len(dealtThis) /\ Len(dealtThis') = 1
    BY <1>1, <1>6
  <2> QED BY <1>2, <1>3, <1>4, <1>5, <2>1 DEF TapeInv
<1>7. CASE ~opens
  <2>1. Len(dealtLast') = Len(dealtLast) /\ Len(dealtThis') = Len(dealtThis) + 1
    BY <1>1, <1>2, <1>3, <1>7, AppendProperties
  <2> QED BY <1>2, <1>3, <1>4, <1>5, <1>7, <2>1 DEF TapeInv
<1> QED BY <1>6, <1>7

LEMMA ClearFits ==
  ASSUME ClearDeck
  PROVE  TapeInv'
<1>1. Len(<<>>) = 0
  OBVIOUS
<1> QED BY <1>1, BoundAssumption DEF ClearDeck, TapeInv

LEMMA KickoffFits ==
  ASSUME DecksFit, DealKickoff
  PROVE  TapeInv'
<1>1. PICK deck \in Decks : /\ cards' = Tail(deck)
                            /\ dealtThis' = <<Head(deck)>>
                            /\ dealtLast' = <<>>
  BY DEF DealKickoff
<1>2. deck \in Seq(Card) /\ deck # <<>>
  BY DeckAssumption
<1>3. Len(deck) \in Nat /\ Len(cards') = Len(deck) - 1
  BY <1>1, <1>2
<1>4. Len(dealtThis') = 1 /\ Len(dealtLast') = 0
  BY <1>1
<1> QED BY <1>3, <1>4, BoundAssumption DEF TapeInv, DecksFit

LEMMA UndoFits ==
  ASSUME TableInv, TurnInv, TapeInv, Undo
  PROVE  TapeInv'
<1>1. RestoreDeckForUndo /\ dealtLast # <<>>
  BY UndoRestoresDeck
<1>2. /\ Len(dealtLast) \in Nat \ {0} /\ Len(dealtThis) \in Nat /\ Len(cards) \in Nat
      /\ Head(dealtLast) \in Card
  BY <1>1 DEF TableInv, TypeOK
<1>3. /\ dealtThis' = <<Head(dealtLast)>> /\ dealtLast' = <<>>
      /\ Len(cards') = Len(dealtLast) + Len(dealtThis) + Len(cards) - 1
  BY <1>1, RestoreKeepsAll
<1>4. Len(dealtThis') = 1 /\ Len(dealtLast') = 0
  BY <1>2, <1>3
<1> QED BY <1>2, <1>3, <1>4, BoundAssumption DEF TapeInv

LEMMA TapeStays ==
  ASSUME TapeInv, UNCHANGED <<cards, dealtThis, dealtLast>>
  PROVE  TapeInv'
BY DEF TapeInv

LEMMA TapeNextFits ==
  ASSUME DecksFit, TableInv, TurnInv, TapeInv, [Next]_vars
  PROVE  TapeInv'
<1>1. CASE Start
  BY <1>1, KickoffFits DEF Start, SettleDeck
<1>2. CASE Reset
  BY <1>2, SettleOutsidePlay, ClearFits DEF Reset
<1>3. CASE Commit
  <2>1. CASE PassTurn
    BY <1>3, <2>1, CommitDeals, DealFits
  <2>2. CASE phase' = "finished"
    BY <1>3, <2>2, SettleOutsidePlay, TapeStays DEF Commit, table
  <2> QED BY <1>3, <2>1, <2>2 DEF Commit, FinishRound
<1>4. CASE Undo
  BY <1>4, UndoFits
<1>5. CASE Timeout
  <2>1. CASE DealNext(TRUE)
    BY <2>1, DealFits
  <2> QED BY <1>5, <2>1, TapeStays DEF Timeout
<1>6. ASSUME NEW d \in DrawId, DrawCard(d) PROVE TapeInv'
  BY <1>6, DealFits DEF DrawCard, MayDraw
<1>7. ASSUME NEW i \in DOMAIN players, RemoveSeat(i) PROVE TapeInv'
  <2>1. CASE RoomDeleted \/ RemoveAborts(i)
    BY <2>1, ClearFits DEF RoomDeleted, RemoveAborts
  <2>2. CASE RemoveAside(i)
    BY <2>2, TapeStays DEF RemoveAside, table
  <2>3. CASE RemoveActive(i)
    <3>1. CASE DealNext(TRUE)
      BY <3>1, DealFits
    <3> QED BY <2>3, <3>1, TapeStays DEF RemoveActive
  <2> QED BY <1>7, <2>1, <2>2, <2>3 DEF RemoveSeat
<1>8. ASSUME NEW p \in Player, Join(p) PROVE TapeInv'
  BY <1>8, TapeStays DEF Join, table
<1>9. CASE Reorder \/ UpdateConfig \/ LiveTurnState
  BY <1>9, TapeStays DEF Reorder, UpdateConfig, LiveTurnState, table
<1>10. ASSUME NEW d \in DrawId, IssueDraw(d) \/ ForgetDraw(d) \/ ReplayDraw(d) PROVE TapeInv'
  BY <1>10, TapeStays DEF IssueDraw, ForgetDraw, ReplayDraw, table
<1>11. CASE UNCHANGED vars
  BY <1>11, TapeStays DEF vars
<1> QED BY <1>1, <1>2, <1>3, <1>4, <1>5, <1>6, <1>7, <1>8, <1>9, <1>10, <1>11 DEF Next

LEMMA TapeStart == Init => TapeInv /\ Tape!TapeInit
<1>1. (<<>> \o <<>>) \o <<>> = <<>> /\ Len(<<>>) = 0
  OBVIOUS
<1> QED BY <1>1, BoundAssumption DEF Init, TapeInv, Tape!TapeInit

\* The room's deck implements CardTape: whatever is drawn, handed over, undone
\* or removed, the cards come in the order of one tape, and an undo brings them
\* again.  Only the backstop of MAX_DECK_SIZE could cut the tape.
THEOREM DeckIsTape ==
  ASSUME DecksFit
  PROVE  Spec => PlaysFromTape
<1>1. Init => TableInv /\ TurnInv /\ TapeInv
  BY TableInit, TurnsInit, TapeStart
<1>2. TableInv /\ TurnInv /\ TapeInv /\ [Next]_vars => (TableInv /\ TurnInv /\ TapeInv)'
  BY TableNext, TurnsNext, TapeNextFits
<1>3. Init => Tape!TapeInit
  BY TapeStart
<1>4. TableInv /\ TurnInv /\ TapeInv /\ [Next]_vars => [Tape!TapeNext]_(Tape!tapeVars)
  BY RoomStepIsTapeStep
<1> QED BY <1>1, <1>2, <1>3, <1>4, PTL DEF Spec, PlaysFromTape, Tape!TapeSpec
=============================================================================
