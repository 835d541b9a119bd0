-------------------------- MODULE LocalGame_proofs --------------------------
(***************************************************************************)
(* What the disk promises a local game: a reload resumes it where it       *)
(* stood, no visit to a room writes over it, and the chain a classic turn  *)
(* is summarised from is whole.                                            *)
(*                                                                         *)
(* The argument needs to know what a restore would bring while no game is  *)
(* on the screen: `RestoreIsWhole` says it of the save and the cache       *)
(* alone, and with `ReloadResumes` it speaks for the screen as well.       *)
(***************************************************************************)
EXTENDS LocalGame, SequenceTheorems, FiniteSetTheorems, WellFoundedInduction, TLAPS

\* The names a card may have.
Faces == STRING

Played == [card : Faces, completed : BOOLEAN]

\* A chain of cards that can be summarised, cached and undone.
Chained(cards) == cards \in Seq(Played) /\ cards # <<>>

PrevOk(prev) == \/ prev = NoUndoableTurn
                \/ prev.card \in Faces /\ (prev.summary = None \/ Chained(prev.summary.cards))

GameOk(g) ==
  /\ DOMAIN g = DOMAIN EmptyLobby
  /\ g.status \in {"lobby", "playing"} /\ g.cards \in Seq(Faces)
  /\ g.status = "playing" => g.currentCard \in Faces
  /\ PrevOk(g.prev)

ChainOk(c) == c = NoChain \/ (c = [cards |-> c.cards, plus |-> c.plus] /\ Chained(c.cards))
CacheOk(c) == c = NoCache \/ (Chained(c.cards) /\ c.awaiting \in BOOLEAN)

TurnTypes ==
  /\ ChainOk(chain) /\ awaiting \in BOOLEAN
  /\ awaiting => chain # NoChain
  /\ CacheOk(cache) /\ torn \in BOOLEAN /\ "dealt" \in DOMAIN opening

LocalTypes == GameOk(game) /\ (disk = NoSave \/ GameOk(disk)) /\ TurnTypes

\* What a local screen shows is the save, or the empty lobby of a lost room.
ScreenIsSave == mode = "local" => disk = game \/ game = EmptyLobby

\* The chain a restore of the save would bring back.
Bare(card) == <<[card |-> card, completed |-> FALSE]>>
Kept(saved, cached) ==
  IF cached # NoCache /\ cached.key = TurnKey(saved) THEN cached.cards ELSE Bare(saved.currentCard)

Whole(cards, dealt) ==
  /\ [k \in DOMAIN cards |-> cards[k].card] = dealt
  /\ \A k \in 1..Len(cards) - 1 : cards[k].completed

InTurn(g) == Playing(g) /\ IsClassic(g)
RestoreIsWhole == InTurn(disk) /\ ~torn => Whole(Kept(disk, cache), opening.dealt)

\* What a reload brings is what the screen shows.
ScreenIsKept ==
  InTurn(game) /\ mode = "local" /\ ~torn =>
    IF cache = NoCache \/ cache.key # TurnKey(game)
    THEN chain = NoChain /\ ~awaiting /\ input = 0
    ELSE /\ [cards |-> cache.cards, plus |-> cache.plus] = ChainOrCurrent
         /\ cache.awaiting = awaiting /\ cache.input = input

SaveInv == LocalTypes /\ ScreenIsSave /\ RestoreIsWhole /\ ScreenIsKept

-----------------------------------------------------------------------------
\* The chains.

LEMMA BareIsChained ==
  ASSUME NEW card \in Faces
  PROVE  Chained(Bare(card)) /\ Whole(Bare(card), <<card>>)
<1>1. [card |-> card, completed |-> FALSE] \in Played  BY DEF Played
<1>2. Bare(card) \in Seq(Played) /\ Bare(card) # <<>> /\ Len(Bare(card)) = 1 /\ DOMAIN Bare(card) = 1..1
      /\ Bare(card)[1] = [card |-> card, completed |-> FALSE]
  BY <1>1 DEF Bare
<1>3. [k \in DOMAIN Bare(card) |-> Bare(card)[k].card] = <<card>>
  BY <1>2
<1> QED  BY <1>2, <1>3 DEF Chained, Whole

\* Marking the last card changes nothing else of a chain.
LEMMA MarkedIsChained ==
  ASSUME NEW cards, Chained(cards), NEW done \in BOOLEAN
  PROVE  /\ Chained(MarkLast(cards, done)) /\ Len(MarkLast(cards, done)) = Len(cards)
         /\ \A k \in 1..Len(cards) : MarkLast(cards, done)[k].card = cards[k].card
         /\ \A k \in 1..Len(cards) - 1 : MarkLast(cards, done)[k] = cards[k]
         /\ MarkLast(cards, done)[Len(cards)].completed = done
<1> DEFINE n == Len(cards)  m == MarkLast(cards, done)
<1>1. cards \in Seq(Played) /\ n \in Nat /\ n >= 1 /\ DOMAIN cards = 1..n
  BY DEF Chained
<1>2. m = [cards EXCEPT ![n] = [cards[n] EXCEPT !.completed = done]]
  BY DEF MarkLast
<1>3. cards[n] \in Played  BY <1>1
<1>4. [cards[n] EXCEPT !.completed = done] \in Played /\ [cards[n] EXCEPT !.completed = done].card = cards[n].card
      /\ [cards[n] EXCEPT !.completed = done].completed = done
  BY <1>3 DEF Played
<1>5. m \in Seq(Played) /\ Len(m) = n /\ m # <<>>
  BY <1>1, <1>2, <1>4
<1>6. m[n] = [cards[n] EXCEPT !.completed = done] /\ \A k \in 1..n - 1 : m[k] = cards[k]
  BY <1>1, <1>2
<1>7. ASSUME NEW k \in 1..n PROVE m[k].card = cards[k].card
  <2>1. CASE k = n  BY <1>4, <1>6, <2>1
  <2>2. CASE k # n  BY <1>1, <1>6, <2>2
  <2> QED  BY <2>1, <2>2
<1>8. Chained(m)  BY <1>5 DEF Chained
<1> HIDE DEF m
<1> QED  BY <1>1, <1>4, <1>5, <1>6, <1>7, <1>8 DEF m

\* A marked chain tells the same cards, and is whole if it was.
LEMMA MarkedIsWhole ==
  ASSUME NEW cards, Chained(cards), NEW done \in BOOLEAN, NEW dealt, Whole(cards, dealt)
  PROVE  Whole(MarkLast(cards, done), dealt)
<1> DEFINE m == MarkLast(cards, done)
<1>1. /\ Chained(m) /\ Len(m) = Len(cards) /\ \A k \in 1..Len(cards) : m[k].card = cards[k].card
      /\ \A k \in 1..Len(cards) - 1 : m[k] = cards[k]
  BY MarkedIsChained
<1>2. DOMAIN m = 1..Len(cards) /\ DOMAIN cards = 1..Len(cards)  BY <1>1 DEF Chained
<1> HIDE DEF m
<1>3. [k \in DOMAIN m |-> m[k].card] = [k \in DOMAIN cards |-> cards[k].card]
  BY <1>1, <1>2
<1> QED  BY <1>1, <1>3 DEF Whole, m

\* Drawing on: the card in play is completed, the drawn one follows it.
LEMMA DrawnIsWhole ==
  ASSUME NEW cards, Chained(cards), NEW dealt, Whole(cards, dealt), NEW drawn \in Faces
  PROVE  Whole(Append(MarkLast(cards, TRUE), [card |-> drawn, completed |-> FALSE]), Append(dealt, drawn))
<1> DEFINE n == Len(cards)  m == MarkLast(cards, TRUE)  new == [card |-> drawn, completed |-> FALSE]
           r == Append(m, new)
<1>1. /\ Chained(m) /\ Len(m) = n /\ \A k \in 1..n : m[k].card = cards[k].card
      /\ \A k \in 1..n - 1 : m[k] = cards[k]
      /\ m[n].completed = TRUE
  BY MarkedIsChained
<1>a. new \in Played  BY DEF Played
<1> HIDE DEF m, new
<1>2. n \in Nat /\ DOMAIN cards = 1..n /\ cards \in Seq(Played) /\ m \in Seq(Played) /\ new \in Played
  BY <1>1, <1>a DEF Chained
<1> HIDE DEF n
<1>3. Len(r) = n + 1 /\ DOMAIN r = 1..n + 1 /\ r[n + 1] = new /\ \A k \in 1..n : r[k] = m[k]
  BY <1>1, <1>2
<1>4. dealt = [k \in 1..n |-> cards[k].card]  BY <1>2 DEF Whole
<1>5. ASSUME NEW k \in 1..n PROVE cards[k].card \in Faces
  <2>1. cards[k] \in Played  BY <1>2
  <2> QED  BY <2>1 DEF Played
<1>6. dealt \in Seq(Faces) /\ Len(dealt) = n  BY <1>2, <1>4, <1>5
<1>7. new.card = drawn  BY DEF new
<1>8. Append(dealt, drawn) \in Seq(Faces) /\ Len(Append(dealt, drawn)) = n + 1
      /\ Append(dealt, drawn)[n + 1] = drawn /\ \A k \in 1..n : Append(dealt, drawn)[k] = dealt[k]
  BY <1>2, <1>6
<1>9. [k \in 1..n + 1 |-> r[k].card] = Append(dealt, drawn)
  <2> DEFINE a == Append(dealt, drawn)
  <2>1. a = [k \in 1..n + 1 |-> a[k]]
    <3>1. a \in Seq(Faces) /\ Len(a) = n + 1  BY <1>8
    <3> HIDE DEF a
    <3>2. a \in [1..Len(a) -> Faces]  BY <3>1, LenProperties
    <3> QED  BY <3>1, <3>2
  <2>2. ASSUME NEW k \in 1..n + 1 PROVE r[k].card = a[k]
    BY <1>1, <1>2, <1>3, <1>4, <1>7, <1>8
  <2> HIDE DEF a, r
  <2> QED  BY <2>1, <2>2 DEF a
<1>10. ASSUME NEW k \in 1..Len(r) - 1 PROVE r[k].completed
  <2>1. k \in 1..n /\ r[k] = m[k]  BY <1>2, <1>3
  <2>2. CASE k = n  BY <1>1, <2>1, <2>2
  <2>3. CASE k # n  BY <1>1, <1>2, <2>1, <2>3 DEF Whole, n
  <2> QED  BY <2>2, <2>3
<1> QED  BY <1>3, <1>9, <1>10 DEF Whole, m, new

LEMMA DrawnIsChained ==
  ASSUME NEW cards, Chained(cards), NEW drawn \in Faces
  PROVE  Chained(Append(MarkLast(cards, TRUE), [card |-> drawn, completed |-> FALSE]))
<1> DEFINE m == MarkLast(cards, TRUE)  new == [card |-> drawn, completed |-> FALSE]
<1>1. Chained(m)  BY MarkedIsChained
<1>2. new \in Played  BY DEF Played
<1> HIDE DEF m, new
<1>3. Chained(Append(m, new))  BY <1>1, <1>2 DEF Chained
<1> QED  BY <1>3 DEF m, new

\* The chain so far, or the card in play alone.
SoFar(c, card) == IF c # NoChain THEN c ELSE [cards |-> Bare(card), plus |-> <<>>]

LEMMA ChainIsSoFar ==
  /\ ChainOrCurrent = SoFar(chain, game.currentCard)
  /\ ChainOrCurrent' = SoFar(chain', game'.currentCard)
BY DEF ChainOrCurrent, SoFar, NoChain, Bare

LEMMA ChainSoFar ==
  ASSUME NEW c, ChainOk(c), NEW card \in Faces
  PROVE  Chained(SoFar(c, card).cards)
         /\ SoFar(c, card) = [cards |-> SoFar(c, card).cards, plus |-> SoFar(c, card).plus]
<1>1. CASE c = NoChain
  <2>1. SoFar(c, card) = [cards |-> Bare(card), plus |-> <<>>]
    BY <1>1 DEF SoFar
  <2>2. Chained(Bare(card))  BY BareIsChained
  <2> QED  BY <2>1, <2>2
<1>2. CASE c # NoChain  BY <1>2 DEF SoFar, ChainOk
<1> QED  BY <1>1, <1>2

-----------------------------------------------------------------------------
\* The engine's results.

LEMMA TurnLeavesRecord ==
  ASSUME NEW g, NEW score, NEW success, NEW summary,
         g.currentCard \in Faces, summary = None \/ Chained(summary.cards)
  PROVE  PrevOk(CalculateNextTurn(g, score, success, summary).prev)
<1> DEFINE r == CalculateNextTurn(g, score, success, summary)
<1>1. /\ r.prev.card = g.currentCard
      /\ summary = None => r.prev.summary = None
      /\ summary # None => r.prev.summary.cards = summary.cards
  BY DEF CalculateNextTurn, PayActor, TurnResult
<1> HIDE DEF r
<1> QED  BY <1>1 DEF PrevOk, r

\* The cards an undo puts back are cards.
LEMMA UndoDealsCards ==
  ASSUME NEW g, GameOk(g), g.status = "playing", CanUndoState(g)
  PROVE  CalculateUndo(g, <<>>).drawnCard \in Faces /\ CalculateUndo(g, <<>>).newDeck \in Seq(Faces)
<1> DEFINE r == CalculateUndo(g, <<>>)
           back == g.prev.summary
           faces == IF back = None THEN <<g.prev.card>> ELSE [k \in DOMAIN back.cards |-> back.cards[k].card]
           face == InProgressChainCards(g.currentCard, <<>>)
<1>1. r.drawnCard = Head(faces) /\ r.newDeck = Tail(faces) \o face \o g.cards
  BY DEF CalculateUndo
<1>2. g.currentCard \in Faces /\ g.cards \in Seq(Faces) /\ PrevOk(g.prev) /\ g.prev.card # None
  BY DEF GameOk, CanUndoState
<1>3. g.prev.card \in Faces /\ (back = None \/ Chained(back.cards))
  BY <1>2 DEF PrevOk, NoUndoableTurn
<1>4. faces \in Seq(Faces) /\ faces # <<>>
  <2>1. CASE back = None  BY <1>3, <2>1
  <2>2. CASE back # None
    <3> DEFINE cards == back.cards
    <3>1. cards \in Seq(Played) /\ cards # <<>>  BY <1>3, <2>2 DEF Chained
    <3>2. faces = [k \in DOMAIN cards |-> cards[k].card]  BY <2>2
    <3> HIDE DEF cards, faces
    <3>3. Len(cards) \in Nat /\ Len(cards) >= 1 /\ DOMAIN cards = 1..Len(cards)  BY <3>1
    <3>4. ASSUME NEW k \in 1..Len(cards) PROVE cards[k].card \in Faces
      <4>1. cards[k] \in Played  BY <3>1
      <4> QED  BY <4>1 DEF Played
    <3>5. faces \in Seq(Faces) /\ Len(faces) = Len(cards)
      BY <3>2, <3>3, <3>4
    <3> QED  BY <3>3, <3>5
  <2> QED  BY <2>1, <2>2
<1>5. face \in Seq(Faces)  BY <1>2 DEF InProgressChainCards
<1> HIDE DEF r, faces, face
<1>6. Head(faces) \in Faces /\ Tail(faces) \in Seq(Faces)  BY <1>4
<1>7. Tail(faces) \o face \o g.cards \in Seq(Faces)  BY <1>2, <1>5, <1>6
<1> QED  BY <1>1, <1>6, <1>7 DEF r

-----------------------------------------------------------------------------
\* What the changes of the store have in common.

LEMMA DeckDeals ==
  ASSUME LocalAssumption, NEW cards \in Seq(Faces), NEW deck, deck \in (IF cards = <<>> THEN Decks ELSE {cards})
  PROVE  Head(deck) \in Faces /\ Tail(deck) \in Seq(Faces)
<1>1. deck \in Seq(Faces) /\ deck # <<>>  BY DEF LocalAssumption, Faces
<1> QED  BY <1>1

LEMMA EmptyIsOk == GameOk(EmptyLobby) /\ ~Playing(EmptyLobby) /\ EmptyLobby.status = "lobby"
                   /\ EmptyLobby.players = <<>>
<1>1. PrevOk(EmptyLobby.prev)  BY DEF EmptyLobby, PrevOk
<1> QED  BY <1>1 DEF GameOk, EmptyLobby, Playing

LEMMA SavedIsOk ==
  ASSUME LocalAssumption, LocalTypes
  PROVE  /\ GameOk(Saved)
         /\ Playing(disk) => Saved = disk
         /\ Playing(Saved) => Saved = disk
<1>1. disk = NoSave => ~Playing(disk)  BY DEF NoSave, Playing, LocalAssumption
<1> QED  BY <1>1, EmptyIsOk DEF Saved, LocalTypes

\* A cache thrown away is marked, where a saved game is in progress.
LEMMA ClearedIsMarked ==
  ASSUME LocalTypes, ClearCaches
  PROVE  CacheOk(cache') /\ torn' \in BOOLEAN /\ (Playing(disk) => torn')
BY DEF ClearCaches, LocalTypes, TurnTypes, CacheOk, Playing

\* While the save is left alone the restore it promises stays whole.
LEMMA SaveLeftAlone ==
  ASSUME SaveInv, disk' = disk, opening' = opening, UNCHANGED <<cache, torn>> \/ ClearCaches
  PROVE  RestoreIsWhole' /\ CacheOk(cache') /\ torn' \in BOOLEAN
<1>1. CASE UNCHANGED <<cache, torn>>
  BY <1>1 DEF SaveInv, RestoreIsWhole, LocalTypes, TurnTypes
<1>2. CASE ClearCaches
  BY <1>2, ClearedIsMarked DEF SaveInv, RestoreIsWhole, InTurn
<1> QED  BY <1>1, <1>2

\* A turn begins: nothing of it is cached, and nothing else is needed.
LEMMA TurnBegins ==
  ASSUME SaveInv, mode = "local", mode' = "local", game # EmptyLobby, GameOk(game'),
         Persist(FALSE), FreshTurn, cache' = NoCache, torn' \in BOOLEAN, "dealt" \in DOMAIN opening',
         InTurn(game') => opening'.dealt = <<game'.currentCard>>
  PROVE  SaveInv'
<1>1. disk' = game'  BY DEF SaveInv, ScreenIsSave, Persist
<1>2. LocalTypes'
  BY <1>1 DEF LocalTypes, TurnTypes, FreshTurn, ChainOk, CacheOk
<1>3. ScreenIsSave'  BY <1>1 DEF ScreenIsSave
<1>4. RestoreIsWhole'
  <2> SUFFICES ASSUME InTurn(game') PROVE Whole(Kept(game', cache'), opening'.dealt)
    BY <1>1 DEF RestoreIsWhole
  <2>1. game'.currentCard \in Faces  BY DEF InTurn, Playing, GameOk
  <2>2. Kept(game', cache') = Bare(game'.currentCard)  BY DEF Kept
  <2> QED  BY <2>1, <2>2, BareIsChained
<1>5. ScreenIsKept'  BY DEF ScreenIsKept, FreshTurn
<1> QED  BY <1>2, <1>3, <1>4, <1>5 DEF SaveInv

\* The turn goes on: what it is by now is written through.
LEMMA TurnGoesOn ==
  ASSUME SaveInv, mode = "local", mode' = "local", Playing(game), Playing(game'), GameOk(game'),
         disk' = game', WriteThrough, ChainOk(chain'), awaiting' \in BOOLEAN, awaiting' => chain' # NoChain,
         torn' = torn, "dealt" \in DOMAIN opening', InTurn(game') /\ ~torn => Whole(ChainOrCurrent'.cards, opening'.dealt)
  PROVE  SaveInv'
<1> DEFINE soFar == SoFar(chain', game'.currentCard)
<1>1. game'.currentCard \in Faces  BY DEF Playing, GameOk
<1>2. Chained(soFar.cards) /\ soFar = [cards |-> soFar.cards, plus |-> soFar.plus] /\ ChainOrCurrent' = soFar
  BY <1>1, ChainSoFar, ChainIsSoFar
<1>3. ScreenIsSave'  BY DEF ScreenIsSave
<1>4. CASE ~InTurn(game')
  <2>1. cache' = cache  BY <1>4 DEF WriteThrough, InTurn
  <2>2. LocalTypes'  BY <2>1 DEF LocalTypes, TurnTypes, SaveInv
  <2> QED  BY <1>3, <1>4, <2>2 DEF SaveInv, RestoreIsWhole, ScreenIsKept
<1>5. CASE InTurn(game') /\ chain' = NoChain /\ input' = 0
  <2>1. cache' = NoCache /\ ~awaiting'  BY <1>5 DEF WriteThrough, InTurn
  <2>2. LocalTypes'  BY <2>1 DEF LocalTypes, TurnTypes, SaveInv, CacheOk
  <2>3. ScreenIsKept'  BY <1>5, <2>1 DEF ScreenIsKept
  <2>4. Kept(game', cache') = soFar.cards  BY <1>5, <2>1 DEF Kept, SoFar
  <2>5. RestoreIsWhole'  BY <1>2, <2>4 DEF RestoreIsWhole
  <2> QED  BY <1>3, <2>2, <2>3, <2>5 DEF SaveInv
<1>6. CASE InTurn(game') /\ ~(chain' = NoChain /\ input' = 0)
  <2>1. /\ cache'.key = TurnKey(game') /\ cache'.cards = soFar.cards /\ cache'.plus = soFar.plus
        /\ cache'.awaiting = awaiting' /\ cache'.input = input'
        /\ DOMAIN cache' = {"key", "awaiting", "input", "plus", "cards"}
    BY <1>6 DEF WriteThrough, InTurn, SoFar, Bare, NoChain
  <2>2. cache' # NoCache  BY <2>1 DEF NoCache
  <2>3. LocalTypes'  BY <1>2, <2>1 DEF LocalTypes, TurnTypes, SaveInv, CacheOk
  <2>4. ScreenIsKept'  BY <1>2, <2>1, <2>2 DEF ScreenIsKept
  <2>5. Kept(game', cache') = soFar.cards  BY <2>1, <2>2 DEF Kept
  <2>6. RestoreIsWhole'  BY <1>2, <2>5 DEF RestoreIsWhole
  <2> QED  BY <1>3, <2>3, <2>4, <2>6 DEF SaveInv
<1> QED  BY <1>4, <1>5, <1>6

\* The save is restored, with or without the cache of its turn.
LEMMA SaveIsRestored ==
  ASSUME LocalAssumption, SaveInv, game' = Saved, mode' = "local", Persist(FALSE), opening' = opening
  PROVE  /\ GameOk(game') /\ ScreenIsSave' /\ (disk' = NoSave \/ GameOk(disk'))
         /\ Playing(game') => disk' = game' /\ disk = game'
         /\ Playing(disk') => disk = disk' /\ game' = disk'
<1>1. /\ GameOk(Saved)
      /\ Playing(disk) => Saved = disk
      /\ Playing(Saved) => Saved = disk
  BY SavedIsOk DEF SaveInv
<1>2. disk' = game' \/ (mode = "local" /\ game' = game /\ disk' = disk)
  BY DEF Persist
<1>3. ScreenIsSave'  BY <1>2 DEF ScreenIsSave, SaveInv
<1>4. disk' = NoSave \/ GameOk(disk')  BY <1>1, <1>2 DEF SaveInv, LocalTypes
<1> QED  BY <1>1, <1>2, <1>3, <1>4

LEMMA RestoredWithCache ==
  ASSUME LocalAssumption, SaveInv, game' = Saved, mode' = "local", Persist(FALSE), ReadCache, UNCHANGED ghosts
  PROVE  SaveInv'
<1>0. opening' = opening /\ torn' = torn  BY DEF ghosts
<1>1. /\ GameOk(game') /\ ScreenIsSave' /\ (disk' = NoSave \/ GameOk(disk'))
      /\ Playing(game') => disk' = game' /\ disk = game'
      /\ Playing(disk') => disk = disk' /\ game' = disk'
  BY <1>0, SaveIsRestored
<1>2. CASE InTurn(game') /\ cache # NoCache /\ cache.key = TurnKey(game')
  <2>1. /\ chain' = [cards |-> cache.cards, plus |-> cache.plus] /\ cache' = cache
        /\ awaiting' = cache.awaiting /\ input' = cache.input
    BY <1>2 DEF ReadCache, InTurn
  <2>2. Chained(cache.cards)  BY <1>2 DEF SaveInv, LocalTypes, TurnTypes, CacheOk
  <2>3. chain' # NoChain /\ ChainOk(chain')  BY <2>1, <2>2 DEF NoChain, ChainOk, Chained
  <2>4. ChainOrCurrent' = chain'  BY <2>3 DEF ChainOrCurrent
  <2>5. LocalTypes'
    BY <1>0, <1>1, <1>2, <2>1, <2>3 DEF SaveInv, LocalTypes, TurnTypes, CacheOk
  <2>6. ScreenIsKept'  BY <1>2, <2>1, <2>4 DEF ScreenIsKept
  <2>7. RestoreIsWhole'
    BY <1>0, <1>1, <1>2, <2>1 DEF SaveInv, RestoreIsWhole, InTurn
  <2> QED  BY <1>1, <2>5, <2>6, <2>7 DEF SaveInv
<1>3. CASE ~(InTurn(game') /\ cache # NoCache /\ cache.key = TurnKey(game'))
  <2>1. FreshTurn /\ cache' = IF InTurn(game') THEN NoCache ELSE cache
    BY <1>3 DEF ReadCache, InTurn
  <2>2. ScreenIsKept'  BY <2>1 DEF ScreenIsKept, FreshTurn
  <2>3. RestoreIsWhole'
    BY <1>0, <1>1, <1>3, <2>1 DEF RestoreIsWhole, SaveInv, Kept, InTurn
  <2>4. LocalTypes'
    BY <1>0, <1>1, <2>1 DEF SaveInv, LocalTypes, TurnTypes, FreshTurn, ChainOk, CacheOk
  <2> QED  BY <1>1, <2>2, <2>3, <2>4 DEF SaveInv
<1> QED  BY <1>2, <1>3

LEMMA RestoredWithoutCache ==
  ASSUME LocalAssumption, SaveInv, game' = Saved, mode' = "local", Persist(FALSE), FreshTurn, ClearCaches,
         opening' = opening
  PROVE  SaveInv'
<1>1. /\ GameOk(game') /\ ScreenIsSave' /\ (disk' = NoSave \/ GameOk(disk'))
      /\ Playing(game') => disk' = game' /\ disk = game'
      /\ Playing(disk') => disk = disk' /\ game' = disk'
  BY SaveIsRestored
<1>2. cache' = NoCache /\ torn' \in BOOLEAN /\ (Playing(disk) => torn')
  BY ClearedIsMarked DEF ClearCaches, SaveInv
<1>3. RestoreIsWhole' /\ ScreenIsKept'
  BY <1>1, <1>2 DEF RestoreIsWhole, ScreenIsKept, InTurn
<1>4. LocalTypes'
  BY <1>1, <1>2 DEF SaveInv, LocalTypes, TurnTypes, FreshTurn, ChainOk, CacheOk
<1> QED  BY <1>1, <1>3, <1>4 DEF SaveInv

\* The local screen is left, or shows the empty lobby of a room that is gone.
LEMMA ScreenGivesWay ==
  ASSUME SaveInv, mode' # "local" \/ game' = EmptyLobby, GameOk(game'), disk' = disk, opening' = opening,
         UNCHANGED <<cache, torn>> \/ ClearCaches,
         FreshTurn \/ UNCHANGED turn
  PROVE  SaveInv'
<1>1. RestoreIsWhole' /\ CacheOk(cache') /\ torn' \in BOOLEAN  BY SaveLeftAlone
<1>a. ChainOk(chain') /\ awaiting' \in BOOLEAN /\ (awaiting' => chain' # NoChain)
  <2>1. CASE FreshTurn  BY <2>1 DEF FreshTurn, ChainOk
  <2>2. CASE UNCHANGED turn  BY <2>2 DEF SaveInv, LocalTypes, TurnTypes, turn
  <2> QED  BY <2>1, <2>2
<1>2. LocalTypes'
  BY <1>1, <1>a DEF SaveInv, LocalTypes, TurnTypes
<1>3. ScreenIsSave' /\ ScreenIsKept'
  BY EmptyIsOk DEF ScreenIsSave, ScreenIsKept, InTurn
<1> QED  BY <1>1, <1>2, <1>3 DEF SaveInv

\* The game on the screen is left as it is, its cache kept or thrown away.
LEMMA ScreenStays ==
  ASSUME SaveInv, UNCHANGED <<mode, game, turn, disk, opening>>, UNCHANGED <<cache, torn>> \/ ClearCaches
  PROVE  SaveInv'
<1>1. RestoreIsWhole' /\ CacheOk(cache') /\ torn' \in BOOLEAN  BY SaveLeftAlone
<1>2. LocalTypes'
  BY <1>1 DEF SaveInv, LocalTypes, TurnTypes, turn, ChainOk
<1>3. ScreenIsSave'  BY DEF SaveInv, ScreenIsSave
<1>4. ScreenIsKept'
  <2>1. CASE UNCHANGED <<cache, torn>>
    BY <2>1 DEF SaveInv, ScreenIsKept, turn, ChainOrCurrent
  <2>2. CASE ClearCaches
    <3>1. InTurn(game) /\ mode = "local" => Playing(disk)
      BY EmptyIsOk DEF SaveInv, ScreenIsSave, InTurn
    <3> QED  BY <2>2, <3>1, ClearedIsMarked DEF SaveInv, ScreenIsKept
  <2> QED  BY <2>1, <2>2
<1> QED  BY <1>1, <1>2, <1>3, <1>4 DEF SaveInv

\* The lobby is edited; a lobby holds no turn.
LEMMA LobbyIsEdited ==
  ASSUME SaveInv, CanAct, game.status = "lobby", NEW g, GameOk(g), g.status = "lobby", EditLobby(g)
  PROVE  SaveInv'
<1>1. game' = g /\ mode' = mode /\ mode = "local" /\ (disk' = g \/ (g = game /\ disk' = disk))
      /\ cache' = cache /\ torn' = torn /\ opening' = opening /\ UNCHANGED turn
  BY DEF EditLobby, CanAct, Persist, ghosts
<1>2. ScreenIsSave' /\ ScreenIsKept'  BY <1>1 DEF SaveInv, ScreenIsSave, ScreenIsKept, InTurn, Playing
<1>3. RestoreIsWhole'  BY <1>1 DEF SaveInv, RestoreIsWhole, InTurn, Playing
<1>4. LocalTypes'  BY <1>1 DEF SaveInv, LocalTypes, TurnTypes, turn
<1> QED  BY <1>2, <1>3, <1>4 DEF SaveInv

-----------------------------------------------------------------------------
\* One step of each part of the game.

LEMMA LobbySteps ==
  ASSUME LocalAssumption, SaveInv, Lobby
  PROVE  SaveInv'
<1> USE DEF GameOk
<1>0. GameOk(game) /\ PrevOk(NoUndoableTurn)  BY DEF SaveInv, LocalTypes, PrevOk
<1>1. ASSUME NEW name \in Roster, AddPlayer(name) PROVE SaveInv'
  <2> DEFINE g == [game EXCEPT !.players = Append(@, FreshPlayer(name))]
  <2>1. GameOk(g) /\ g.status = game.status  BY <1>0 DEF EmptyLobby
  <2> HIDE DEF g
  <2>2. CanAct /\ game.status = "lobby" /\ EditLobby(g)  BY <1>1 DEF AddPlayer, g
  <2> QED  BY <2>1, <2>2, LobbyIsEdited
<1>2. ASSUME NEW name \in Roster, RemovePlayer(name) PROVE SaveInv'
  <2> DEFINE g == [game EXCEPT !.players = RemoveAt(@, CHOOSE i \in SeatNamed(@, name) : TRUE)]
  <2>1. GameOk(g) /\ g.status = game.status  BY <1>0 DEF EmptyLobby
  <2> HIDE DEF g
  <2>2. CanAct /\ game.status = "lobby" /\ EditLobby(g)  BY <1>2 DEF RemovePlayer, g
  <2> QED  BY <2>1, <2>2, LobbyIsEdited
<1>3. ASSUME NEW rules \in Rules, SetRuleset(rules) PROVE SaveInv'
  <2> DEFINE g == [game EXCEPT !.ruleset = rules]
  <2>1. GameOk(g) /\ g.status = game.status  BY <1>0 DEF EmptyLobby
  <2> HIDE DEF g
  <2>2. CanAct /\ game.status = "lobby" /\ EditLobby(g)  BY <1>3 DEF SetRuleset, g
  <2> QED  BY <2>1, <2>2, LobbyIsEdited
<1>4. ASSUME StartGame PROVE SaveInv'
  <2>1. mode = "local" /\ mode' = "local" /\ Len(game.players) >= 2 /\ Persist(FALSE) /\ FreshTurn
        /\ cache' = NoCache /\ torn' = FALSE /\ opening' = TurnOf(game', <<>>)
    BY <1>4 DEF StartGame, CanAct
  <2>2. game # EmptyLobby  BY <2>1, EmptyIsOk
  <2>3. PICK deck \in Decks :
          game' = [game EXCEPT !.status = "playing", !.finished = FALSE, !.round = 1,
                     !.players = [i \in DOMAIN @ |-> FreshPlayer(@[i].name)],
                     !.currentPlayerIndex = 1, !.currentCard = Head(deck), !.cards = Tail(deck),
                     !.prev = NoUndoableTurn, !.chart = <<>>, !.log = <<>>]
    BY <1>4 DEF StartGame
  <2>4. Head(deck) \in Faces /\ Tail(deck) \in Seq(Faces)
    <3>1. deck \in Seq(Faces) /\ deck # <<>>  BY DEF LocalAssumption, Faces
    <3> QED  BY <3>1
  <2>5. GameOk(game')  BY <1>0, <2>3, <2>4 DEF EmptyLobby
  <2>6. opening'.dealt = <<game'.currentCard>> /\ "dealt" \in DOMAIN opening'  BY <2>1 DEF TurnOf
  <2> QED  BY <2>1, <2>2, <2>5, <2>6, TurnBegins
<1>5. ASSUME EndGame PROVE SaveInv'
  <2>1. mode = "local" /\ mode' = "local" /\ game.status = "playing" /\ Persist(FALSE) /\ FreshTurn
        /\ cache' = NoCache /\ torn' = FALSE
        /\ game' = [EmptyLobby EXCEPT !.players = [i \in DOMAIN game.players |-> FreshPlayer(game.players[i].name)],
                                      !.ruleset = game.ruleset]
    BY <1>5 DEF EndGame, CanAct
  <2>2. game # EmptyLobby  BY <2>1, EmptyIsOk
  <2>3. GameOk(game') /\ game'.status = "lobby"  BY <2>1, EmptyIsOk DEF EmptyLobby
  <2>4. ~InTurn(game') /\ "dealt" \in DOMAIN opening'  BY <1>5, <2>3 DEF EndGame, NoTurn, InTurn, Playing
  <2> QED  BY <2>1, <2>2, <2>3, <2>4, TurnBegins
<1> QED  BY <1>1, <1>2, <1>3, <1>4, <1>5 DEF Lobby

LEMMA PageSteps ==
  ASSUME LocalAssumption, SaveInv, Page
  PROVE  SaveInv'
<1>0. /\ GameOk(game) /\ GameOk(EmptyLobby)
      /\ ~Playing(EmptyLobby)
      /\ Len(EmptyLobby.players) = 0
  BY EmptyIsOk DEF SaveInv, LocalTypes
<1>1. CASE Reload
  BY <1>1, RestoredWithCache DEF Reload
<1>2. CASE OpenLink
  BY <1>0, <1>2, ScreenGivesWay DEF OpenLink, ghosts
<1>3. CASE SoftRecover
  BY <1>3, RestoredWithoutCache DEF SoftRecover
<1>4. CASE ChooseOnline
  BY <1>0, <1>4, ScreenGivesWay DEF ChooseOnline, ghosts
<1>5. CASE ChooseLocal
  BY <1>5, RestoredWithCache DEF ChooseLocal
<1>6. CASE JoinRoom
  BY <1>0, <1>6, ScreenGivesWay DEF JoinRoom
<1>7. CASE Reconnect
  BY <1>7, ScreenStays DEF Reconnect, ghosts
<1>8. CASE Reconnected
  BY <1>0, <1>8, ScreenGivesWay DEF Reconnected
<1>9. CASE ReconnectFails
  BY <1>9, ScreenStays DEF ReconnectFails, ghosts
<1>10. CASE DeclineReconnect
  BY <1>10, ScreenStays DEF DeclineReconnect
<1>11. CASE LoseRoom
  <2>1. disk' = disk  BY <1>11 DEF LoseRoom, Persist
  <2> QED  BY <1>0, <1>11, <2>1, ScreenGivesWay DEF LoseRoom
<1>12. CASE LeaveRoom
  BY <1>12, RestoredWithoutCache DEF LeaveRoom
<1>13. CASE HardReset
  <2>1. game' = EmptyLobby /\ FreshTurn /\ cache' = NoCache /\ disk' = NoSave /\ opening' = NoTurn /\ torn' = FALSE
    BY <1>13 DEF HardReset
  <2>2. LocalTypes'  BY <1>0, <2>1 DEF LocalTypes, TurnTypes, FreshTurn, ChainOk, CacheOk, NoTurn
  <2>3. ScreenIsSave' /\ ScreenIsKept'  BY <1>0, <2>1 DEF ScreenIsSave, ScreenIsKept, InTurn
  <2>4. RestoreIsWhole'  BY <2>1 DEF RestoreIsWhole, InTurn, Playing, NoSave, LocalAssumption
  <2> QED  BY <2>2, <2>3, <2>4 DEF SaveInv
<1> QED  BY <1>1, <1>2, <1>3, <1>4, <1>5, <1>6, <1>7, <1>8, <1>9, <1>10, <1>11, <1>12, <1>13 DEF Page

\* While a game is played here, the save is the game and the chain is whole.
LEMMA ScreenIsWhole ==
  ASSUME SaveInv, mode = "local", Playing(game)
  PROVE  /\ disk = game /\ game # EmptyLobby
         /\ game.currentCard \in Faces /\ ChainOk(chain) /\ GameOk(game)
         /\ InTurn(game) /\ ~torn => Whole(ChainOrCurrent.cards, opening.dealt)
<1>1. disk = game /\ game # EmptyLobby  BY EmptyIsOk DEF SaveInv, ScreenIsSave
<1>2. game.currentCard \in Faces /\ ChainOk(chain) /\ GameOk(game)
  BY DEF SaveInv, LocalTypes, TurnTypes, GameOk, Playing
<1>3. ASSUME InTurn(game), ~torn PROVE Whole(ChainOrCurrent.cards, opening.dealt)
  <2>1. Whole(Kept(game, cache), opening.dealt)  BY <1>1, <1>3 DEF SaveInv, RestoreIsWhole
  <2>2. CASE cache # NoCache /\ cache.key = TurnKey(game)
    <3>1. [cards |-> cache.cards, plus |-> cache.plus] = ChainOrCurrent
      BY <1>3, <2>2 DEF SaveInv, ScreenIsKept
    <3>2. ChainOrCurrent.cards = cache.cards  BY <3>1
    <3> QED  BY <2>1, <2>2, <3>2 DEF Kept
  <2>3. CASE ~(cache # NoCache /\ cache.key = TurnKey(game))
    <3>1. chain = NoChain  BY <1>3, <2>3 DEF SaveInv, ScreenIsKept
    <3>2. ChainOrCurrent.cards = Bare(game.currentCard)  BY <3>1, ChainIsSoFar DEF SoFar
    <3> QED  BY <2>1, <2>3, <3>2 DEF Kept
  <2> QED  BY <2>2, <2>3
<1> QED  BY <1>1, <1>2, <1>3

LEMMA ChainInPlay ==
  ASSUME SaveInv, MyTurn
  PROVE  Chained(ChainOrCurrent.cards)
<1>1. ChainOk(chain) /\ game.currentCard \in Faces  BY ScreenIsWhole DEF MyTurn, CanAct
<1> QED  BY <1>1, ChainIsSoFar, ChainSoFar

LEMMA SummaryIsChained ==
  ASSUME SaveInv, MyTurn, NEW ended, NEW last \in BOOLEAN, NEW forfeited
  PROVE  Chained(Summary(ended, last, forfeited).cards)
<1> DEFINE done == last /\ ended # "null"
<1>1. done \in BOOLEAN  OBVIOUS
<1>2. Summary(ended, last, forfeited).cards = MarkLast(ChainOrCurrent.cards, done)
  BY DEF Summary
<1> HIDE DEF done
<1> QED  BY <1>1, <1>2, ChainInPlay, MarkedIsChained

\* Whatever the turn came to, the next one begins.
LEMMA TurnIsCommitted ==
  ASSUME LocalAssumption, SaveInv, MyTurn, NEW r, PrevOk(r.prev), Committed(r)
  PROVE  SaveInv'
<1>1. mode = "local" /\ mode' = "local" /\ Persist(FALSE) /\ FreshTurn /\ cache' = NoCache /\ torn' = FALSE
  BY DEF Committed, MyTurn, CanAct
<1>2. game # EmptyLobby /\ GameOk(game)  BY <1>1, ScreenIsWhole DEF MyTurn
<1>3. game.cards \in Seq(Faces)  BY <1>2 DEF GameOk
<1> DEFINE chart == IF r.order.isRoundEnd THEN Append(game.chart, Scores(r.players)) ELSE game.chart
           table == [game EXCEPT !.players = r.players, !.prev = r.prev, !.log = Enter(@, r.entry), !.chart = chart]
<1>4. GameOk(table) /\ table.status = game.status
  BY <1>2 DEF GameOk, EmptyLobby
<1>a. "dealt" \in DOMAIN opening'  BY DEF Committed, NoTurn, TurnOf
<1>5. \/ r.order.isGameOver /\ game' = [table EXCEPT !.finished = TRUE, !.currentPlayerIndex = 0]
      \/ /\ ~r.order.isGameOver
         /\ opening' = TurnOf(game', Append(opening.turns, r.entry))
         /\ \E deck \in IF game.cards = <<>> THEN Decks ELSE {game.cards} :
              game' = [table EXCEPT !.currentPlayerIndex = r.order.nextIndex, !.round = r.order.nextRound,
                                    !.currentCard = Head(deck), !.cards = Tail(deck)]
  BY DEF Committed
<1> HIDE DEF table
<1>6. CASE game' = [table EXCEPT !.finished = TRUE, !.currentPlayerIndex = 0]
  <2>1. GameOk(game') /\ game'.finished = TRUE  BY <1>4, <1>6 DEF GameOk, EmptyLobby
  <2>2. ~InTurn(game')  BY <2>1 DEF InTurn, Playing
  <2> QED  BY <1>1, <1>2, <1>a, <2>1, <2>2, TurnBegins
<1>7. CASE /\ opening' = TurnOf(game', Append(opening.turns, r.entry))
           /\ \E deck \in IF game.cards = <<>> THEN Decks ELSE {game.cards} :
                game' = [table EXCEPT !.currentPlayerIndex = r.order.nextIndex, !.round = r.order.nextRound,
                                      !.currentCard = Head(deck), !.cards = Tail(deck)]
  <2>1. PICK deck \in IF game.cards = <<>> THEN Decks ELSE {game.cards} :
          game' = [table EXCEPT !.currentPlayerIndex = r.order.nextIndex, !.round = r.order.nextRound,
                                !.currentCard = Head(deck), !.cards = Tail(deck)]
    BY <1>7
  <2>2. Head(deck) \in Faces /\ Tail(deck) \in Seq(Faces)  BY <1>3, <2>1, DeckDeals
  <2>3. GameOk(game')  BY <1>4, <2>1, <2>2 DEF GameOk, EmptyLobby
  <2>4. opening'.dealt = <<game'.currentCard>>  BY <1>7 DEF TurnOf
  <2> QED  BY <1>1, <1>2, <1>a, <2>3, <2>4, TurnBegins
<1> QED  BY <1>5, <1>6, <1>7

LEMMA CommitKeeps ==
  ASSUME LocalAssumption, SaveInv, MyTurn, NEW score, NEW success, NEW summary,
         summary = None \/ Chained(summary.cards), CommitTurn(score, success, summary)
  PROVE  SaveInv'
<1>1. game.currentCard \in Faces  BY ScreenIsWhole DEF MyTurn, CanAct
<1>2. PrevOk(CalculateNextTurn(game, score, success, summary).prev)  BY <1>1, TurnLeavesRecord
<1> QED  BY <1>2, TurnIsCommitted DEF CommitTurn

LEMMA PhysicalCommitKeeps ==
  ASSUME LocalAssumption, SaveInv, MyTurn, NEW ended, NEW last \in BOOLEAN, CommitPhysicalTurn(ended, last)
  PROVE  SaveInv'
<1>1. Chained(Summary(ended, last, input).cards)  BY SummaryIsChained
<1> QED  BY <1>1, CommitKeeps DEF CommitPhysicalTurn

LEMMA TurnSteps ==
  ASSUME LocalAssumption, SaveInv, Turn
  PROVE  SaveInv'
<1> USE DEF CanAct
<1>1. ASSUME NEW n \in Totals, TypeTotal(n) PROVE SaveInv'
  <2>1. /\ MyTurn /\ mode' = mode /\ game' = game /\ chain' = chain /\ awaiting' = awaiting /\ disk' = disk
        /\ opening' = opening /\ torn' = torn /\ WriteThrough
    BY <1>1 DEF TypeTotal, ghosts
  <2>2. mode = "local" /\ Playing(game)  BY <2>1 DEF MyTurn
  <2>3. /\ disk = game /\ ChainOk(chain) /\ GameOk(game)
        /\ InTurn(game) /\ ~torn => Whole(ChainOrCurrent.cards, opening.dealt)
    BY <2>2, ScreenIsWhole
  <2>4. awaiting \in BOOLEAN /\ (awaiting => chain # NoChain)  BY DEF SaveInv, LocalTypes, TurnTypes
  <2>5. ChainOrCurrent' = ChainOrCurrent /\ "dealt" \in DOMAIN opening'
    BY <2>1 DEF ChainOrCurrent, SaveInv, LocalTypes, TurnTypes
  <2> QED  BY <2>1, <2>2, <2>3, <2>4, <2>5, TurnGoesOn
<1>2. ASSUME NEW success \in BOOLEAN, Answer(success) PROVE SaveInv'
  <2>0. MyTurn  BY <1>2 DEF Answer
  <2>1. CASE ~IsClassic(game) /\ CommitTurn(0, success, None)
    BY <2>0, <2>1, CommitKeeps
  <2>2. CASE CommitPhysicalTurn(IF success THEN "banked" ELSE "null", success)
    BY <2>0, <2>2, PhysicalCommitKeeps
  <2>3. CASE /\ IsClassic(game) /\ game.currentCard # "Kleeblatt" /\ success
             /\ chain' = [cards |-> MarkLast(ChainOrCurrent.cards, TRUE),
                          plus |-> ChainOrCurrent.plus
                                     \o (IF game.currentCard = "Plus_Minus" THEN <<input>> ELSE <<>>)]
             /\ awaiting' = TRUE
             /\ input' = input + (IF game.currentCard = "Plus_Minus" THEN PLUS_MINUS_SCORE ELSE KNIFFEL_SCORE)
             /\ UNCHANGED <<mode, offer, game, disk, ghosts>>
             /\ WriteThrough
    <3>1. /\ mode' = mode /\ game' = game /\ disk' = disk /\ opening' = opening /\ torn' = torn
          /\ chain'.cards = MarkLast(ChainOrCurrent.cards, TRUE)
          /\ chain' = [cards |-> chain'.cards, plus |-> chain'.plus]
      BY <2>3 DEF ghosts
    <3>2. mode = "local" /\ Playing(game)  BY <2>0 DEF MyTurn
    <3>3. /\ disk = game /\ GameOk(game)
          /\ InTurn(game) /\ ~torn => Whole(ChainOrCurrent.cards, opening.dealt)
      BY <3>2, ScreenIsWhole
    <3> DEFINE marked == MarkLast(ChainOrCurrent.cards, TRUE)
    <3>4. /\ Chained(marked)
          /\ InTurn(game) /\ ~torn => Whole(marked, opening.dealt)
      BY <2>0, <3>3, ChainInPlay, MarkedIsChained, MarkedIsWhole
    <3> HIDE DEF marked
    <3>5. chain'.cards = marked  BY <3>1 DEF marked
    <3>6. chain' # NoChain  BY <3>4, <3>5 DEF NoChain, Chained
    <3>7. ChainOk(chain') /\ ChainOrCurrent' = chain'  BY <3>1, <3>4, <3>5, <3>6 DEF ChainOk, ChainOrCurrent
    <3>8. awaiting' \in BOOLEAN /\ WriteThrough /\ "dealt" \in DOMAIN opening'
      BY <2>3, <3>1 DEF SaveInv, LocalTypes, TurnTypes
    <3> QED  BY <3>1, <3>2, <3>3, <3>4, <3>5, <3>6, <3>7, <3>8, TurnGoesOn
  <2> QED  BY <1>2, <2>1, <2>2, <2>3 DEF Answer
<1>3. ASSUME NextTurn PROVE SaveInv'
  <2> DEFINE banked == input > 0
             completed == awaiting \/ (game.currentCard = "Feuerwerk" /\ banked)
             ended == IF banked THEN "banked" ELSE "null"
             summary == IF IsClassic(game) THEN Summary(ended, completed, 0) ELSE None
  <2>1. MyTurn /\ CommitTurn(input, banked, summary)  BY <1>3 DEF NextTurn
  <2>2. completed \in BOOLEAN  OBVIOUS
  <2> HIDE DEF banked, completed, ended
  <2>3. summary = None \/ Chained(summary.cards)  BY <2>1, <2>2, SummaryIsChained
  <2> HIDE DEF summary
  <2> QED  BY <2>1, <2>3, CommitKeeps
<1>4. ASSUME Bust PROVE SaveInv'
  BY <1>4, PhysicalCommitKeeps DEF Bust
<1>5. ASSUME Continue PROVE SaveInv'
  BY <1>5, PhysicalCommitKeeps, CommitKeeps DEF Continue
<1>6. ASSUME Draw PROVE SaveInv'
  <2>1. /\ MyTurn /\ mode' = mode /\ torn' = torn
        /\ chain' = RecordDraw(game'.currentCard)
        /\ opening' = [opening EXCEPT !.dealt = Append(@, game'.currentCard)]
        /\ awaiting' = FALSE /\ Persist(FALSE) /\ WriteThrough
    BY <1>6 DEF Draw
  <2>2. mode = "local" /\ Playing(game)  BY <2>1 DEF MyTurn
  <2>3. /\ disk = game /\ GameOk(game)
        /\ InTurn(game) /\ ~torn => Whole(ChainOrCurrent.cards, opening.dealt)
    BY <2>2, ScreenIsWhole
  <2>4. PICK deck \in IF game.cards = <<>> THEN Decks ELSE {game.cards} :
          game' = [game EXCEPT !.currentCard = Head(deck), !.cards = Tail(deck)]
    BY <1>6 DEF Draw, DrawCardMidTurn
  <2>5. Head(deck) \in Faces /\ Tail(deck) \in Seq(Faces)  BY <2>3, <2>4, DeckDeals DEF GameOk
  <2>6. GameOk(game') /\ Playing(game') /\ game'.currentCard \in Faces /\ game'.ruleset = game.ruleset
    BY <2>2, <2>3, <2>4, <2>5 DEF GameOk, EmptyLobby, Playing
  <2>7. disk' = game'  BY <2>1, <2>2, <2>3 DEF Persist
  <2>8. ChainOrCurrent = [cards |-> ChainOrCurrent.cards, plus |-> ChainOrCurrent.plus]
        /\ Chained(ChainOrCurrent.cards)
    BY <2>2, ScreenIsWhole, ChainIsSoFar, ChainSoFar
  <2> DEFINE cards == ChainOrCurrent.cards
             drawn == game'.currentCard
             more == Append(MarkLast(cards, TRUE), [card |-> drawn, completed |-> FALSE])
  <2>9. chain' = [cards |-> more, plus |-> ChainOrCurrent.plus]
    <3> DEFINE c == ChainOrCurrent
    <3>1. chain' = [c EXCEPT !.cards = Append(MarkLast(c.cards, TRUE), [card |-> drawn, completed |-> FALSE])]
      BY <2>1 DEF RecordDraw
    <3>2. c = [cards |-> c.cards, plus |-> c.plus] /\ c.cards = cards  BY <2>8
    <3>3. chain' = [c EXCEPT !.cards = more]  BY <3>1
    <3>4. ChainOrCurrent.plus = c.plus  OBVIOUS
    <3> HIDE DEF c, cards, more
    <3>5. chain' = [cards |-> more, plus |-> c.plus]  BY <3>2, <3>3
    <3> QED  BY <3>4, <3>5
  <2>10. Chained(more) /\ (InTurn(game) /\ ~torn => Whole(more, Append(opening.dealt, drawn)))
    BY <2>3, <2>6, <2>8, DrawnIsChained, DrawnIsWhole
  <2> HIDE DEF more
  <2>11. chain' # NoChain /\ chain'.cards = more /\ chain' = [cards |-> chain'.cards, plus |-> chain'.plus]
    BY <2>9, <2>10 DEF NoChain, Chained
  <2>12. ChainOk(chain') /\ ChainOrCurrent' = chain'  BY <2>10, <2>11 DEF ChainOk, ChainOrCurrent
  <2>13. "dealt" \in DOMAIN opening  BY DEF SaveInv, LocalTypes, TurnTypes
  <2>14. opening'.dealt = Append(opening.dealt, drawn) /\ "dealt" \in DOMAIN opening'
    BY <2>1, <2>13
  <2>15. InTurn(game') /\ ~torn => Whole(ChainOrCurrent'.cards, opening'.dealt)
    BY <2>2, <2>6, <2>10, <2>11, <2>12, <2>14 DEF InTurn, IsClassic
  <2> QED  BY <2>1, <2>2, <2>6, <2>7, <2>11, <2>12, <2>14, <2>15, TurnGoesOn
<1>7. ASSUME Undo PROVE SaveInv'
  <2> DEFINE r == CalculateUndo(game, <<>>)
  <2>1. CanAct /\ game.status = "playing" /\ CanUndoState(game) /\ Undone(r)  BY <1>7 DEF Undo
  <2>2. GameOk(game)  BY DEF SaveInv, LocalTypes
  <2>3. r.drawnCard \in Faces /\ r.newDeck \in Seq(Faces)  BY <2>1, <2>2, UndoDealsCards
  <2> HIDE DEF r
  <2>4. mode = "local" /\ mode' = "local" /\ Persist(FALSE) /\ FreshTurn /\ cache' = NoCache /\ torn' = FALSE
        /\ opening' = TurnOf(game', Front(opening.turns))
    BY <2>1 DEF Undone
  <2>5. PICK chart, log :
          game' = [game EXCEPT !.players = r.players, !.currentPlayerIndex = r.nextIndex, !.round = r.nextRound,
                     !.cards = r.newDeck, !.currentCard = r.drawnCard, !.prev = NoUndoableTurn,
                     !.chart = chart, !.log = log]
    BY <2>1 DEF Undone
  <2>6. GameOk(game')  BY <2>2, <2>3, <2>5 DEF GameOk, PrevOk, EmptyLobby
  <2>7. game # EmptyLobby  BY <2>1, EmptyIsOk
  <2>8. opening'.dealt = <<game'.currentCard>> /\ "dealt" \in DOMAIN opening'  BY <2>4 DEF TurnOf
  <2> QED  BY <2>4, <2>6, <2>7, <2>8, TurnBegins
<1> QED  BY <1>1, <1>2, <1>3, <1>4, <1>5, <1>6, <1>7 DEF Turn

-----------------------------------------------------------------------------

LEMMA SaveBegins == LocalAssumption /\ Init => SaveInv
<1> SUFFICES ASSUME LocalAssumption, Init PROVE SaveInv  OBVIOUS
<1>1. game = EmptyLobby /\ chain = NoChain /\ awaiting = FALSE /\ disk = NoSave /\ cache = NoCache
      /\ opening = NoTurn /\ torn = FALSE
  BY DEF Init
<1>2. LocalTypes  BY <1>1, EmptyIsOk DEF LocalTypes, TurnTypes, ChainOk, CacheOk, NoTurn
<1>3. ScreenIsSave /\ ScreenIsKept  BY <1>1, EmptyIsOk DEF ScreenIsSave, ScreenIsKept, InTurn
<1>4. RestoreIsWhole
  BY <1>1 DEF RestoreIsWhole, InTurn, Playing, NoSave, LocalAssumption
<1> QED  BY <1>2, <1>3, <1>4 DEF SaveInv

LEMMA SaveInvPrimed == ASSUME SaveInv, UNCHANGED vars PROVE SaveInv'
<1>1. UNCHANGED <<mode, game, turn, disk, opening>> /\ UNCHANGED <<cache, torn>>
  BY DEF vars, ghosts
<1> QED  BY <1>1, ScreenStays

LEMMA SaveIsKept == ASSUME LocalAssumption, SaveInv, [Next]_vars PROVE SaveInv'
BY LobbySteps, TurnSteps, PageSteps, SaveInvPrimed DEF Next

\* In every reachable state the save and the cache hold what the screen shows,
\* or what the screen will show again.
THEOREM SavesAreSound == Spec => []SaveInv
<1>1. Init => SaveInv  BY SaveBegins, LocalAssumption
<1>2. SaveInv /\ [Next]_vars => SaveInv'  BY SaveIsKept, LocalAssumption
<1> QED  BY <1>1, <1>2, PTL DEF Spec

\* A reload at any moment of a local game resumes it where it stood (init,
\* attachPersistence and readPhysicalChainCache).
THEOREM ReloadsResume == Spec => []ReloadResumes
<1>1. ASSUME SaveInv PROVE ReloadResumes
  <2> SUFFICES ASSUME InPlay PROVE
        /\ disk = game
        /\ IsClassic(game) /\ ~torn =>
             IF cache = NoCache \/ cache.key # TurnKey(game)
             THEN chain = NoChain /\ ~awaiting /\ input = 0
             ELSE /\ [cards |-> cache.cards, plus |-> cache.plus] = ChainOrCurrent
                  /\ cache.awaiting = awaiting /\ cache.input = input
    BY DEF ReloadResumes
  <2>1. disk = game  BY <1>1, ScreenIsWhole DEF InPlay
  <2> QED  BY <1>1, <2>1 DEF InPlay, SaveInv, ScreenIsKept, InTurn
<1> QED  BY <1>1, SavesAreSound, PTL

\* The chain a classic turn is summarised from names every card the turn has
\* dealt, in order, through draws, reloads and rooms visited in between
\* (recordDraw, the physical chain cache).
THEOREM ChainsAreWhole == Spec => []ChainIsWhole
<1>1. ASSUME SaveInv PROVE ChainIsWhole
  <2>1. ASSUME InPlay, IsClassic(game), ~torn PROVE Whole(ChainOrCurrent.cards, opening.dealt)
    BY <1>1, <2>1, ScreenIsWhole DEF InPlay, InTurn
  <2> QED  BY <2>1 DEF Whole, ChainIsWhole
<1> QED  BY <1>1, SavesAreSound, PTL

-----------------------------------------------------------------------------
\* The save of a game in progress.

\* A step that writes another save over it is one of this game, or an edit of
\* the lobby that a lost room has left on the screen.
LEMMA SaveIsWrittenOver ==
  ASSUME LocalAssumption, SaveInv, [Next]_vars, Playing(disk), disk' # disk, ~HardReset
  PROVE  mode = "local" /\ mode' = "local" /\ (game = disk \/ (game.status = "lobby" /\ game' # EmptyLobby))
<1> USE DEF CanAct
<1>0. Saved = disk /\ EmptyLobby.players = <<>> /\ DOMAIN game = DOMAIN EmptyLobby
      /\ (mode = "local" /\ game # disk => game = EmptyLobby)
      /\ EmptyLobby.status = "lobby" /\ disk.status # "lobby"
  BY SavedIsOk, EmptyIsOk DEF SaveInv, ScreenIsSave, LocalTypes, GameOk, Playing
<1>1. ASSUME NEW name \in Roster, AddPlayer(name) \/ RemovePlayer(name)
      PROVE  mode = "local" /\ mode' = "local" /\ game.status = "lobby" /\ game' # EmptyLobby
  <2>1. mode = "local" /\ mode' = "local" /\ game.status = "lobby"
    BY <1>1 DEF AddPlayer, RemovePlayer, EditLobby
  <2>2. game.players = <<>>  BY <1>0, <2>1
  <2>3. ~RemovePlayer(name)  BY <2>2 DEF RemovePlayer, SeatNamed
  <2>4. game' = [game EXCEPT !.players = Append(@, FreshPlayer(name))]
    BY <1>1, <2>3 DEF AddPlayer, EditLobby
  <2>5. "players" \in DOMAIN game  BY <1>0 DEF EmptyLobby
  <2>6. game'.players = Append(<<>>, FreshPlayer(name))  BY <2>2, <2>4, <2>5
  <2>7. game'.players # <<>>  BY <2>6
  <2> QED  BY <1>0, <2>1, <2>7
<1>2. ASSUME NEW rules \in Rules, SetRuleset(rules)
      PROVE  mode = "local" /\ mode' = "local" /\ game.status = "lobby" /\ game' # EmptyLobby
  <2>1. /\ mode = "local" /\ mode' = "local" /\ game.status = "lobby" /\ rules # game.ruleset
        /\ game' = [game EXCEPT !.ruleset = rules]
    BY <1>2 DEF SetRuleset, EditLobby
  <2>2. game'.ruleset = rules /\ game = EmptyLobby  BY <1>0, <2>1 DEF EmptyLobby
  <2> QED  BY <2>1, <2>2
<1>3. ASSUME StartGame PROVE game = disk /\ mode = "local" /\ mode' = "local"
  BY <1>0, <1>3 DEF StartGame
<1>4. ASSUME EndGame PROVE game = disk /\ mode = "local" /\ mode' = "local"
  BY <1>0, <1>4 DEF EndGame
<1>5. ASSUME Turn PROVE game = disk /\ mode = "local" /\ mode' = "local"
  <2>1. CanAct /\ game.status = "playing"
    BY <1>5 DEF Turn, TypeTotal, Answer, NextTurn, Bust, Continue, Draw, Undo, MyTurn, Playing
  <2>2. mode' = mode
    BY <1>5 DEF Turn, TypeTotal, Answer, NextTurn, Bust, Continue, Draw, Undo, Undone,
                CommitPhysicalTurn, CommitTurn, Committed
  <2> QED  BY <1>0, <2>1, <2>2
<1>6. ASSUME Page PROVE FALSE
  <2>1. disk' = disk \/ (game' = Saved /\ Persist(FALSE)) \/ Persist(TRUE)
    BY <1>6 DEF Page, Reload, OpenLink, SoftRecover, ChooseOnline, ChooseLocal, JoinRoom, Reconnect, Reconnected,
                ReconnectFails, DeclineReconnect, LoseRoom, LeaveRoom
  <2> QED  BY <1>0, <2>1 DEF Persist
<1> QED  BY <1>1, <1>2, <1>3, <1>4, <1>5, <1>6 DEF Next, Lobby, vars

\* A saved game in progress is only ever replaced by being played on, or by a
\* lobby the player edits (attachPersistence, setMode, cancelReconnect).
THEOREM SavesSurvive == Spec => SaveSurvives
<1>1. SaveInv /\ [Next]_vars =>
        [Playing(disk) /\ disk' # disk /\ ~HardReset
           => mode = "local" /\ mode' = "local" /\ (game = disk \/ (game.status = "lobby" /\ game' # EmptyLobby))]_vars
  BY SaveIsWrittenOver, LocalAssumption
<1> QED  BY <1>1, SavesAreSound, PTL DEF Spec, SaveSurvives

-----------------------------------------------------------------------------
\* The ledger: running sums.

LEMMA HasLeast ==
  ASSUME NEW T, T \subseteq Nat, T # {}
  PROVE  \E x \in T : \A y \in T : x <= y
<1> DEFINE R == {ss \in Nat \X Nat : ss[1] < ss[2]}
<1>1. IsWellFoundedOn(R, Nat)  BY NatLessThanWellFounded DEF OpToRel
<1>2. \E x \in T : \A y \in T : ~ (<<y, x>> \in R)
  <2> HIDE DEF R
  <2> QED  BY <1>1, WFMin
<1>3. \A x, y \in T : <<y, x>> \notin R => x <= y  OBVIOUS
<1> HIDE DEF R
<1> QED  BY <1>2, <1>3

\* What holds of 0, and of a number up to n when it holds of the one before,
\* holds of every number up to n.
LEMMA UpTo ==
  ASSUME NEW T, NEW n \in Nat, 0 \in T, \A i \in 1..n : i - 1 \in T => i \in T
  PROVE  \A i \in 0..n : i \in T
<1> SUFFICES ASSUME NEW i0 \in 0..n, i0 \notin T PROVE FALSE  OBVIOUS
<1> DEFINE left == {i \in 0..n : i \notin T}
<1>1. left \subseteq Nat /\ left # {}  OBVIOUS
<1>2. PICK m \in left : \A k \in left : m <= k
  <2> HIDE DEF left
  <2> QED  BY <1>1, HasLeast
<1>3. m \in 1..n /\ m \notin T
  <2>1. m \in 0..n /\ m \notin T  BY <1>2
  <2> QED  BY <2>1
<1>4. m - 1 \in left  BY <1>3
<1>5. m <= m - 1
  <2> HIDE DEF left
  <2> QED  BY <1>2, <1>4
<1> QED  BY <1>3, <1>5

\* The running sums of a sequence, one step on from f.
Summed(a, f) == [k \in 0..Len(a) |-> IF k = 0 THEN 0 ELSE f[k - 1] + a[k]]

LEMMA TotalIs ==
  ASSUME NEW a
  PROVE  Total(a) = (CHOOSE f : f = Summed(a, f))[Len(a)]
BY DEF Total, Summed

LEMMA SummedAt ==
  ASSUME NEW a, Len(a) \in Nat, NEW f
  PROVE  /\ Summed(a, f)[0] = 0
         /\ \A k \in 1..Len(a) : Summed(a, f)[k] = f[k - 1] + a[k]
BY DEF Summed

LEMMA SummedIsFunction ==
  ASSUME NEW a, NEW f, NEW g, \A k \in 0..Len(a) : Summed(a, f)[k] = Summed(a, g)[k]
  PROVE  Summed(a, f) = Summed(a, g)
BY DEF Summed

\* Functions that are running sums up to n.
Sums(a, f, n) == \A k \in 0..n : f[k] = Summed(a, f)[k]

LEMMA OnceMoreSummed ==
  ASSUME NEW a, Len(a) \in Nat, NEW f, NEW g, NEW n \in 0..Len(a), Sums(a, f, n), g = Summed(a, f)
  PROVE  \A k \in 0..Len(a) : k <= n + 1 => g[k] = Summed(a, g)[k]
<1> SUFFICES ASSUME NEW k \in 0..Len(a), k <= n + 1 PROVE g[k] = Summed(a, g)[k]  OBVIOUS
<1>1. CASE k = 0
  <2>1. Summed(a, f)[0] = 0  BY SummedAt
  <2>2. Summed(a, g)[0] = 0  BY SummedAt
  <2> QED  BY <1>1, <2>1, <2>2
<1>2. CASE k # 0
  <2>1. k \in 1..Len(a) /\ k - 1 \in 0..n  BY <1>2
  <2>2. f[k - 1] = g[k - 1]  BY <2>1 DEF Sums
  <2>3. Summed(a, f)[k] = f[k - 1] + a[k]  BY <2>1, SummedAt
  <2>4. Summed(a, g)[k] = g[k - 1] + a[k]  BY <2>1, SummedAt
  <2> QED  BY <2>2, <2>3, <2>4
<1> QED  BY <1>1, <1>2

LEMMA SumsExist ==
  ASSUME NEW a, Len(a) \in Nat
  PROVE  \E f : Sums(a, f, Len(a))
<1> DEFINE T == {n \in Nat : \E f : Sums(a, f, n)}
<1>1. 0 \in T
  <2>1. PICK f : f = Summed(a, <<>>)  OBVIOUS
  <2>2. f[0] = 0 /\ Summed(a, f)[0] = 0  BY <2>1, SummedAt
  <2>3. Sums(a, f, 0)  BY <2>2 DEF Sums
  <2> QED  BY <2>3
<1>2. ASSUME NEW n \in 1..Len(a), n - 1 \in T PROVE n \in T
  <2>1. PICK f : Sums(a, f, n - 1)  BY <1>2
  <2>2. PICK m \in 0..Len(a) : m = n - 1  OBVIOUS
  <2>3. PICK g : g = Summed(a, f)  OBVIOUS
  <2>4. \A k \in 0..Len(a) : k <= m + 1 => g[k] = Summed(a, g)[k]
    <3>1. Sums(a, f, m)  BY <2>1, <2>2
    <3> QED  BY <2>3, <3>1, OnceMoreSummed
  <2>5. Sums(a, g, n)  BY <2>2, <2>4 DEF Sums
  <2> QED  BY <2>5
<1>3. Len(a) \in T
  <2> HIDE DEF T
  <2>1. \A n \in 0..Len(a) : n \in T  BY <1>1, <1>2, UpTo
  <2> QED  BY <2>1
<1> QED  BY <1>3

\* The running sums a total is the last of.
Adds(a, s) == s[0] = 0 /\ \A k \in 1..Len(a) : s[k] = s[k - 1] + a[k]

LEMMA TotalAt ==
  ASSUME NEW a, Len(a) \in Nat
  PROVE  \E s : Adds(a, s) /\ Total(a) = s[Len(a)]
<1>1. PICK f : Sums(a, f, Len(a))  BY SumsExist
<1>2. PICK g : g = Summed(a, f)  OBVIOUS
<1>3. PICK n \in 0..Len(a) : n = Len(a)  OBVIOUS
<1>4. \A k \in 0..Len(a) : k <= n + 1 => g[k] = Summed(a, g)[k]
  <2>1. Sums(a, f, n)  BY <1>1, <1>3
  <2> QED  BY <1>2, <2>1, OnceMoreSummed
<1>5. \A k \in 0..Len(a) : Summed(a, f)[k] = Summed(a, g)[k]  BY <1>2, <1>3, <1>4
<1>6. g = Summed(a, g)  BY <1>2, <1>5, SummedIsFunction
<1>7. PICK h : h = CHOOSE x : x = Summed(a, x)  OBVIOUS
<1>8. h = Summed(a, h)  BY <1>6, <1>7
<1>9. Summed(a, h)[0] = 0 /\ \A k \in 1..Len(a) : Summed(a, h)[k] = h[k - 1] + a[k]  BY SummedAt
<1>10. Adds(a, h)  BY <1>8, <1>9 DEF Adds
<1>11. Total(a) = h[Len(a)]  BY <1>7, TotalIs
<1> QED  BY <1>10, <1>11

\* Two sequences that agree have the same running sums, as far as they agree.
LEMMA SumsAgree ==
  ASSUME NEW a, NEW b, NEW s, NEW t, Len(a) \in Nat, Len(b) \in Nat, Len(a) <= Len(b),
         Adds(a, s), Adds(b, t), \A k \in 1..Len(a) : a[k] = b[k]
  PROVE  s[Len(a)] = t[Len(a)]
<1> DEFINE T == {k \in Nat : s[k] = t[k]}
<1>1. 0 \in T  BY DEF Adds
<1>2. ASSUME NEW k \in 1..Len(a), k - 1 \in T PROVE k \in T
  <2>1. s[k - 1] = t[k - 1] /\ k \in 1..Len(b)  BY <1>2
  <2>2. s[k] = s[k - 1] + a[k] /\ t[k] = t[k - 1] + b[k]  BY <2>1 DEF Adds
  <2> QED  BY <2>1, <2>2
<1>3. Len(a) \in T
  <2> HIDE DEF T
  <2>1. \A k \in 0..Len(a) : k \in T  BY <1>1, <1>2, UpTo
  <2> QED  BY <2>1
<1> QED  BY <1>3

LEMMA SameTotal ==
  ASSUME NEW a, NEW b, Len(a) \in Nat, Len(b) = Len(a), \A k \in 1..Len(a) : a[k] = b[k]
  PROVE  Total(a) = Total(b)
<1>1. PICK s : Adds(a, s) /\ Total(a) = s[Len(a)]  BY TotalAt
<1>2. PICK t : Adds(b, t) /\ Total(b) = t[Len(b)]  BY TotalAt
<1>3. s[Len(a)] = t[Len(a)]  BY <1>1, <1>2, SumsAgree
<1> QED  BY <1>1, <1>2, <1>3

\* One number more.
LEMMA TotalOfMore ==
  ASSUME NEW a, NEW b, Len(a) \in Nat, Len(b) = Len(a) + 1, \A k \in 1..Len(a) : a[k] = b[k]
  PROVE  Total(b) = Total(a) + b[Len(b)]
<1>1. PICK s : Adds(a, s) /\ Total(a) = s[Len(a)]  BY TotalAt
<1>2. PICK t : Adds(b, t) /\ Total(b) = t[Len(b)]  BY TotalAt
<1>3. s[Len(a)] = t[Len(a)]  BY <1>1, <1>2, SumsAgree
<1>4. t[Len(b)] = t[Len(b) - 1] + b[Len(b)]
  <2>1. Len(b) \in 1..Len(b)  OBVIOUS
  <2> QED  BY <1>2, <2>1 DEF Adds
<1> QED  BY <1>1, <1>2, <1>3, <1>4

\* A sum of differences is the difference of the ends.
LEMMA Telescopes ==
  ASSUME NEW a, NEW v, Len(a) \in Nat, \A k \in 0..Len(a) : v[k] \in Int,
         \A k \in 1..Len(a) : a[k] = v[k - 1] - v[k]
  PROVE  Total(a) = v[0] - v[Len(a)]
<1>1. PICK s : Adds(a, s) /\ Total(a) = s[Len(a)]  BY TotalAt
<1> DEFINE T == {k \in Nat : s[k] = v[0] - v[k]}
<1>2. 0 \in T  BY <1>1 DEF Adds
<1>3. ASSUME NEW k \in 1..Len(a), k - 1 \in T PROVE k \in T
  <2>1. s[k] = s[k - 1] + a[k] /\ a[k] = v[k - 1] - v[k] /\ s[k - 1] = v[0] - v[k - 1]
    BY <1>1, <1>3 DEF Adds
  <2>2. PICK x \in Int, y \in Int, z \in Int : x = v[0] /\ y = v[k - 1] /\ z = v[k]  OBVIOUS
  <2>3. s[k] = x - z  BY <2>1, <2>2
  <2> QED  BY <2>2, <2>3
<1>4. Len(a) \in T
  <2> HIDE DEF T
  <2>1. \A k \in 0..Len(a) : k \in T  BY <1>2, <1>3, UpTo
  <2> QED  BY <2>1
<1> QED  BY <1>1, <1>4

\* A sum of natural numbers is one.
LEMMA TotalIsNat ==
  ASSUME NEW a, Len(a) \in Nat, \A k \in 1..Len(a) : a[k] \in Nat
  PROVE  Total(a) \in Nat
<1>1. PICK s : Adds(a, s) /\ Total(a) = s[Len(a)]  BY TotalAt
<1> DEFINE T == {k \in Nat : s[k] \in Nat}
<1>2. 0 \in T  BY <1>1 DEF Adds
<1>3. ASSUME NEW k \in 1..Len(a), k - 1 \in T PROVE k \in T
  BY <1>1, <1>3 DEF Adds
<1>4. Len(a) \in T
  <2> HIDE DEF T
  <2>1. \A k \in 0..Len(a) : k \in T  BY <1>2, <1>3, UpTo
  <2> QED  BY <2>1
<1> QED  BY <1>1, <1>4

-----------------------------------------------------------------------------
\* The deductions of a turn, one after the other.

Charged(scores, acting, befores, rules, f) ==
  [k \in 0..Len(befores) |-> IF k = 0 THEN scores ELSE AfterPlusMinus(f[k - 1], acting, befores[k], rules)]

LEMMA AfterEachIs ==
  ASSUME NEW scores, NEW acting, NEW befores, NEW rules
  PROVE  AfterEach(scores, acting, befores, rules) = CHOOSE f : f = Charged(scores, acting, befores, rules, f)
BY DEF AfterEach, Charged

LEMMA ChargedAt ==
  ASSUME NEW scores, NEW acting, NEW befores, NEW rules, Len(befores) \in Nat, NEW f
  PROVE  /\ Charged(scores, acting, befores, rules, f)[0] = scores
         /\ \A k \in 1..Len(befores) :
              Charged(scores, acting, befores, rules, f)[k] = AfterPlusMinus(f[k - 1], acting, befores[k], rules)
BY DEF Charged

LEMMA ChargedIsFunction ==
  ASSUME NEW scores, NEW acting, NEW befores, NEW rules, NEW f, NEW g,
         \A k \in 0..Len(befores) : Charged(scores, acting, befores, rules, f)[k]
                                      = Charged(scores, acting, befores, rules, g)[k]
  PROVE  Charged(scores, acting, befores, rules, f) = Charged(scores, acting, befores, rules, g)
BY DEF Charged

\* Functions that keep to the first n deductions.
Charges(scores, acting, befores, rules, f, n) ==
  \A k \in 0..n : f[k] = Charged(scores, acting, befores, rules, f)[k]

LEMMA OnceMoreCharged ==
  ASSUME NEW scores, NEW acting, NEW befores, NEW rules, Len(befores) \in Nat, NEW f, NEW g,
         NEW n \in 0..Len(befores), Charges(scores, acting, befores, rules, f, n),
         g = Charged(scores, acting, befores, rules, f)
  PROVE  \A k \in 0..Len(befores) : k <= n + 1 => g[k] = Charged(scores, acting, befores, rules, g)[k]
<1> SUFFICES ASSUME NEW k \in 0..Len(befores), k <= n + 1
             PROVE g[k] = Charged(scores, acting, befores, rules, g)[k]
  OBVIOUS
<1>1. CASE k = 0
  <2>1. Charged(scores, acting, befores, rules, f)[0] = scores  BY ChargedAt
  <2>2. Charged(scores, acting, befores, rules, g)[0] = scores  BY ChargedAt
  <2> QED  BY <1>1, <2>1, <2>2
<1>2. CASE k # 0
  <2>1. k \in 1..Len(befores) /\ k - 1 \in 0..n  BY <1>2
  <2>2. f[k - 1] = g[k - 1]  BY <2>1 DEF Charges
  <2>3. Charged(scores, acting, befores, rules, f)[k] = AfterPlusMinus(f[k - 1], acting, befores[k], rules)
    BY <2>1, ChargedAt
  <2>4. Charged(scores, acting, befores, rules, g)[k] = AfterPlusMinus(g[k - 1], acting, befores[k], rules)
    BY <2>1, ChargedAt
  <2> QED  BY <2>2, <2>3, <2>4
<1> QED  BY <1>1, <1>2

LEMMA ChargesAll ==
  ASSUME NEW scores, NEW acting, NEW befores, NEW rules, Len(befores) \in Nat
  PROVE  \E f : Charges(scores, acting, befores, rules, f, Len(befores))
<1> DEFINE T == {n \in Nat : \E f : Charges(scores, acting, befores, rules, f, n)}
<1>1. 0 \in T
  <2>1. PICK f : f = Charged(scores, acting, befores, rules, <<>>)  OBVIOUS
  <2>2. f[0] = scores  BY <2>1, ChargedAt
  <2>3. Charged(scores, acting, befores, rules, f)[0] = scores  BY ChargedAt
  <2>4. Charges(scores, acting, befores, rules, f, 0)  BY <2>2, <2>3 DEF Charges
  <2> QED  BY <2>4
<1>2. ASSUME NEW n \in 1..Len(befores), n - 1 \in T PROVE n \in T
  <2>1. PICK f : Charges(scores, acting, befores, rules, f, n - 1)  BY <1>2
  <2>2. PICK m \in 0..Len(befores) : m = n - 1  OBVIOUS
  <2>3. PICK g : g = Charged(scores, acting, befores, rules, f)  OBVIOUS
  <2>4. \A k \in 0..Len(befores) : k <= m + 1 => g[k] = Charged(scores, acting, befores, rules, g)[k]
    <3>1. Charges(scores, acting, befores, rules, f, m)  BY <2>1, <2>2
    <3> QED  BY <2>3, <3>1, OnceMoreCharged
  <2>5. Charges(scores, acting, befores, rules, g, n)  BY <2>2, <2>4 DEF Charges
  <2> QED  BY <2>5
<1>3. Len(befores) \in T
  <2> HIDE DEF T
  <2>1. \A n \in 0..Len(befores) : n \in T  BY <1>1, <1>2, UpTo
  <2> QED  BY <2>1
<1> QED  BY <1>3

LEMMA AfterEachAt ==
  ASSUME NEW scores, NEW acting, NEW befores, NEW rules, Len(befores) \in Nat
  PROVE  LET f == AfterEach(scores, acting, befores, rules)
         IN /\ f[0] = scores
            /\ \A k \in 1..Len(befores) : f[k] = AfterPlusMinus(f[k - 1], acting, befores[k], rules)
<1>1. PICK f : Charges(scores, acting, befores, rules, f, Len(befores))  BY ChargesAll
<1>2. PICK g : g = Charged(scores, acting, befores, rules, f)  OBVIOUS
<1>3. PICK n \in 0..Len(befores) : n = Len(befores)  OBVIOUS
<1>4. \A k \in 0..Len(befores) : k <= n + 1 => g[k] = Charged(scores, acting, befores, rules, g)[k]
  <2>1. Charges(scores, acting, befores, rules, f, n)  BY <1>1, <1>3
  <2> QED  BY <1>2, <2>1, OnceMoreCharged
<1>5. \A k \in 0..Len(befores) : Charged(scores, acting, befores, rules, f)[k]
                                   = Charged(scores, acting, befores, rules, g)[k]
  BY <1>2, <1>3, <1>4
<1>6. g = Charged(scores, acting, befores, rules, g)  BY <1>2, <1>5, ChargedIsFunction
<1>7. PICK h : h = AfterEach(scores, acting, befores, rules)  OBVIOUS
<1>8. h = Charged(scores, acting, befores, rules, h)  BY <1>6, <1>7, AfterEachIs
<1>9. /\ Charged(scores, acting, befores, rules, h)[0] = scores
      /\ \A k \in 1..Len(befores) :
           Charged(scores, acting, befores, rules, h)[k] = AfterPlusMinus(h[k - 1], acting, befores[k], rules)
  BY ChargedAt
<1> QED  BY <1>7, <1>8, <1>9

LEMMA PlusMinusKeeps ==
  ASSUME NEW D, NEW scores \in [D -> Int], NEW acting \in D, NEW earned, NEW rules, NEW r,
         r = AfterPlusMinus(scores, acting, earned, rules)
  PROVE  r \in [D -> Int] /\ r[acting] = scores[acting]
<1> DEFINE standing == [i \in DOMAIN scores |->
                          scores[i] + (IF rules = "classic" /\ i = acting THEN earned ELSE 0)]
           leaders == {i \in DOMAIN scores : \A j \in DOMAIN scores : standing[j] <= standing[i]}
           payers == IF rules # "classic" /\ acting \in leaders THEN {} ELSE leaders \ {acting}
           Less(n) == IF rules = "classic" THEN Floor(n - PLUS_MINUS_SCORE) ELSE n - PLUS_MINUS_SCORE
<1>1. r = [i \in DOMAIN scores |-> IF i \in payers THEN Less(scores[i]) ELSE scores[i]]
  BY DEF AfterPlusMinus
<1>2. acting \notin payers
  <2> HIDE DEF leaders
  <2> QED  OBVIOUS
<1> HIDE DEF payers
<1>3. ASSUME NEW n \in Int PROVE Less(n) \in Int  BY DEF Floor, PLUS_MINUS_SCORE
<1> HIDE DEF Less
<1> QED  BY <1>1, <1>2, <1>3

LEMMA EachKeeps ==
  ASSUME NEW D, NEW scores \in [D -> Int], NEW acting \in D, NEW befores, Len(befores) \in Nat, NEW rules,
         NEW after, after = AfterEach(scores, acting, befores, rules)
  PROVE  after[0] = scores /\ \A k \in 0..Len(befores) : after[k] \in [D -> Int] /\ after[k][acting] = scores[acting]
<1>1. after[0] = scores /\ \A k \in 1..Len(befores) : after[k] = AfterPlusMinus(after[k - 1], acting, befores[k], rules)
  BY AfterEachAt
<1> DEFINE T == {k \in Nat : after[k] \in [D -> Int] /\ after[k][acting] = scores[acting]}
<1>2. 0 \in T  BY <1>1
<1>3. ASSUME NEW k \in 1..Len(befores), k - 1 \in T PROVE k \in T
  <2>1. PICK v \in [D -> Int] : v = after[k - 1] /\ v[acting] = scores[acting]  BY <1>3
  <2>2. PICK r : r = after[k]  OBVIOUS
  <2>3. PICK b : b = befores[k]  OBVIOUS
  <2>4. r = AfterPlusMinus(v, acting, b, rules)  BY <1>1, <2>1, <2>2, <2>3
  <2>5. r \in [D -> Int] /\ r[acting] = v[acting]  BY <2>4, PlusMinusKeeps
  <2> QED  BY <2>1, <2>2, <2>5
<1>4. \A k \in 0..Len(befores) : k \in T
  <2> HIDE DEF T
  <2> QED  BY <1>2, <1>3, UpTo
<1> QED  BY <1>1, <1>4

LEMMA StaysPut ==
  ASSUME NEW v, NEW n \in Nat, \A k \in 1..n : v[k] = v[k - 1]
  PROVE  v[n] = v[0]
<1> DEFINE T == {k \in Nat : v[k] = v[0]}
<1>1. 0 \in T  OBVIOUS
<1>2. ASSUME NEW k \in 1..n, k - 1 \in T PROVE k \in T  BY <1>2
<1>3. \A k \in 0..n : k \in T
  <2> HIDE DEF T
  <2> QED  BY <1>1, <1>2, UpTo
<1> QED  BY <1>3

-----------------------------------------------------------------------------
\* What a turn's deductions do to the table and to the log.

Players == [name : Roster, score : Int, stat : [Stats -> Nat]]

\* No two players of a table have one name.
OneEach(ps) == \A i, j \in DOMAIN ps : ps[i].name = ps[j].name => i = j
Table(ps) == ps \in Seq(Players) /\ OneEach(ps)

HitIn(hits, name) == {k \in DOMAIN hits : name \in DOMAIN hits[k]}
LostIn(hits, name) == Total([k \in DOMAIN hits |-> IF name \in DOMAIN hits[k] THEN hits[k][name] ELSE 0])

\* What the deductions did to one player, and that the log tells it all.
Told(p, q, hits) ==
  \E score \in Int, times \in Nat :
    /\ q = Deducted(p, score, times)
    /\ LostIn(hits, p.name) = p.score - score
    /\ times = Cardinality(HitIn(hits, p.name))
    /\ HitIn(hits, p.name) = {} => score = p.score
    /\ Len(hits) <= 1 => times <= 1

Deducts(res, ps, acting, n) ==
  /\ DOMAIN res.players = DOMAIN ps /\ Len(res.players) = Len(ps)
  /\ res.players = [i \in DOMAIN ps |-> res.players[i]]
  /\ DOMAIN res.hits = 1..n /\ Len(res.hits) = n /\ res.hits \in Seq(Losses)
  /\ \A i \in DOMAIN ps : Told(ps[i], res.players[i], res.hits)
  /\ HitIn(res.hits, ps[acting].name) = {}

LEMMA TakenIs ==
  ASSUME NEW ps, OneEach(ps), NEW after, NEW k, DOMAIN after[k] = DOMAIN ps, NEW i \in DOMAIN ps
  PROVE  /\ ps[i].name \in DOMAIN TakenFrom(ps, after, k) <=> i \in Hit(after, k)
         /\ i \in Hit(after, k) => TakenFrom(ps, after, k)[ps[i].name] = after[k - 1][i] - after[k][i]
<1> DEFINE hit == Hit(after, k)
<1>1. hit \subseteq DOMAIN ps  BY DEF Hit
<1> HIDE DEF hit
<1>2. TakenFrom(ps, after, k)
        = [name \in {ps[j].name : j \in hit} |->
             LET j == CHOOSE j \in hit : ps[j].name = name IN after[k - 1][j] - after[k][j]]
  BY DEF TakenFrom, hit
<1>3. ps[i].name \in {ps[j].name : j \in hit} <=> i \in hit  BY <1>1 DEF OneEach
<1>4. ASSUME i \in hit PROVE (CHOOSE j \in hit : ps[j].name = ps[i].name) = i
  BY <1>1, <1>4 DEF OneEach
<1> QED  BY <1>2, <1>3, <1>4 DEF hit

LEMMA DeductTells ==
  ASSUME NEW ps, Table(ps), NEW acting \in DOMAIN ps, NEW befores, Len(befores) \in Nat, NEW rules,
         NEW res, res = Deduct(ps, acting, befores, rules)
  PROVE  Deducts(res, ps, acting, Len(befores))
<1> DEFINE n == Len(befores)
           scores == [i \in DOMAIN ps |-> ps[i].score]
           after == AfterEach(scores, acting, befores, rules)
           Times(i) == Cardinality({k \in 1..n : i \in Hit(after, k)})
<1>1. res.players = [i \in DOMAIN ps |-> Deducted(ps[i], after[n][i], Times(i))]
      /\ res.hits = [k \in 1..n |-> TakenFrom(ps, after, k)]
  BY DEF Deduct
<1>2. Len(ps) \in Nat /\ DOMAIN ps = 1..Len(ps) /\ \A i \in DOMAIN ps : ps[i] \in Players  BY DEF Table
<1>3. scores \in [DOMAIN ps -> Int] /\ \A i \in DOMAIN ps : scores[i] = ps[i].score /\ ps[i].score \in Int
  BY <1>2 DEF Players
<1> HIDE DEF scores
<1>4. after[0] = scores /\ \A k \in 0..n : after[k] \in [DOMAIN ps -> Int] /\ after[k][acting] = scores[acting]
  BY <1>3, EachKeeps
<1> HIDE DEF after
<1>5. DOMAIN res.players = DOMAIN ps /\ Len(res.players) = Len(ps) /\ DOMAIN res.hits = 1..n /\ Len(res.hits) = n
  BY <1>1, <1>2
<1>6. ASSUME NEW i \in DOMAIN ps, NEW k \in 1..n
      PROVE  /\ ps[i].name \in DOMAIN res.hits[k] <=> i \in Hit(after, k)
             /\ i \in Hit(after, k) => res.hits[k][ps[i].name] = after[k - 1][i] - after[k][i]
             /\ i \in Hit(after, k) <=> after[k][i] # after[k - 1][i]
  <2>1. res.hits[k] = TakenFrom(ps, after, k)  BY <1>1
  <2>2. DOMAIN after[k] = DOMAIN ps  BY <1>4
  <2> QED  BY <2>1, <2>2, TakenIs DEF Table, Hit
<1>7. ASSUME NEW i \in DOMAIN ps PROVE HitIn(res.hits, ps[i].name) = {k \in 1..n : i \in Hit(after, k)}
  BY <1>5, <1>6 DEF HitIn
<1>8. HitIn(res.hits, ps[acting].name) = {}
  <2>1. \A k \in 1..n : after[k][acting] = after[k - 1][acting]  BY <1>4
  <2>2. \A k \in 1..n : acting \notin Hit(after, k)  BY <1>6, <2>1
  <2> QED  BY <1>7, <2>2
<1>9. ASSUME NEW i \in DOMAIN ps PROVE Told(ps[i], res.players[i], res.hits)
  <2> DEFINE name == ps[i].name
             a == [k \in DOMAIN res.hits |-> IF name \in DOMAIN res.hits[k] THEN res.hits[k][name] ELSE 0]
             v == [k \in 0..n |-> after[k][i]]
             hit == {k \in 1..n : i \in Hit(after, k)}
  <2>1. Len(a) = n /\ \A k \in 1..n : a[k] = IF name \in DOMAIN res.hits[k] THEN res.hits[k][name] ELSE 0  BY <1>5
  <2>2. LostIn(res.hits, name) = Total(a)  BY DEF LostIn
  <2> HIDE DEF a
  <2>3. \A k \in 0..n : v[k] = after[k][i] /\ v[k] \in Int  BY <1>4
  <2> HIDE DEF v
  <2>4. ASSUME NEW k \in 1..n PROVE a[k] = v[k - 1] - v[k]
    <3>1. v[k] = after[k][i] /\ v[k - 1] = after[k - 1][i] /\ v[k] \in Int /\ v[k - 1] \in Int  BY <2>3
    <3>2. CASE i \in Hit(after, k)  BY <1>6, <2>1, <3>1, <3>2
    <3>3. CASE i \notin Hit(after, k)
      <4>1. a[k] = 0 /\ after[k][i] = after[k - 1][i]  BY <1>6, <2>1, <3>3
      <4> QED  BY <3>1, <4>1
    <3> QED  BY <3>2, <3>3
  <2>5. v[0] = ps[i].score /\ v[n] = after[n][i] /\ v[n] \in Int  BY <1>3, <1>4, <2>3
  <2>6. LostIn(res.hits, name) = ps[i].score - after[n][i]  BY <2>1, <2>2, <2>3, <2>4, <2>5, Telescopes
  <2>7. HitIn(res.hits, name) = hit  BY <1>7
  <2>8. IsFiniteSet(hit) /\ Cardinality(hit) \in Nat /\ Cardinality(hit) <= n
    <3>1. IsFiniteSet(1..n) /\ Cardinality(1..n) = n
      <4>1. PICK m \in Nat : m = n  OBVIOUS
      <4>2. IsFiniteSet(1..m) /\ Cardinality(1..m) = (IF 1 > m THEN 0 ELSE m - 1 + 1)  BY FS_Interval
      <4> QED  BY <4>1, <4>2
    <3>2. hit \subseteq 1..n  OBVIOUS
    <3> HIDE DEF hit
    <3>3. IsFiniteSet(hit) /\ Cardinality(hit) <= Cardinality(1..n)  BY <3>1, <3>2, FS_Subset
    <3>4. Cardinality(hit) \in Nat  BY <3>3, FS_CardinalityType
    <3> QED  BY <3>1, <3>3, <3>4
  <2>9. ASSUME hit = {} PROVE after[n][i] = ps[i].score
    <3>1. \A k \in 1..n : v[k] = v[k - 1]
      <4>1. ASSUME NEW k \in 1..n PROVE v[k] = v[k - 1]
        <5>1. i \notin Hit(after, k)  BY <2>9
        <5>2. after[k][i] = after[k - 1][i]  BY <1>6, <5>1
        <5> QED  BY <2>3, <5>2
      <4> QED  BY <4>1
    <3>2. v[n] = v[0]  BY <3>1, StaysPut
    <3> QED  BY <2>5, <3>2
  <2>10. res.players[i] = Deducted(ps[i], after[n][i], Cardinality(hit))  BY <1>1
  <2> HIDE DEF hit
  <2>11. PICK score \in Int, times \in Nat : score = after[n][i] /\ times = Cardinality(hit)  BY <2>5, <2>8
  <2> QED  BY <1>5, <2>6, <2>7, <2>8, <2>9, <2>10, <2>11 DEF Told
<1>10. ASSUME NEW k \in 1..n PROVE res.hits[k] \in Losses
  <2>1. DOMAIN after[k] = DOMAIN ps /\ res.hits[k] = TakenFrom(ps, after, k)  BY <1>1, <1>4
  <2>2. ASSUME NEW i \in DOMAIN ps, i \in Hit(after, k) PROVE res.hits[k][ps[i].name] \in Int
    BY <1>4, <1>6, <2>2
  <2>3. DOMAIN TakenFrom(ps, after, k) = {ps[i].name : i \in Hit(after, k)}
        /\ TakenFrom(ps, after, k) = [name \in DOMAIN TakenFrom(ps, after, k) |-> TakenFrom(ps, after, k)[name]]
    BY DEF TakenFrom
  <2>4. PICK t : t = res.hits[k]  OBVIOUS
  <2>5. DOMAIN t = {ps[i].name : i \in Hit(after, k)} /\ t = [name \in DOMAIN t |-> t[name]]  BY <2>1, <2>3, <2>4
  <2>6. Hit(after, k) \subseteq DOMAIN ps  BY <2>1 DEF Hit
  <2>7. \A i \in Hit(after, k) : ps[i].name \in Roster /\ t[ps[i].name] \in Int  BY <1>2, <2>2, <2>4, <2>6 DEF Players
  <2>8. DOMAIN t \subseteq Roster /\ \A name \in DOMAIN t : t[name] \in Int  BY <2>5, <2>7
  <2>9. PICK D : D = DOMAIN t  OBVIOUS
  <2>10. D \in SUBSET Roster /\ t \in [D -> Int]  BY <2>5, <2>8, <2>9
  <2>11. t \in Losses  BY <2>10 DEF Losses
  <2> QED  BY <2>4, <2>11
<1>11. res.hits \in Seq(Losses)
  <2>1. res.hits = [k \in 1..n |-> res.hits[k]]  BY <1>1
  <2>2. PICK h : h = res.hits  OBVIOUS
  <2>3. h = [k \in 1..n |-> h[k]] /\ \A k \in 1..n : h[k] \in Losses  BY <1>10, <2>1, <2>2
  <2>4. h \in Seq(Losses)  BY <2>3
  <2> QED  BY <2>2, <2>4
<1>12. res.players = [i \in DOMAIN ps |-> res.players[i]]  BY <1>1
<1> QED  BY <1>5, <1>8, <1>9, <1>11, <1>12 DEF Deducts

-----------------------------------------------------------------------------
\* A turn counted for a player, and taken back.

LEMMA SamePlayer ==
  ASSUME NEW p \in Players, NEW q \in Players, p.name = q.name, p.score = q.score,
         \A s \in Stats : p.stat[s] = q.stat[s]
  PROVE  p = q
<1>1. p.stat = q.stat
  <2>1. PICK f \in [Stats -> Nat], h \in [Stats -> Nat] : f = p.stat /\ h = q.stat  BY DEF Players
  <2>2. \A s \in Stats : f[s] = h[s]  BY <2>1
  <2>3. f = h  BY <2>2
  <2> QED  BY <2>1, <2>3
<1> QED  BY <1>1 DEF Players

\* A player with other counters.
LEMMA WithStat ==
  ASSUME NEW p \in Players, NEW st \in [Stats -> Nat]
  PROVE  LET q == [p EXCEPT !.stat = st]
         IN q \in Players /\ q.name = p.name /\ q.score = p.score /\ q.stat = st
BY DEF Players

LEMMA BumpIs ==
  ASSUME NEW p \in Players, NEW C, NEW q, q = Bump(p, C)
  PROVE  /\ q \in Players /\ q.name = p.name /\ q.score = p.score
         /\ \A s \in Stats : q.stat[s] = p.stat[s] + (IF s \in C THEN 1 ELSE 0)
<1>1. PICK f \in [Stats -> Nat] : f = p.stat  BY DEF Players
<1>2. PICK st : st = [s \in Stats |-> f[s] + (IF s \in C THEN 1 ELSE 0)]  OBVIOUS
<1>3. q = [p EXCEPT !.stat = st]  BY <1>1, <1>2 DEF Bump
<1>4. st \in [Stats -> Nat]  BY <1>2
<1>5. q \in Players /\ q.name = p.name /\ q.score = p.score /\ q.stat = st  BY <1>3, <1>4, WithStat
<1> QED  BY <1>1, <1>2, <1>5

LEMMA UnbumpIs ==
  ASSUME NEW p \in Players, NEW C, NEW q, q = Unbump(p, C)
  PROVE  /\ q \in Players /\ q.name = p.name /\ q.score = p.score
         /\ \A s \in Stats : q.stat[s] = IF s \in C THEN Floor(p.stat[s] - 1) ELSE p.stat[s]
<1>1. PICK f \in [Stats -> Nat] : f = p.stat  BY DEF Players
<1>2. PICK st : st = [s \in Stats |-> IF s \in C THEN Floor(f[s] - 1) ELSE f[s]]  OBVIOUS
<1>3. q = [p EXCEPT !.stat = st]  BY <1>1, <1>2 DEF Unbump
<1>4. st \in [Stats -> Nat]  BY <1>2 DEF Floor
<1>5. q \in Players /\ q.name = p.name /\ q.score = p.score /\ q.stat = st  BY <1>3, <1>4, WithStat
<1> QED  BY <1>1, <1>2, <1>5

\* What a summary adds besides the cards' counters.
Extra(summary, s) ==
  IF s = "busts" THEN IF summary.ended = "null" THEN 1 ELSE 0
  ELSE IF s = "totalTuttos" THEN summary.tuttoCount ELSE 0
ChainRecords == {"mostCardsInTurn", "highestForfeitedTurnScore"}

Summarised(summary) ==
  /\ Chained(summary.cards) /\ summary.tuttoCount \in Nat /\ summary.forfeited \in Nat
  /\ summary.plusMinusScores \in Seq(Int)

LEMMA MovesAreNat ==
  ASSUME NEW cards, Chained(cards), NEW s
  PROVE  Moves(cards, s) \in Nat
<1> DEFINE moved == {k \in DOMAIN cards : s \in CardCounter(cards[k])}
<1>1. PICK n \in Nat : n = Len(cards) /\ DOMAIN cards = 1..n  BY DEF Chained
<1>2. moved \subseteq 1..n  BY <1>1
<1>3. Moves(cards, s) = Cardinality(moved)  BY DEF Moves
<1>4. IsFiniteSet(1..n)  BY FS_Interval
<1> HIDE DEF moved
<1>5. IsFiniteSet(moved)  BY <1>2, <1>4, FS_Subset
<1>6. Cardinality(moved) \in Nat  BY <1>5, FS_CardinalityType
<1> QED  BY <1>3, <1>6

LEMMA SummaryIs ==
  ASSUME NEW p \in Players, NEW summary, Summarised(summary), NEW success \in BOOLEAN,
         NEW q, q = ApplySummary(p, summary, success)
  PROVE  /\ q \in Players /\ q.name = p.name /\ q.score = p.score
         /\ \A s \in Stats \ ChainRecords : q.stat[s] = p.stat[s] + Moves(summary.cards, s) + Extra(summary, s)
<1>1. PICK f \in [Stats -> Nat] : f = p.stat  BY DEF Players
<1>2. PICK mv : mv = [s \in Stats |-> Moves(summary.cards, s)]  OBVIOUS
<1>3. mv \in [Stats -> Nat]  BY <1>2, MovesAreNat DEF Summarised
<1>4. PICK st : st = [s \in Stats |-> f[s] + mv[s]]  OBVIOUS
<1>5. st \in [Stats -> Nat]  BY <1>3, <1>4
<1>6. PICK b \in Nat : b = IF summary.ended = "null" THEN 1 ELSE 0  OBVIOUS
<1>7. PICK t \in Nat : t = summary.tuttoCount  BY DEF Summarised
<1>8. PICK c \in Nat : c = Top(st["mostCardsInTurn"], Len(summary.cards))
  <2>1. PICK n \in Nat : n = Len(summary.cards)  BY DEF Summarised, Chained
  <2>2. st["mostCardsInTurn"] \in Nat  BY <1>5 DEF Stats
  <2> QED  BY <2>1, <2>2 DEF Top
<1>9. PICK h \in Nat : h = IF success THEN st["highestForfeitedTurnScore"]
                           ELSE Top(st["highestForfeitedTurnScore"], summary.forfeited)
  BY <1>5 DEF Top, Stats, Summarised
<1>10. PICK sf : sf = [st EXCEPT !["busts"] = @ + b, !["totalTuttos"] = @ + t,
                                 !["mostCardsInTurn"] = c, !["highestForfeitedTurnScore"] = h]
  OBVIOUS
<1>11. q = [p EXCEPT !.stat = sf]
  <2>1. PICK bumped : bumped = [p EXCEPT !.stat = st]  OBVIOUS
  <2>2. bumped \in Players /\ bumped.stat = st /\ bumped.name = p.name /\ bumped.score = p.score  BY <1>5, <2>1, WithStat
  <2>3. bumped = [p EXCEPT !.stat = [s \in Stats |-> @[s] + Moves(summary.cards, s)]]
    BY <1>1, <1>2, <1>4, <2>1
  <2>4. q = [bumped EXCEPT
               !.stat["busts"] = @ + (IF summary.ended = "null" THEN 1 ELSE 0),
               !.stat["totalTuttos"] = @ + summary.tuttoCount,
               !.stat["mostCardsInTurn"] = Top(@, Len(summary.cards)),
               !.stat["highestForfeitedTurnScore"] = IF success THEN @ ELSE Top(@, summary.forfeited)]
    BY <2>3 DEF ApplySummary
  <2>5. q = [bumped EXCEPT !.stat = sf]
    BY <1>5, <1>6, <1>7, <1>8, <1>9, <1>10, <2>2, <2>4 DEF Stats, Players
  <2> QED  BY <2>1, <2>2, <2>5 DEF Players
<1>12. sf \in [Stats -> Nat]  BY <1>5, <1>6, <1>7, <1>10 DEF Stats
<1>13. q \in Players /\ q.name = p.name /\ q.score = p.score /\ q.stat = sf  BY <1>11, <1>12, WithStat
<1>14. ASSUME NEW s \in Stats \ ChainRecords PROVE sf[s] = f[s] + mv[s] + Extra(summary, s)
  BY <1>3, <1>4, <1>5, <1>6, <1>7, <1>10, <1>14 DEF Extra, ChainRecords, Stats
<1> QED  BY <1>1, <1>2, <1>13, <1>14

LEMMA FloorIs ==
  /\ \A a, b \in Nat : Floor((a + b) - b) = a
  /\ \A a \in Int : Floor(a) \in Nat
BY DEF Floor

LEMMA RevertSummaryIs ==
  ASSUME NEW p \in Players, NEW back, Chained(back.cards), back.tuttoCount \in Nat,
         back.prevMostCards \in Nat, back.prevForfeited \in Nat, NEW q, q = RevertSummary(p, back)
  PROVE  /\ q \in Players /\ q.name = p.name /\ q.score = p.score
         /\ q.stat["mostCardsInTurn"] = back.prevMostCards
         /\ q.stat["highestForfeitedTurnScore"] = back.prevForfeited
         /\ \A s \in Stats \ ChainRecords :
              q.stat[s] = Floor(Floor(p.stat[s] - Moves(back.cards, s)) - Extra(back, s))
<1>1. PICK f \in [Stats -> Nat] : f = p.stat  BY DEF Players
<1>2. PICK mv : mv = [s \in Stats |-> Moves(back.cards, s)]  OBVIOUS
<1>3. mv \in [Stats -> Nat]  BY <1>2, MovesAreNat
<1>4. PICK st : st = [s \in Stats |-> Floor(f[s] - mv[s])]  OBVIOUS
<1>5. st \in [Stats -> Nat]  BY <1>3, <1>4, FloorIs
<1>6. PICK b \in Nat : b = IF back.ended = "null" THEN 1 ELSE 0  OBVIOUS
<1>7. PICK t \in Nat : t = back.tuttoCount  OBVIOUS
<1>8. PICK c \in Nat, h \in Nat : c = back.prevMostCards /\ h = back.prevForfeited  OBVIOUS
<1>9. PICK sf : sf = [st EXCEPT !["busts"] = Floor(@ - b), !["totalTuttos"] = Floor(@ - t),
                                !["mostCardsInTurn"] = c, !["highestForfeitedTurnScore"] = h]
  OBVIOUS
<1>10. q = [p EXCEPT !.stat = sf]
  <2>1. PICK bare : bare = [p EXCEPT !.stat = st]  OBVIOUS
  <2>2. bare \in Players /\ bare.stat = st /\ bare.name = p.name /\ bare.score = p.score  BY <1>5, <2>1, WithStat
  <2>3. bare = [p EXCEPT !.stat = [s \in Stats |-> Floor(@[s] - Moves(back.cards, s))]]
    BY <1>1, <1>2, <1>4, <2>1
  <2>4. q = [bare EXCEPT
               !.stat["busts"] = Floor(@ - (IF back.ended = "null" THEN 1 ELSE 0)),
               !.stat["totalTuttos"] = Floor(@ - back.tuttoCount),
               !.stat["mostCardsInTurn"] = back.prevMostCards,
               !.stat["highestForfeitedTurnScore"] = back.prevForfeited]
    BY <2>3 DEF RevertSummary
  <2>5. q = [bare EXCEPT !.stat = sf]
    BY <1>5, <1>6, <1>7, <1>8, <1>9, <2>2, <2>4 DEF Stats, Players
  <2> QED  BY <2>1, <2>2, <2>5 DEF Players
<1>11. sf \in [Stats -> Nat]  BY <1>5, <1>6, <1>7, <1>9, FloorIs DEF Stats
<1>12. q \in Players /\ q.name = p.name /\ q.score = p.score /\ q.stat = sf  BY <1>10, <1>11, WithStat
<1>13. ASSUME NEW s \in Stats \ ChainRecords PROVE sf[s] = Floor(Floor(f[s] - mv[s]) - Extra(back, s))
  <2>1. PICK x \in Nat : x = st[s] /\ x = Floor(f[s] - mv[s])  BY <1>4, <1>5
  <2>2. CASE s = "busts"  BY <1>5, <1>6, <1>9, <2>1, <2>2 DEF Extra, Stats
  <2>3. CASE s = "totalTuttos"  BY <1>5, <1>7, <1>9, <2>1, <2>3 DEF Extra, Stats
  <2>4. CASE s \notin {"busts", "totalTuttos"}
    <3>1. sf[s] = x /\ Extra(back, s) = 0  BY <1>5, <1>9, <2>1, <2>4 DEF Extra, ChainRecords, Stats
    <3> QED  BY <2>1, <3>1 DEF Floor
  <2> QED  BY <2>2, <2>3, <2>4
<1>14. sf["mostCardsInTurn"] = back.prevMostCards /\ sf["highestForfeitedTurnScore"] = back.prevForfeited
  BY <1>5, <1>8, <1>9 DEF Stats
<1> QED  BY <1>1, <1>2, <1>12, <1>13, <1>14

LEMMA DeductedIs ==
  ASSUME NEW p \in Players, NEW score \in Int, NEW times \in Nat, NEW q, q = Deducted(p, score, times)
  PROVE  /\ q \in Players /\ q.name = p.name /\ q.score = score
         /\ \A s \in Stats : q.stat[s] = p.stat[s] + (IF s = "times1000PointsDeducted" THEN times ELSE 0)
<1>1. PICK f \in [Stats -> Nat] : f = p.stat  BY DEF Players
<1>2. PICK st : st = [f EXCEPT !["times1000PointsDeducted"] = @ + times]  OBVIOUS
<1>3. st \in [Stats -> Nat]  BY <1>2 DEF Stats
<1>4. PICK p0 : p0 = [p EXCEPT !.score = score]  OBVIOUS
<1>5. p0 \in Players /\ p0.name = p.name /\ p0.score = score /\ p0.stat = f  BY <1>1, <1>4 DEF Players
<1>6. q = [p0 EXCEPT !.stat = st]  BY <1>1, <1>2, <1>4, <1>5 DEF Deducted, Players
<1>7. q \in Players /\ q.name = p0.name /\ q.score = p0.score /\ q.stat = st  BY <1>3, <1>5, <1>6, WithStat
<1>8. ASSUME NEW s \in Stats PROVE st[s] = f[s] + (IF s = "times1000PointsDeducted" THEN times ELSE 0)
  BY <1>2 DEF Stats
<1> QED  BY <1>1, <1>5, <1>7, <1>8

LEMMA BestIs ==
  ASSUME NEW p \in Players, NEW card, NEW classic, NEW score \in Nat, NEW q, q = ApplyBest(p, card, classic, score)
  PROVE  /\ q \in Players /\ q.name = p.name /\ q.score = p.score
         /\ \A s \in Stats \ AllBest : q.stat[s] = p.stat[s]
<1>1. PICK f \in [Stats -> Nat] : f = p.stat  BY DEF Players
<1>2. PICK B : B = BestOf(card, classic)  OBVIOUS
<1>3. PICK st : st = [s \in Stats |-> IF s \in B THEN Top(f[s], score) ELSE f[s]]  OBVIOUS
<1>4. st \in [Stats -> Nat]  BY <1>3 DEF Top
<1>5. q = [p EXCEPT !.stat = st]  BY <1>1, <1>2, <1>3 DEF ApplyBest
<1>6. q \in Players /\ q.name = p.name /\ q.score = p.score /\ q.stat = st  BY <1>4, <1>5, WithStat
<1>7. B \subseteq AllBest
  <2>1. "highestTurnScore" \in AllBest /\ "highestFeuerwerkTurnScore" \in AllBest /\ "highestX2TurnScore" \in AllBest
    BY DEF AllBest
  <2> QED  BY <1>2, <2>1 DEF BestOf
<1> QED  BY <1>1, <1>3, <1>6, <1>7

\* The points are added to the score.
LEMMA ScoredIs ==
  ASSUME NEW p \in Players, NEW score \in Nat, NEW q, q = [p EXCEPT !.score = @ + score]
  PROVE  q \in Players /\ q.name = p.name /\ q.score = p.score + score /\ q.stat = p.stat
BY DEF Players

\* The points a modernized turn adds to a counter.
CardPoints(card, score, s) ==
  IF s = "x2PointsScored" /\ card = "x2" THEN score
  ELSE IF s = "feuerwerkPointsScored" /\ card = "Feuerwerk" THEN score ELSE 0

LEMMA CountedIs ==
  ASSUME NEW p \in Players, NEW card, NEW success \in BOOLEAN, NEW score \in Nat,
         NEW C, C = TurnCounters(card, success, IsBust(card, success)), NEW q, q = ApplyTurn(p, card, success, score)
  PROVE  /\ q \in Players /\ q.name = p.name /\ q.score = p.score
         /\ \A s \in Stats : q.stat[s] = p.stat[s] + (IF s \in C THEN 1 ELSE 0) + CardPoints(card, score, s)
<1>1. PICK r : r = Bump(p, C)  OBVIOUS
<1>2. /\ r \in Players /\ r.name = p.name /\ r.score = p.score
      /\ \A s \in Stats : r.stat[s] = p.stat[s] + (IF s \in C THEN 1 ELSE 0)
  BY <1>1, BumpIs
<1>3. PICK f \in [Stats -> Nat] : f = r.stat  BY <1>2 DEF Players
<1>4. PICK x \in Nat, y \in Nat : x = (IF card = "x2" THEN score ELSE 0) /\ y = (IF card = "Feuerwerk" THEN score ELSE 0)
  OBVIOUS
<1>5. PICK st : st = [f EXCEPT !["x2PointsScored"] = @ + x, !["feuerwerkPointsScored"] = @ + y]  OBVIOUS
<1>6. q = [r EXCEPT !.stat["x2PointsScored"] = @ + (IF card = "x2" THEN score ELSE 0),
                    !.stat["feuerwerkPointsScored"] = @ + (IF card = "Feuerwerk" THEN score ELSE 0)]
  BY <1>1 DEF ApplyTurn
<1>7. q = [r EXCEPT !.stat = st]  BY <1>2, <1>3, <1>4, <1>5, <1>6 DEF Players, Stats
<1>8. st \in [Stats -> Nat]  BY <1>5 DEF Stats
<1>9. q \in Players /\ q.name = r.name /\ q.score = r.score /\ q.stat = st  BY <1>2, <1>7, <1>8, WithStat
<1>10. ASSUME NEW s \in Stats PROVE st[s] = f[s] + CardPoints(card, score, s)
  BY <1>4, <1>5 DEF Stats, CardPoints
<1> QED  BY <1>2, <1>3, <1>9, <1>10

LEMMA UncountedIs ==
  ASSUME NEW p \in Players, NEW card, NEW success, NEW bust, NEW score \in Nat,
         NEW C, C = TurnCounters(card, success, bust) \ {"timesSkipped"},
         NEW q, q = RevertTurn(p, card, success, bust, score)
  PROVE  /\ q \in Players /\ q.name = p.name /\ q.score = p.score
         /\ \A s \in Stats : q.stat[s] = Floor((IF s \in C THEN Floor(p.stat[s] - 1) ELSE p.stat[s])
                                                 - CardPoints(card, score, s))
<1>1. PICK r : r = Unbump(p, C)  OBVIOUS
<1>2. /\ r \in Players /\ r.name = p.name /\ r.score = p.score
      /\ \A s \in Stats : r.stat[s] = IF s \in C THEN Floor(p.stat[s] - 1) ELSE p.stat[s]
  BY <1>1, UnbumpIs
<1>3. PICK f \in [Stats -> Nat] : f = r.stat  BY <1>2 DEF Players
<1>4. PICK x \in Nat, y \in Nat : x = (IF card = "x2" THEN score ELSE 0) /\ y = (IF card = "Feuerwerk" THEN score ELSE 0)
  OBVIOUS
<1>5. PICK st : st = [f EXCEPT !["x2PointsScored"] = Floor(@ - x), !["feuerwerkPointsScored"] = Floor(@ - y)]  OBVIOUS
<1>6. q = [r EXCEPT !.stat["x2PointsScored"] = Floor(@ - (IF card = "x2" THEN score ELSE 0)),
                    !.stat["feuerwerkPointsScored"] = Floor(@ - (IF card = "Feuerwerk" THEN score ELSE 0))]
  BY <1>1 DEF RevertTurn
<1>7. q = [r EXCEPT !.stat = st]  BY <1>2, <1>3, <1>4, <1>5, <1>6 DEF Players, Stats
<1>8. st \in [Stats -> Nat]  BY <1>5, FloorIs DEF Stats
<1>9. q \in Players /\ q.name = r.name /\ q.score = r.score /\ q.stat = st  BY <1>2, <1>7, <1>8, WithStat
<1>10. ASSUME NEW s \in Stats PROVE st[s] = Floor(f[s] - CardPoints(card, score, s))
  <2>1. CASE s \in {"x2PointsScored", "feuerwerkPointsScored"}
    BY <1>4, <1>5, <2>1 DEF Stats, CardPoints
  <2>2. CASE s \notin {"x2PointsScored", "feuerwerkPointsScored"}
    <3>1. st[s] = f[s] /\ CardPoints(card, score, s) = 0  BY <1>5, <2>2 DEF Stats, CardPoints
    <3> QED  BY <3>1 DEF Floor
  <2> QED  BY <2>1, <2>2
<1> QED  BY <1>2, <1>3, <1>9, <1>10

\* Only a Stop counts a turn as skipped.
LEMMA StopSkips ==
  ASSUME NEW card, card # "Stop", NEW success, NEW bust
  PROVE  TurnCounters(card, success, bust) \ {"timesSkipped"} = TurnCounters(card, success, bust)
<1>1. "timesSkipped" \notin CardCounter([card |-> card, completed |-> success])  BY DEF CardCounter
<1> QED  BY <1>1 DEF TurnCounters

\* What a committed turn leaves of the player who took it, and what undoes it.
TurnOn(counted, card, classic, score, final) ==
  \E q : /\ q = Deducted(counted, counted.score, 0)
         /\ final = [ApplyBest(q, card, classic, score) EXCEPT !.score = @ + score]

Records(prev, p, score) == prev.score = score /\ prev.best = [s \in AllBest |-> p.stat[s]]

LEMMA TurnOnIs ==
  ASSUME NEW p \in Players, NEW card, NEW classic, NEW score \in Nat, NEW final, TurnOn(p, card, classic, score, final)
  PROVE  /\ final \in Players /\ final.name = p.name /\ final.score = p.score + score
         /\ \A s \in Stats \ AllBest : final.stat[s] = p.stat[s]
<1>1. PICK q : q = Deducted(p, p.score, 0) /\ final = [ApplyBest(q, card, classic, score) EXCEPT !.score = @ + score]
  BY DEF TurnOn
<1>2. PICK n \in Int, z \in Nat : n = p.score /\ z = 0  BY DEF Players
<1>3. q \in Players /\ q.name = p.name /\ q.score = n
      /\ \A s \in Stats : q.stat[s] = p.stat[s] + (IF s = "times1000PointsDeducted" THEN z ELSE 0)
  BY <1>1, <1>2, DeductedIs, SMTT(40)
<1>4. PICK b : b = ApplyBest(q, card, classic, score)  OBVIOUS
<1>5. b \in Players /\ b.name = q.name /\ b.score = q.score /\ \A s \in Stats \ AllBest : b.stat[s] = q.stat[s]
  BY <1>3, <1>4, BestIs
<1>6. final \in Players /\ final.name = b.name /\ final.score = b.score + score /\ final.stat = b.stat
  BY <1>1, <1>4, <1>5, ScoredIs
<1>7. ASSUME NEW s \in Stats PROVE p.stat[s] \in Nat
  <2>1. PICK f \in [Stats -> Nat] : f = p.stat  BY DEF Players
  <2> QED  BY <2>1
<1> QED  BY <1>2, <1>3, <1>5, <1>6, <1>7

\* The record the turn keeps of the player's bests, put back.
PutBack(p, prev) == [p EXCEPT !.score = @ - prev.score,
                              !.stat = [s \in Stats |-> IF s \in AllBest THEN prev.best[s] ELSE @[s]]]

LEMMA BestBack ==
  ASSUME NEW p \in Players, NEW back \in Players, back.name = p.name, NEW score \in Nat, back.score = p.score + score,
         \A s \in Stats \ AllBest : back.stat[s] = p.stat[s], NEW prev, Records(prev, p, score)
  PROVE  PutBack(back, prev) = p
<1> DEFINE q == PutBack(back, prev)
<1>1. PICK f \in [Stats -> Nat], h \in [Stats -> Nat] : f = p.stat /\ h = back.stat  BY DEF Players
<1>2. PICK st : st = [s \in Stats |-> IF s \in AllBest THEN prev.best[s] ELSE h[s]]  OBVIOUS
<1>3. AllBest \subseteq Stats  BY DEF AllBest, Stats
<1>4. \A s \in Stats : st[s] = f[s]  BY <1>1, <1>2, <1>3 DEF Records
<1>5. st = f  BY <1>2, <1>4
<1>6. PICK n \in Int : n = p.score  BY DEF Players
<1>7. PICK b0 : b0 = [back EXCEPT !.score = n]  OBVIOUS
<1>8. back.score - prev.score = n  BY <1>6 DEF Records
<1>9. q = [back EXCEPT !.score = n, !.stat = st]  BY <1>1, <1>2, <1>8 DEF PutBack
<1> HIDE DEF q
<1>10. q = p  BY <1>1, <1>5, <1>6, <1>9 DEF Players
<1> QED  BY <1>10 DEF q

OfSummary(prev, p, summary) ==
  /\ prev.summary # None
  /\ prev.summary.cards = summary.cards /\ prev.summary.tuttoCount = summary.tuttoCount
  /\ prev.summary.ended = summary.ended
  /\ prev.summary.prevMostCards = p.stat["mostCardsInTurn"]
  /\ prev.summary.prevForfeited = p.stat["highestForfeitedTurnScore"]

LEMMA ClassicTurnBack ==
  ASSUME NEW p \in Players, NEW summary, Summarised(summary), NEW success \in BOOLEAN, NEW score \in Nat,
         NEW card, NEW classic, NEW counted, counted = ApplySummary(Bump(p, {"totalTurns"}), summary, success),
         NEW final, TurnOn(counted, card, classic, score, final),
         NEW prev, Records(prev, p, score), OfSummary(prev, p, summary)
  PROVE  final \in Players /\ final.name = p.name /\ final.score = p.score + score /\ TakenBack(final, prev) = p
<1>0. PICK C : C = {"totalTurns"}  OBVIOUS
<1>1. PICK b : b = Bump(p, C)  OBVIOUS
<1>2. /\ b \in Players /\ b.name = p.name /\ b.score = p.score
      /\ \A s \in Stats : b.stat[s] = p.stat[s] + (IF s \in C THEN 1 ELSE 0)
  BY <1>1, BumpIs
<1>3. counted = ApplySummary(b, summary, success)  BY <1>0, <1>1
<1>4. /\ counted \in Players /\ counted.name = b.name /\ counted.score = b.score
      /\ \A s \in Stats \ ChainRecords : counted.stat[s] = b.stat[s] + Moves(summary.cards, s) + Extra(summary, s)
  BY <1>2, <1>3, SummaryIs
<1>5. /\ final \in Players /\ final.name = counted.name /\ final.score = counted.score + score
      /\ \A s \in Stats \ AllBest : final.stat[s] = counted.stat[s]
  BY <1>4, TurnOnIs
<1>6. PICK me : me = Unbump(final, C)  OBVIOUS
<1>7. /\ me \in Players /\ me.name = final.name /\ me.score = final.score
      /\ \A s \in Stats : me.stat[s] = IF s \in C THEN Floor(final.stat[s] - 1) ELSE final.stat[s]
  BY <1>5, <1>6, UnbumpIs
<1>8. PICK f \in [Stats -> Nat] : f = p.stat  BY DEF Players
<1>9. PICK was : was = prev.summary  OBVIOUS
<1>10. /\ Chained(was.cards) /\ was.tuttoCount \in Nat /\ was.prevMostCards \in Nat /\ was.prevForfeited \in Nat
       /\ was.cards = summary.cards /\ was.ended = summary.ended /\ was.tuttoCount = summary.tuttoCount
       /\ was.prevMostCards = f["mostCardsInTurn"] /\ was.prevForfeited = f["highestForfeitedTurnScore"]
  BY <1>8, <1>9 DEF OfSummary, Summarised, Stats
<1>11. PICK back : back = RevertSummary(me, was)  OBVIOUS
<1>12. /\ back \in Players /\ back.name = me.name /\ back.score = me.score
       /\ back.stat["mostCardsInTurn"] = was.prevMostCards
       /\ back.stat["highestForfeitedTurnScore"] = was.prevForfeited
       /\ \A s \in Stats \ ChainRecords :
            back.stat[s] = Floor(Floor(me.stat[s] - Moves(was.cards, s)) - Extra(was, s))
  BY <1>7, <1>10, <1>11, RevertSummaryIs
<1>13. ASSUME NEW s \in Stats \ AllBest PROVE back.stat[s] = f[s]
  <2>1. CASE s \in ChainRecords  BY <1>10, <1>12, <2>1 DEF ChainRecords
  <2>2. CASE s \notin ChainRecords
    <3>1. PICK m \in Nat, x \in Nat : m = Moves(summary.cards, s) /\ x = Extra(summary, s)
      BY MovesAreNat DEF Summarised, Extra
    <3>2. Moves(was.cards, s) = m /\ Extra(was, s) = x  BY <1>10, <3>1 DEF Extra
    <3>3. PICK t \in Nat : t = IF s \in C THEN 1 ELSE 0  OBVIOUS
    <3>4. final.stat[s] = ((f[s] + t) + m) + x /\ f[s] \in Nat  BY <1>2, <1>4, <1>5, <1>8, <2>2, <3>1, <3>3
    <3>5. me.stat[s] = Floor(final.stat[s] - t)
      <4>1. Floor(final.stat[s] - 0) = final.stat[s]  BY <3>4 DEF Floor
      <4> QED  BY <1>7, <3>3, <4>1
    <3>6. back.stat[s] = Floor(Floor(me.stat[s] - m) - x)  BY <1>12, <2>2, <3>2
    <3>7. me.stat[s] = (f[s] + m) + x  BY <3>4, <3>5 DEF Floor
    <3> QED  BY <3>4, <3>6, <3>7 DEF Floor
  <2> QED  BY <2>1, <2>2
<1>15. TakenBack(final, prev) = PutBack(back, prev)
  <2>1. me = Unbump(final, {"totalTurns"}) /\ prev.summary # None  BY <1>0, <1>6 DEF OfSummary
  <2>2. back = RevertSummary(me, prev.summary)  BY <1>9, <1>11
  <2> QED  BY Zenon, <2>1, <2>2 DEF TakenBack, PutBack
<1>16. back.name = p.name /\ back.score = p.score + score
  BY <1>2, <1>4, <1>5, <1>7, <1>12
<1>17. PutBack(back, prev) = p  BY <1>8, <1>12, <1>13, <1>16, BestBack
<1> QED  BY <1>2, <1>4, <1>5, <1>15, <1>17

CountedOn(p, card, success, score, counted) == counted = ApplyTurn(Bump(p, {"totalTurns"}), card, success, score)

OfCard(prev, card, success) ==
  prev.summary = None /\ card # "Stop" /\ prev.card = card /\ prev.wasSuccess = success /\ prev.wasBust = IsBust(card, success)

LEMMA ModernTurnBack ==
  ASSUME NEW p \in Players, NEW card, NEW success \in BOOLEAN, NEW score \in Nat,
         NEW classic, NEW counted, CountedOn(p, card, success, score, counted),
         NEW final, TurnOn(counted, card, classic, score, final),
         NEW prev, Records(prev, p, score), OfCard(prev, card, success)
  PROVE  final \in Players /\ final.name = p.name /\ final.score = p.score + score /\ TakenBack(final, prev) = p
<1>0. PICK C : C = {"totalTurns"}  OBVIOUS
<1>1. PICK b : b = Bump(p, C)  OBVIOUS
<1>2. /\ b \in Players /\ b.name = p.name /\ b.score = p.score
      /\ \A s \in Stats : b.stat[s] = p.stat[s] + (IF s \in C THEN 1 ELSE 0)
  BY <1>1, BumpIs
<1>3. counted = ApplyTurn(b, card, success, score)  BY <1>0, <1>1 DEF CountedOn
<1>4. PICK bust : bust = IsBust(card, success)  OBVIOUS
<1>5. PICK K : K = TurnCounters(card, success, bust)  OBVIOUS
<1>6. /\ counted \in Players /\ counted.name = b.name /\ counted.score = b.score
      /\ \A s \in Stats : counted.stat[s] = b.stat[s] + (IF s \in K THEN 1 ELSE 0) + CardPoints(card, score, s)
  BY <1>2, <1>3, <1>4, <1>5, CountedIs
<1>7. /\ final \in Players /\ final.name = counted.name /\ final.score = counted.score + score
      /\ \A s \in Stats \ AllBest : final.stat[s] = counted.stat[s]
  <2>1. counted \in Players  BY <1>6
  <2> QED  BY <2>1, TurnOnIs
<1>8. PICK me : me = Unbump(final, C)  OBVIOUS
<1>9. /\ me \in Players /\ me.name = final.name /\ me.score = final.score
      /\ \A s \in Stats : me.stat[s] = IF s \in C THEN Floor(final.stat[s] - 1) ELSE final.stat[s]
  BY <1>7, <1>8, UnbumpIs
<1>10. PICK f \in [Stats -> Nat] : f = p.stat  BY DEF Players
<1>11. PICK back : back = RevertTurn(me, card, success, bust, score)  OBVIOUS
<1>12. K = TurnCounters(card, success, bust) \ {"timesSkipped"}  BY <1>5, StopSkips DEF OfCard
<1>13. /\ back \in Players /\ back.name = me.name /\ back.score = me.score
       /\ \A s \in Stats : back.stat[s] = Floor((IF s \in K THEN Floor(me.stat[s] - 1) ELSE me.stat[s])
                                                  - CardPoints(card, score, s))
  BY <1>9, <1>11, <1>12, UncountedIs
<1>14. ASSUME NEW s \in Stats \ AllBest PROVE back.stat[s] = f[s]
  <2>1. PICK x \in Nat : x = CardPoints(card, score, s)  BY DEF CardPoints
  <2>2. PICK t \in {0, 1} : t = IF s \in C THEN 1 ELSE 0  OBVIOUS
  <2>3. PICK k \in {0, 1} : k = IF s \in K THEN 1 ELSE 0  OBVIOUS
  <2>4. final.stat[s] = ((f[s] + t) + k) + x /\ f[s] \in Nat  BY <1>2, <1>6, <1>7, <1>10, <2>1, <2>2, <2>3
  <2>5. me.stat[s] = (f[s] + k) + x  BY <1>9, <2>2, <2>4 DEF Floor
  <2>6. (IF s \in K THEN Floor(me.stat[s] - 1) ELSE me.stat[s]) = f[s] + x  BY <2>3, <2>4, <2>5 DEF Floor
  <2>7. back.stat[s] = Floor((f[s] + x) - x)  BY <1>13, <2>1, <2>6
  <2> QED  BY <2>4, <2>7 DEF Floor
<1>16. TakenBack(final, prev) = PutBack(back, prev)
  <2>1. me = Unbump(final, {"totalTurns"})  BY <1>0, <1>8
  <2>2. back = RevertTurn(me, prev.card, prev.wasSuccess, prev.wasBust, prev.score)
    BY <1>4, <1>11 DEF Records, OfCard
  <2>3. prev.summary = None  BY DEF OfCard
  <2> QED  BY Zenon, <2>1, <2>2, <2>3 DEF TakenBack, PutBack
<1>17. back.name = p.name /\ back.score = p.score + score
  BY <1>2, <1>6, <1>7, <1>9, <1>13
<1>18. PutBack(back, prev) = p  BY <1>10, <1>13, <1>14, <1>17, BestBack
<1> QED  BY <1>2, <1>6, <1>7, <1>16, <1>18

-----------------------------------------------------------------------------
\* The deductions of a turn, taken back.

Undocked(q, score, times) == [q EXCEPT !.score = score, !.stat["times1000PointsDeducted"] = Floor(@ - times)]

LEMMA AllPutBack ==
  ASSUME NEW p \in Players, NEW q \in Players, q.name = p.name
  PROVE  [q EXCEPT !.score = p.score, !.stat = p.stat] = p
BY DEF Players

LEMMA DockedBack ==
  ASSUME NEW p \in Players, NEW score \in Int, NEW times \in Nat, NEW q, q = Deducted(p, score, times)
  PROVE  Undocked(q, p.score, times) = p
<1>1. /\ q \in Players /\ q.name = p.name
      /\ \A s \in Stats : q.stat[s] = p.stat[s] + (IF s = "times1000PointsDeducted" THEN times ELSE 0)
  BY DeductedIs
<1>2. PICK f \in [Stats -> Nat], h \in [Stats -> Nat] : f = p.stat /\ h = q.stat  BY <1>1 DEF Players
<1>3. PICK st : st = [h EXCEPT !["times1000PointsDeducted"] = Floor(@ - times)]  OBVIOUS
<1>4. \A s \in Stats : st[s] = f[s]
  <2> TAKE s \in Stats
  <2>1. CASE s = "times1000PointsDeducted"
    <3>1. h[s] = f[s] + times /\ f[s] \in Nat  BY <1>1, <1>2, <2>1
    <3>2. st[s] = Floor(h[s] - times)  BY <1>3, <2>1
    <3> QED  BY <3>1, <3>2 DEF Floor
  <2>2. CASE s # "times1000PointsDeducted"
    <3>1. h[s] = f[s] /\ st[s] = h[s]  BY <1>1, <1>2, <1>3, <2>2
    <3> QED  BY <3>1
  <2> QED  BY <2>1, <2>2
<1>5. st \in [Stats -> Nat]  BY <1>3, FloorIs DEF Stats
<1>6. st = f  BY <1>4, <1>5
<1>7. Undocked(q, p.score, times) = [q EXCEPT !.score = p.score, !.stat = st]  BY <1>2, <1>3 DEF Undocked
<1>8. st = p.stat  BY <1>2, <1>6
<1>9. Undocked(q, p.score, times) = [q EXCEPT !.score = p.score, !.stat = p.stat]  BY <1>7, <1>8
<1> QED  BY <1>1, <1>9, AllPutBack

LEMMA NotDocked ==
  ASSUME NEW p \in Players, NEW q, q = Deducted(p, p.score, 0)
  PROVE  q = p
<1>1. PICK score \in Int, times \in Nat : score = p.score /\ times = 0  BY DEF Players
<1>2. /\ q \in Players /\ q.name = p.name /\ q.score = score
      /\ \A s \in Stats : q.stat[s] = p.stat[s] + (IF s = "times1000PointsDeducted" THEN times ELSE 0)
  BY <1>1, DeductedIs
<1>3. PICK f \in [Stats -> Nat] : f = p.stat  BY DEF Players
<1>4. \A s \in Stats : q.stat[s] = p.stat[s]  BY <1>1, <1>2, <1>3
<1> QED  BY <1>1, <1>2, <1>4, SamePlayer

\* The record of a turn's deductions.
OfHits(prev, ps, hits) ==
  /\ prev.leaders = SnapshotLeaders(ps, hits)
  /\ prev.summary = None => Len(hits) <= 1
  /\ prev.summary # None => prev.summary.deducted = hits

MineOf(prev, name) == {l \in prev.leaders : l.name = name}

LEMMA MineIs ==
  ASSUME NEW ps, OneEach(ps), NEW hits, NEW prev, OfHits(prev, ps, hits), NEW i \in DOMAIN ps
  PROVE  MineOf(prev, ps[i].name)
           = IF HitIn(hits, ps[i].name) = {} THEN {} ELSE {[name |-> ps[i].name, score |-> ps[i].score]}
<1> DEFINE snap(j) == [name |-> ps[j].name, score |-> ps[j].score]
<1>1. prev.leaders = {snap(j) : j \in {k \in DOMAIN ps : HitIn(hits, ps[k].name) # {}}}
  BY DEF OfHits, SnapshotLeaders, HitIn
<1>2. ASSUME NEW j \in DOMAIN ps PROVE snap(j).name = ps[j].name  OBVIOUS
<1> HIDE DEF snap
<1>3. ASSUME NEW l \in MineOf(prev, ps[i].name) PROVE l = snap(i) /\ HitIn(hits, ps[i].name) # {}
  <2>1. PICK j \in DOMAIN ps : l = snap(j) /\ HitIn(hits, ps[j].name) # {}  BY <1>1, <1>3 DEF MineOf
  <2>2. ps[j].name = ps[i].name  BY <1>2, <1>3, <2>1 DEF MineOf
  <2>3. j = i  BY <2>2 DEF OneEach
  <2> QED  BY <2>1, <2>3
<1>4. HitIn(hits, ps[i].name) # {} => snap(i) \in MineOf(prev, ps[i].name)  BY <1>1, <1>2 DEF MineOf
<1>5. MineOf(prev, ps[i].name) = IF HitIn(hits, ps[i].name) = {} THEN {} ELSE {snap(i)}  BY <1>3, <1>4
<1> QED  BY <1>5 DEF snap

\* What a player was told of leaves a player of the same name.
LEMMA ToldIs ==
  ASSUME NEW p \in Players, NEW q, NEW hits, Told(p, q, hits)
  PROVE  q \in Players /\ q.name = p.name /\ q.score = p.score - LostIn(hits, p.name)
<1>1. PICK score \in Int, times \in Nat : q = Deducted(p, score, times) /\ LostIn(hits, p.name) = p.score - score
  BY DEF Told
<1>2. q \in Players /\ q.name = p.name /\ q.score = score  BY <1>1, DeductedIs
<1>3. p.score \in Int  BY DEF Players
<1> QED  BY <1>1, <1>2, <1>3

LEMMA RepaidIs ==
  ASSUME NEW ps, OneEach(ps), NEW i \in DOMAIN ps, ps[i] \in Players, NEW hits, NEW n \in Nat, DOMAIN hits = 1..n,
         NEW q, Told(ps[i], q, hits), NEW prev, OfHits(prev, ps, hits)
  PROVE  Repaid(q, prev) = ps[i]
<1>0. PICK p \in Players : p = ps[i]  OBVIOUS
<1> DEFINE mine == {l \in prev.leaders : l.name = q.name}
           struck == {k \in DOMAIN prev.summary.deducted : q.name \in DOMAIN prev.summary.deducted[k]}
<1>1. PICK score \in Int, times \in Nat :
        /\ q = Deducted(p, score, times)
        /\ times = Cardinality(HitIn(hits, p.name))
        /\ HitIn(hits, p.name) = {} => score = p.score
        /\ Len(hits) <= 1 => times <= 1
  BY <1>0 DEF Told
<1>2. q \in Players /\ q.name = p.name  BY <1>0, ToldIs
<1>3. Repaid(q, prev)
        = IF mine = {} THEN q
          ELSE Undocked(q, (CHOOSE l \in mine : TRUE).score, Cardinality(IF prev.summary = None THEN mine ELSE struck))
  BY DEF Repaid, Undocked
<1>4. mine = MineOf(prev, p.name)  BY <1>2 DEF MineOf
<1>5. prev.summary # None => struck = HitIn(hits, p.name)  BY <1>2 DEF OfHits, HitIn
<1> HIDE DEF mine, struck
<1>6. PICK l : l = [name |-> ps[i].name, score |-> ps[i].score]  OBVIOUS
<1>7. MineOf(prev, ps[i].name) = IF HitIn(hits, ps[i].name) = {} THEN {} ELSE {l}  BY <1>6, MineIs
<1>8. mine = (IF HitIn(hits, p.name) = {} THEN {} ELSE {l}) /\ l.score = p.score  BY <1>0, <1>4, <1>6, <1>7
<1>9. CASE HitIn(hits, p.name) = {}
  <2>1. Repaid(q, prev) = q  BY <1>3, <1>8, <1>9
  <2>2. times = 0  BY <1>1, <1>9, FS_EmptySet
  <2>3. q = Deducted(p, p.score, 0)  BY <1>1, <1>9, <2>2
  <2> QED  BY <1>0, <2>1, <2>3, NotDocked
<1>10. CASE HitIn(hits, p.name) # {}
  <2>1. mine = {l}  BY <1>8, <1>10
  <2>2. CASE prev.summary = None
    <3>1. Cardinality({l}) = 1  BY FS_Singleton
    <3>2. times # 0
      <4>1. IsFiniteSet(1..n)  BY FS_Interval
      <4>2. HitIn(hits, p.name) \subseteq 1..n  BY DEF HitIn
      <4>3. IsFiniteSet(HitIn(hits, p.name))  BY <4>1, <4>2, FS_Subset
      <4> QED  BY <1>1, <1>10, <4>3, FS_EmptySet
    <3>3. times <= 1  BY <1>1, <2>2 DEF OfHits
    <3>4. Cardinality(mine) = times  BY <2>1, <3>1, <3>2, <3>3
    <3>5. Repaid(q, prev) = Undocked(q, (CHOOSE x \in mine : TRUE).score, times)  BY <1>3, <2>1, <2>2, <3>4
    <3> QED  BY <1>0, <1>1, <1>8, <2>1, <3>5, DockedBack
  <2>3. CASE prev.summary # None
    <3>1. Cardinality(struck) = times  BY <1>1, <1>5, <2>3
    <3>2. Repaid(q, prev) = Undocked(q, (CHOOSE x \in mine : TRUE).score, times)  BY <1>3, <2>1, <2>3, <3>1
    <3> QED  BY <1>0, <1>1, <1>8, <2>1, <3>2, DockedBack
  <2> QED  BY <2>2, <2>3
<1> QED  BY <1>9, <1>10

-----------------------------------------------------------------------------
\* A committed turn, whole: who gets and who loses what, and what undoes it.

SummaryOn(p, summary, success, counted) == counted = ApplySummary(Bump(p, {"totalTurns"}), summary, success)

LEMMA SummaryCounts ==
  ASSUME NEW p \in Players, NEW summary, Summarised(summary), NEW success \in BOOLEAN,
         NEW counted, SummaryOn(p, summary, success, counted)
  PROVE  counted \in Players /\ counted.name = p.name /\ counted.score = p.score
<1>1. PICK C : C = {"totalTurns"}  OBVIOUS
<1>2. PICK b : b = Bump(p, C)  OBVIOUS
<1>3. b \in Players /\ b.name = p.name /\ b.score = p.score  BY <1>2, BumpIs
<1>4. counted = ApplySummary(b, summary, success)  BY <1>1, <1>2 DEF SummaryOn
<1> QED  BY <1>3, <1>4, SummaryIs

LEMMA CardCounts ==
  ASSUME NEW p \in Players, NEW card, NEW success \in BOOLEAN, NEW score \in Nat,
         NEW counted, CountedOn(p, card, success, score, counted)
  PROVE  counted \in Players /\ counted.name = p.name /\ counted.score = p.score
<1>1. PICK C : C = {"totalTurns"}  OBVIOUS
<1>2. PICK b : b = Bump(p, C)  OBVIOUS
<1>3. b \in Players /\ b.name = p.name /\ b.score = p.score  BY <1>2, BumpIs
<1>4. counted = ApplyTurn(b, card, success, score)  BY <1>1, <1>2 DEF CountedOn
<1>5. PICK K : K = TurnCounters(card, success, IsBust(card, success))  OBVIOUS
<1> QED  BY <1>3, <1>4, <1>5, CountedIs

\* The turn as it is counted for its player.
CountedAs(p, card, success, score, summary, counted) ==
  IF summary # None THEN SummaryOn(p, summary, success, counted) ELSE CountedOn(p, card, success, score, counted)

LEMMA TurnCounts ==
  ASSUME NEW p \in Players, NEW card, NEW success \in BOOLEAN, NEW score \in Nat,
         NEW summary, summary = None \/ Summarised(summary),
         NEW counted, CountedAs(p, card, success, score, summary, counted)
  PROVE  counted \in Players /\ counted.name = p.name /\ counted.score = p.score
<1>1. CASE summary # None
  <2>1. Summarised(summary) /\ SummaryOn(p, summary, success, counted)  BY <1>1 DEF CountedAs
  <2> QED  BY <2>1, SummaryCounts
<1>2. CASE summary = None
  <2>1. CountedOn(p, card, success, score, counted)  BY <1>2 DEF CountedAs
  <2> QED  BY <2>1, CardCounts
<1> QED  BY <1>1, <1>2

\* The parts a turn without a Kleeblatt win is made of.
Payment(g, score, success, summary, counted, paid, final, n) ==
  /\ CountedAs(g.players[g.currentPlayerIndex], g.currentCard, success, score, summary, counted)
  /\ \E befores, rules : /\ Len(befores) = n
                         /\ paid = Deduct([g.players EXCEPT ![g.currentPlayerIndex] = counted],
                                          g.currentPlayerIndex, befores, rules)
  /\ summary = None => n <= 1
  /\ \E classic : final = [ApplyBest(paid.players[g.currentPlayerIndex], g.currentCard, classic, score)
                             EXCEPT !.score = @ + score]

Logged(r, g, score, success, summary, paid, final) ==
  /\ r.players = [paid.players EXCEPT ![g.currentPlayerIndex] = final]
  /\ r.entry.player = g.players[g.currentPlayerIndex].name /\ r.entry.score = score /\ r.entry.hits = paid.hits
  /\ r.prev.card = g.currentCard /\ r.prev.player = g.players[g.currentPlayerIndex].name
  /\ r.prev.leaders = SnapshotLeaders(g.players, paid.hits)
  /\ Records(r.prev, g.players[g.currentPlayerIndex], score)
  /\ summary = None => r.prev.summary = None
  /\ summary # None => r.prev.summary =
       [cards |-> summary.cards, tuttoCount |-> summary.tuttoCount, ended |-> summary.ended, deducted |-> paid.hits,
        prevMostCards |-> g.players[g.currentPlayerIndex].stat["mostCardsInTurn"],
        prevForfeited |-> g.players[g.currentPlayerIndex].stat["highestForfeitedTurnScore"]]
  /\ r.prev.wasSuccess = success
  /\ summary = None => r.prev.wasBust = IsBust(g.currentCard, success)
  /\ r.order = AdvanceTurnOrder(r.players, g.currentPlayerIndex, g.round, g.winningScore)

\* What is put into a turn.
Input(g, score, success, summary) ==
  /\ g.currentCard \in Faces /\ score \in Nat /\ success \in BOOLEAN
  /\ summary = None \/ (Summarised(summary) /\ summary.ended \in Endings)

LEMMA PaidIsNat ==
  ASSUME NEW card, NEW score \in Nat, NEW success \in BOOLEAN
  PROVE  TurnScore(card, score, success) \in Nat
BY DEF TurnScore, PLUS_MINUS_SCORE, KNIFFEL_SCORE

LEMMA TurnResultIs ==
  ASSUME NEW g, NEW score, NEW success \in BOOLEAN, NEW summary, NEW paid, NEW final, NEW ps,
         ~(g.currentCard = "Kleeblatt" /\ success),
         ps = [paid.players EXCEPT ![g.currentPlayerIndex] = final],
         NEW r, r = TurnResult(g, score, success, summary, paid.hits, ps)
  PROVE  Logged(r, g, score, success, summary, paid, final)
BY DEF TurnResult, Logged, Records

LEMMA TurnIs ==
  ASSUME NEW g, NEW input0, NEW success, NEW summary, Input(g, input0, success, summary),
         ~(g.currentCard = "Kleeblatt" /\ success),
         NEW r, r = CalculateNextTurn(g, input0, success, summary)
  PROVE  \E counted, paid, final : \E score \in Nat, n \in Nat :
           /\ Payment(g, score, success, summary, counted, paid, final, n)
           /\ Logged(r, g, score, success, summary, paid, final)
<1> DEFINE seat == g.currentPlayerIndex
           card == g.currentCard
<1>1. PICK score \in Nat : score = IF summary # None THEN input0 ELSE TurnScore(card, input0, success)
  BY PaidIsNat DEF Input
<1>2. PICK counted : counted = LET p == Bump(g.players[seat], {"totalTurns"}) IN
                                IF summary # None THEN ApplySummary(p, summary, success)
                                ELSE ApplyTurn(p, card, success, score)
  OBVIOUS
<1>3. PICK befores : befores = IF summary # None THEN IF success THEN summary.plusMinusScores ELSE <<>>
                               ELSE IF card = "Plus_Minus" /\ success THEN <<score>> ELSE <<>>
  OBVIOUS
<1>4. PICK n \in Nat : n = Len(befores) /\ (summary = None => n <= 1)
  <2>1. CASE summary # None
    <3>1. summary.plusMinusScores \in Seq(Int)  BY <2>1 DEF Input, Summarised
    <3>2. Len(befores) \in Nat  BY <1>3, <2>1, <3>1
    <3> QED  BY <2>1, <3>2
  <2>2. CASE summary = None
    <3>1. befores = <<score>> \/ befores = <<>>  BY <1>3, <2>2
    <3> QED  BY <3>1
  <2> QED  BY <2>1, <2>2
<1>5. PICK rules : rules = IF summary # None THEN "classic" ELSE "modernized"  OBVIOUS
<1>6. PICK paid : paid = Deduct([g.players EXCEPT ![seat] = counted], seat, befores, rules)  OBVIOUS
<1>7. PICK final : final = [ApplyBest(paid.players[seat], card, summary # None, score) EXCEPT !.score = @ + score]
  OBVIOUS
<1>8. PICK ps : ps = [paid.players EXCEPT ![seat] = final]  OBVIOUS
<1>9. CalculateNextTurn(g, input0, success, summary) = PayActor(g, score, success, summary, paid)
  BY Zenon, <1>1, <1>2, <1>3, <1>5, <1>6 DEF CalculateNextTurn
<1>10. PayActor(g, score, success, summary, paid) = TurnResult(g, score, success, summary, paid.hits, ps)
  BY Zenon, <1>7, <1>8 DEF PayActor
<1>11. r = TurnResult(g, score, success, summary, paid.hits, ps)  BY <1>9, <1>10
<1>12. Logged(r, g, score, success, summary, paid, final)
  <2>1. success \in BOOLEAN  BY DEF Input
  <2> QED  BY <1>8, <1>11, <2>1, TurnResultIs
<1>13. CountedAs(g.players[seat], card, success, score, summary, counted)
  BY <1>2 DEF CountedAs, SummaryOn, CountedOn
<1>14. Payment(g, score, success, summary, counted, paid, final, n)
  BY <1>4, <1>6, <1>7, <1>13 DEF Payment
<1> QED  BY <1>12, <1>14

-----------------------------------------------------------------------------
\* A committed turn settles the table: every name stays, every score moves by
\* what the log's new entry says, and the record kept of it takes it all back.

\* A turn its record can take back: any but a bare Stop.
CanGoBack(prev) == prev.card = "Stop" => prev.summary # None
GivesBack(q, prev, acting) == IF acting THEN TakenBack(q, prev) ELSE Repaid(q, prev)

Settled(r, p, q) ==
  /\ q \in Players /\ q.name = p.name
  /\ q.score = p.score + (Earned(r.entry, p.name) - Lost(r.entry, p.name))
Settles(r, ps, seat) ==
  /\ Table(r.players) /\ Len(r.players) = Len(ps) /\ DOMAIN r.players = DOMAIN ps
  /\ \A i \in DOMAIN ps : Settled(r, ps[i], r.players[i])
  /\ CanGoBack(r.prev) =>
       \A i \in DOMAIN ps : ps[i] = IF i = seat THEN TakenBack(r.players[i], r.prev) ELSE Repaid(r.players[i], r.prev)

LEMMA LostIs ==
  ASSUME NEW entry, NEW name, NEW hits, entry.hits = hits
  PROVE  Lost(entry, name) = LostIn(hits, name)
BY DEF Lost, LostIn

\* One seat of a table taken by a changed player.
Reseated(ps1, ps, seat, p) == ps1 = [ps EXCEPT ![seat] = p]

\* The table the deductions are made on: the turn is counted, nothing is paid.
LEMMA CountedTable ==
  ASSUME NEW ps, Table(ps), NEW seat \in DOMAIN ps, NEW counted \in Players, counted.name = ps[seat].name,
         NEW ps1, Reseated(ps1, ps, seat, counted)
  PROVE  /\ Table(ps1) /\ DOMAIN ps1 = DOMAIN ps /\ Len(ps1) = Len(ps)
         /\ ps1[seat] = counted /\ \A i \in DOMAIN ps : i # seat => ps1[i] = ps[i]
<1>1. ps \in Seq(Players) /\ OneEach(ps)  BY DEF Table
<1>2. ps1 \in Seq(Players) /\ DOMAIN ps1 = DOMAIN ps /\ Len(ps1) = Len(ps) /\ ps1[seat] = counted
      /\ \A i \in DOMAIN ps : i # seat => ps1[i] = ps[i]
  BY <1>1 DEF Reseated
<1>3. \A i \in DOMAIN ps : ps1[i].name = ps[i].name  BY <1>2
<1>4. OneEach(ps1)  BY <1>1, <1>2, <1>3 DEF OneEach
<1> QED  BY <1>2, <1>4 DEF Table

LEMMA NoHitNoLoss ==
  ASSUME NEW p \in Players, NEW q, NEW hits, Told(p, q, hits), HitIn(hits, p.name) = {}
  PROVE  q = Deducted(p, p.score, 0) /\ LostIn(hits, p.name) = 0
<1>1. PICK score \in Int, times \in Nat :
        /\ q = Deducted(p, score, times) /\ LostIn(hits, p.name) = p.score - score
        /\ times = Cardinality(HitIn(hits, p.name)) /\ score = p.score
  BY DEF Told
<1>2. times = 0  BY <1>1, FS_EmptySet
<1>3. p.score \in Int  BY DEF Players
<1> QED  BY <1>1, <1>2, <1>3

LEMMA RecordIsOfSummary ==
  ASSUME LocalAssumption, NEW p \in Players, NEW summary, Summarised(summary), summary.ended \in Endings,
         NEW hits \in Seq(Losses), NEW prev,
         prev.summary = [cards |-> summary.cards, tuttoCount |-> summary.tuttoCount, ended |-> summary.ended,
                         deducted |-> hits, prevMostCards |-> p.stat["mostCardsInTurn"],
                         prevForfeited |-> p.stat["highestForfeitedTurnScore"]]
  PROVE  OfSummary(prev, p, summary) /\ prev.summary.deducted = hits
<1>1. summary.cards \in Seq(Played) /\ summary.tuttoCount \in Nat  BY DEF Summarised, Chained
<1>2. Played = [card : STRING, completed : BOOLEAN]  BY DEF Played, Faces
<1>3. p.stat["mostCardsInTurn"] \in Nat /\ p.stat["highestForfeitedTurnScore"] \in Nat  BY DEF Players, Stats
<1>4. prev.summary \in KeptSummaries  BY <1>1, <1>2, <1>3 DEF KeptSummaries, Chains, Endings
<1>5. prev.summary # None  BY <1>4 DEF LocalAssumption
<1> QED  BY <1>5 DEF OfSummary

\* The seat whose turn it was.
LEMMA SeatSettles ==
  ASSUME LocalAssumption, NEW g, NEW success, NEW summary, NEW input0, Input(g, input0, success, summary),
         NEW p, p = g.players[g.currentPlayerIndex], p \in Players,
         NEW score \in Nat, NEW n, NEW counted, NEW paid, NEW final, Payment(g, score, success, summary, counted, paid, final, n),
         NEW r, Logged(r, g, score, success, summary, paid, final),
         paid.players[g.currentPlayerIndex] = Deducted(counted, counted.score, 0),
         paid.hits \in Seq(Losses), LostIn(paid.hits, p.name) = 0
  PROVE  /\ Settled(r, p, final)
         /\ CanGoBack(r.prev) => TakenBack(final, r.prev) = p
<1>1. CountedAs(p, g.currentCard, success, score, summary, counted)  BY DEF Payment
<1>2. counted \in Players /\ counted.name = p.name /\ counted.score = p.score
  BY <1>1, TurnCounts DEF Input
<1>3. PICK classic : TurnOn(counted, g.currentCard, classic, score, final)
  BY DEF Payment, TurnOn
<1>4. final \in Players /\ final.name = p.name /\ final.score = p.score + score
  <2>1. counted \in Players  BY <1>2
  <2>2. PICK card : TurnOn(counted, card, classic, score, final)  BY <1>3
  <2>3. final \in Players /\ final.name = counted.name /\ final.score = counted.score + score
    BY ONLY <2>1, <2>2, TurnOnIs, score \in Nat
  <2> QED  BY <1>2, <2>3
<1>5. Earned(r.entry, p.name) = score  BY DEF Earned, Logged
<1>6. Lost(r.entry, p.name) = 0  BY LostIs DEF Logged
<1>7. Settled(r, p, final)
  <2>1. p.score \in Int  BY DEF Players
  <2> QED  BY <1>4, <1>5, <1>6, <2>1 DEF Settled
<1>8. Records(r.prev, p, score)  BY DEF Logged
<1>9. CASE summary # None
  <2>1. OfSummary(r.prev, p, summary)  BY <1>9, RecordIsOfSummary DEF Input, Logged
  <2>2. SummaryOn(p, summary, success, counted)  BY <1>1, <1>9 DEF CountedAs
  <2>3. TakenBack(final, r.prev) = p
    BY <1>3, <1>8, <1>9, <2>1, <2>2, ClassicTurnBack DEF Input, SummaryOn
  <2> QED  BY <1>7, <2>3
<1>10. CASE summary = None
  <2> SUFFICES ASSUME CanGoBack(r.prev) PROVE TakenBack(final, r.prev) = p  BY <1>7
  <2>1. OfCard(r.prev, g.currentCard, success)  BY <1>10 DEF Logged, OfCard, CanGoBack
  <2>2. CountedOn(p, g.currentCard, success, score, counted)  BY <1>1, <1>10 DEF CountedAs
  <2>3. success \in BOOLEAN  BY DEF Input
  <2> QED  BY <1>3, <1>8, <2>1, <2>2, <2>3, ModernTurnBack
<1> QED  BY <1>9, <1>10

HitsFit(hits, n, summary) ==
  DOMAIN hits = 1..n /\ Len(hits) = n /\ hits \in Seq(Losses) /\ (summary = None => n <= 1)

LEMMA HitsOnRecord ==
  ASSUME LocalAssumption, NEW g, NEW success, NEW summary, NEW input0, Input(g, input0, success, summary),
         g.players[g.currentPlayerIndex] \in Players,
         NEW score, NEW n \in Nat, NEW paid, NEW final,
         NEW r, Logged(r, g, score, success, summary, paid, final), HitsFit(paid.hits, n, summary)
  PROVE  OfHits(r.prev, g.players, paid.hits)
<1>1. r.prev.leaders = SnapshotLeaders(g.players, paid.hits)  BY DEF Logged
<1>2. CASE summary = None
  <2>1. r.prev.summary = None /\ Len(paid.hits) <= 1  BY <1>2 DEF Logged, HitsFit
  <2> QED  BY <1>1, <2>1 DEF OfHits
<1>3. CASE summary # None
  <2>1. OfSummary(r.prev, g.players[g.currentPlayerIndex], summary) /\ r.prev.summary.deducted = paid.hits
    BY <1>3, RecordIsOfSummary DEF Input, Logged, HitsFit
  <2> QED  BY <1>1, <2>1 DEF OfHits, OfSummary
<1> QED  BY <1>2, <1>3

EntryIs(entry, name, hits) == entry.player = name /\ entry.hits = hits

\* Any other seat.
LEMMA OtherSettles ==
  ASSUME NEW ps, Table(ps), NEW seat \in DOMAIN ps, NEW i \in DOMAIN ps, i # seat,
         NEW hits, NEW n \in Nat, DOMAIN hits = 1..n,
         NEW r, EntryIs(r.entry, ps[seat].name, hits), OfHits(r.prev, ps, hits), NEW q, Told(ps[i], q, hits)
  PROVE  Settled(r, ps[i], q) /\ Repaid(q, r.prev) = ps[i]
<1>1. PICK p : p = ps[i]  OBVIOUS
<1>2. p \in Players /\ OneEach(ps)  BY <1>1 DEF Table
<1>3. p.name # ps[seat].name  BY <1>1, <1>2 DEF OneEach
<1>4. Told(p, q, hits)  BY <1>1
<1>5. q \in Players /\ q.name = p.name /\ q.score = p.score - LostIn(hits, p.name)
  BY <1>2, <1>4, ToldIs
<1>6. Earned(r.entry, p.name) = 0  BY <1>3 DEF Earned, EntryIs
<1>7. Lost(r.entry, p.name) = LostIn(hits, p.name)  BY LostIs DEF EntryIs
<1>8. p.score - LostIn(hits, p.name) = p.score + (0 - LostIn(hits, p.name))
  <2>1. PICK score1 \in Int : LostIn(hits, p.name) = p.score - score1  BY <1>4 DEF Told
  <2>2. p.score \in Int  BY <1>2 DEF Players
  <2> QED  BY <2>1, <2>2
<1>9. Settled(r, p, q)  BY <1>5, <1>6, <1>7, <1>8 DEF Settled
<1>10. Repaid(q, r.prev) = ps[i]
  BY <1>1, <1>2, <1>4, RepaidIs
<1> QED  BY <1>1, <1>9, <1>10

\* A table to take a turn at.
AtTable(g) ==
  /\ Table(g.players) /\ g.currentPlayerIndex \in DOMAIN g.players /\ g.currentCard \in Faces
  /\ g.round \in Nat

\* The record tells the cards of the turn.
Recalls(prev, summary) ==
  /\ summary = None => prev.summary = None
  /\ summary # None => prev.summary # None /\ prev.summary.cards = summary.cards

LEMMA TurnSettles ==
  ASSUME LocalAssumption, NEW g, AtTable(g), NEW input0, NEW success, NEW summary, Input(g, input0, success, summary),
         ~(g.currentCard = "Kleeblatt" /\ success),
         NEW r, r = CalculateNextTurn(g, input0, success, summary)
  PROVE  /\ Settles(r, g.players, g.currentPlayerIndex)
         /\ r.prev.card = g.currentCard /\ r.prev.player = g.players[g.currentPlayerIndex].name
         /\ r.order = AdvanceTurnOrder(r.players, g.currentPlayerIndex, g.round, g.winningScore)
         /\ Recalls(r.prev, summary)
<1>0. PICK counted, paid, final : \E score \in Nat, n \in Nat :
        /\ Payment(g, score, success, summary, counted, paid, final, n)
        /\ Logged(r, g, score, success, summary, paid, final)
  BY TurnIs
<1>1. PICK score \in Nat, n \in Nat :
        /\ Payment(g, score, success, summary, counted, paid, final, n)
        /\ Logged(r, g, score, success, summary, paid, final)
  BY <1>0
<1>2. PICK ps : ps = g.players  OBVIOUS
<1>3. PICK seat : seat = g.currentPlayerIndex  OBVIOUS
<1>4. Table(ps) /\ seat \in DOMAIN ps  BY <1>2, <1>3 DEF AtTable
<1>5. PICK p \in Players : p = ps[seat]  BY <1>4 DEF Table
<1>6. counted \in Players /\ counted.name = p.name
  <2>1. CountedAs(p, g.currentCard, success, score, summary, counted)  BY <1>1, <1>2, <1>3, <1>5 DEF Payment
  <2>2. PICK card : CountedAs(p, card, success, score, summary, counted)  BY <2>1
  <2>3. success \in BOOLEAN /\ (summary = None \/ Summarised(summary))  BY DEF Input
  <2> QED  BY ONLY <2>2, <2>3, TurnCounts, p \in Players, score \in Nat
<1>7. PICK ps1 : ps1 = [ps EXCEPT ![seat] = counted]  OBVIOUS
<1>8. /\ Table(ps1) /\ DOMAIN ps1 = DOMAIN ps /\ Len(ps1) = Len(ps)
      /\ ps1[seat] = counted /\ \A i \in DOMAIN ps : i # seat => ps1[i] = ps[i]
  <2>1. counted \in Players /\ counted.name = ps[seat].name  BY <1>5, <1>6
  <2>2. Reseated(ps1, ps, seat, counted)  BY <1>7 DEF Reseated
  <2> QED  BY ONLY <1>4, <2>1, <2>2, CountedTable
<1>9. Deducts(paid, ps1, seat, n)
  <2>1. PICK befores, rules : Len(befores) = n /\ paid = Deduct(ps1, seat, befores, rules)
    BY <1>1, <1>2, <1>3, <1>7 DEF Payment
  <2>2. Table(ps1) /\ seat \in DOMAIN ps1  BY <1>4, <1>8
  <2>3. Deducts(paid, ps1, seat, Len(befores))  BY ONLY <2>1, <2>2, DeductTells, n \in Nat
  <2> QED  BY <2>1, <2>3
<1>10. /\ DOMAIN paid.players = DOMAIN ps /\ Len(paid.players) = Len(ps)
       /\ paid.players = [i \in DOMAIN ps |-> paid.players[i]]
       /\ DOMAIN paid.hits = 1..n /\ Len(paid.hits) = n /\ paid.hits \in Seq(Losses)
       /\ \A i \in DOMAIN ps : Told(ps1[i], paid.players[i], paid.hits)
       /\ HitIn(paid.hits, counted.name) = {}
  BY <1>8, <1>9 DEF Deducts
<1>11. PICK qs : qs = r.players  OBVIOUS
<1>12. qs = [paid.players EXCEPT ![seat] = final]  BY <1>1, <1>3, <1>11 DEF Logged
<1>13. DOMAIN qs = DOMAIN ps /\ qs[seat] = final /\ \A i \in DOMAIN ps : i # seat => qs[i] = paid.players[i]
  BY <1>4, <1>10, <1>12
<1>14. Settled(r, p, final) /\ (CanGoBack(r.prev) => TakenBack(final, r.prev) = p)
  <2>1. Told(counted, paid.players[seat], paid.hits)  BY <1>4, <1>8, <1>10
  <2>2. paid.players[seat] = Deducted(counted, counted.score, 0) /\ LostIn(paid.hits, counted.name) = 0
    BY ONLY <1>6, <1>10, <2>1, NoHitNoLoss
  <2>3. LostIn(paid.hits, p.name) = 0 /\ p = g.players[g.currentPlayerIndex] /\ p \in Players
        /\ paid.players[g.currentPlayerIndex] = Deducted(counted, counted.score, 0)
    BY <1>2, <1>3, <1>5, <1>6, <2>2
  <2> QED  BY ONLY <1>1, <1>10, <2>2, <2>3, SeatSettles, LocalAssumption, Input(g, input0, success, summary), score \in Nat
<1>15. ASSUME NEW i \in DOMAIN ps, i # seat
       PROVE  Settled(r, ps[i], qs[i]) /\ Repaid(qs[i], r.prev) = ps[i]
  <2>1. PICK q : q = qs[i]  OBVIOUS
  <2>2. Told(ps[i], q, paid.hits)  BY <1>8, <1>10, <1>13, <1>15, <2>1
  <2>3. EntryIs(r.entry, ps[seat].name, paid.hits)  BY <1>1, <1>2, <1>3 DEF Logged, EntryIs
  <2>4. OfHits(r.prev, ps, paid.hits)
    <3>1. HitsFit(paid.hits, n, summary)  BY <1>1, <1>10 DEF Payment, HitsFit
    <3>2. g.players[g.currentPlayerIndex] \in Players  BY <1>2, <1>3, <1>5
    <3>3. Logged(r, g, score, success, summary, paid, final)  BY <1>1
    <3>4. OfHits(r.prev, g.players, paid.hits)
      BY ONLY <3>1, <3>2, <3>3, HitsOnRecord, LocalAssumption, Input(g, input0, success, summary), n \in Nat
    <3> QED  BY <1>2, <3>4
  <2>5. DOMAIN paid.hits = 1..n  BY <1>10
  <2>6. Settled(r, ps[i], q) /\ Repaid(q, r.prev) = ps[i]
    BY ONLY <1>4, <1>15, <2>2, <2>3, <2>4, <2>5, OtherSettles, n \in Nat
  <2> QED  BY <2>1, <2>6
<1>16. ASSUME NEW i \in DOMAIN ps PROVE Settled(r, ps[i], qs[i])
  BY <1>5, <1>13, <1>14, <1>15
<1>17. DOMAIN ps = 1..Len(ps) /\ Len(ps) \in Nat /\ OneEach(ps)  BY <1>4 DEF Table
<1>18. qs \in Seq(Players) /\ Len(qs) = Len(ps)
  <2>1. \A i \in DOMAIN ps : qs[i] \in Players  BY <1>16 DEF Settled
  <2>2. qs = [i \in 1..Len(ps) |-> qs[i]]
    <3>1. PICK f : f = paid.players /\ f = [i \in DOMAIN ps |-> f[i]]  BY <1>10
    <3> QED  BY <1>12, <1>17, <3>1
  <2>3. qs \in [1..Len(ps) -> Players]  BY <1>17, <2>1, <2>2
  <2> QED  BY <1>17, <2>3
<1>19. OneEach(qs)
  <2>1. \A i \in DOMAIN ps : qs[i].name = ps[i].name  BY <1>16 DEF Settled
  <2> QED  BY <1>13, <1>17, <2>1 DEF OneEach
<1>20. Table(qs)  BY <1>18, <1>19 DEF Table
<1>21. CanGoBack(r.prev) =>
         \A i \in DOMAIN ps : ps[i] = IF i = seat THEN TakenBack(qs[i], r.prev) ELSE Repaid(qs[i], r.prev)
  <2> SUFFICES ASSUME CanGoBack(r.prev), NEW i \in DOMAIN ps
               PROVE ps[i] = IF i = seat THEN TakenBack(qs[i], r.prev) ELSE Repaid(qs[i], r.prev)
    OBVIOUS
  <2>1. CASE i = seat  BY <1>5, <1>13, <1>14, <2>1
  <2>2. CASE i # seat  BY <1>15, <2>2
  <2> QED  BY <2>1, <2>2
<1>22. Settles(r, ps, seat)  BY <1>11, <1>13, <1>16, <1>18, <1>20, <1>21 DEF Settles
<1>23. /\ r.prev.card = g.currentCard /\ r.prev.player = g.players[g.currentPlayerIndex].name
       /\ r.order = AdvanceTurnOrder(r.players, g.currentPlayerIndex, g.round, g.winningScore)
  BY <1>1 DEF Logged
<1>24. Recalls(r.prev, summary)
  <2>1. CASE summary = None  BY <1>1, <2>1 DEF Recalls, Logged
  <2>2. CASE summary # None
    <3>1. p = g.players[g.currentPlayerIndex]  BY <1>2, <1>3, <1>5
    <3>2. OfSummary(r.prev, p, summary)  BY <1>1, <1>10, <2>2, <3>1, RecordIsOfSummary DEF Input, Logged
    <3> QED  BY <2>2, <3>2 DEF Recalls, OfSummary
  <2> QED  BY <2>1, <2>2
<1> QED  BY <1>2, <1>3, <1>22, <1>23, <1>24

-----------------------------------------------------------------------------
\* Sequences of anything.

IsSeq(s) == \E S : s \in Seq(S)

LEMMA SeqIs ==
  ASSUME NEW s, IsSeq(s)
  PROVE  Len(s) \in Nat /\ DOMAIN s = 1..Len(s)
BY DEF IsSeq

LEMMA AppendIs ==
  ASSUME NEW s, IsSeq(s), NEW e
  PROVE  /\ IsSeq(Append(s, e)) /\ Len(Append(s, e)) = Len(s) + 1 /\ Append(s, e)[Len(s) + 1] = e
         /\ \A k \in 1..Len(s) : Append(s, e)[k] = s[k]
         /\ Front(Append(s, e)) = s
<1>1. PICK S : s \in Seq(S)  BY DEF IsSeq
<1>2. PICK T : T = S \cup {e}  OBVIOUS
<1>3. s \in Seq(T) /\ e \in T
  <2>1. S \subseteq T /\ e \in T  BY <1>2
  <2>2. s \in [1..Len(s) -> S] /\ Len(s) \in Nat  BY <1>1
  <2>3. s \in [1..Len(s) -> T]  BY <2>1, <2>2
  <2> QED  BY <2>1, <2>2, <2>3
<1>4. PICK a : a = Append(s, e)  OBVIOUS
<1>5. a \in Seq(T) /\ Len(a) = Len(s) + 1 /\ a[Len(s) + 1] = e /\ \A k \in 1..Len(s) : a[k] = s[k]
  BY <1>3, <1>4, AppendProperties
<1>6. Front(a) = s
  <2>1. Front(a) = SubSeq(a, 1, Len(s))
    <3>1. Len(a) - 1 = Len(s)  BY <1>3, <1>5
    <3> QED  BY <3>1 DEF Front
  <2>2. s \in Seq(T) /\ Len(s) \in Nat  BY <1>3
  <2>3. PICK n \in Nat : n = Len(s)  BY <2>2
  <2>4. SubSeq(a, 1, n) \in Seq(T) /\ Len(SubSeq(a, 1, n)) = n /\ \A k \in 1..n : SubSeq(a, 1, n)[k] = a[k]
    BY <1>5, <2>2, <2>3, SubSeqProperties
  <2>5. PICK f : f = SubSeq(a, 1, n)  OBVIOUS
  <2>6. f \in Seq(T) /\ Len(f) = Len(s) /\ \A k \in 1..Len(s) : f[k] = s[k]  BY <1>5, <2>3, <2>4, <2>5
  <2>7. f = s  BY <2>2, <2>6, SeqEqual
  <2> QED  BY <2>1, <2>3, <2>5, <2>7
<1> QED  BY <1>4, <1>5, <1>6 DEF IsSeq

\* A seat taken out of the row.
LEMMA RemovedIs ==
  ASSUME NEW s, IsSeq(s), NEW i \in 1..Len(s)
  PROVE  /\ IsSeq(RemoveAt(s, i)) /\ Len(RemoveAt(s, i)) = Len(s) - 1
         /\ \A k \in 1..Len(s) - 1 : RemoveAt(s, i)[k] = s[IF k < i THEN k ELSE k + 1]
<1>1. PICK S : s \in Seq(S)  BY DEF IsSeq
<1>2. PICK n \in Nat : n = Len(s)  BY <1>1
<1>3. PICK f : f = SubSeq(s, 1, i - 1)  OBVIOUS
<1>4. PICK h : h = SubSeq(s, i + 1, n)  OBVIOUS
<1>5. f \in Seq(S) /\ Len(f) = i - 1 /\ \A k \in 1..i - 1 : f[k] = s[k]
  BY <1>1, <1>2, <1>3, SubSeqProperties
<1>6. h \in Seq(S) /\ Len(h) = n - i /\ \A k \in 1..n - i : h[k] = s[i + k]
  BY <1>1, <1>2, <1>4, SubSeqProperties
<1>7. PICK r : r = f \o h  OBVIOUS
<1>8. RemoveAt(s, i) = r  BY <1>2, <1>3, <1>4, <1>7 DEF RemoveAt
<1>a. r \in Seq(S) /\ Len(r) = Len(f) + Len(h)  BY ONLY <1>5, <1>6, <1>7, ConcatProperties
<1>9. r \in Seq(S) /\ Len(r) = (i - 1) + (n - i)  BY <1>5, <1>6, <1>a
<1>10. ASSUME NEW k \in 1..n - 1 PROVE r[k] = s[IF k < i THEN k ELSE k + 1]
  <2>1. CASE k < i
    <3>1. r[k] = f[k]  BY <1>2, <1>5, <1>6, <1>7, <2>1
    <3>2. k \in 1..i - 1  BY <1>2, <2>1
    <3> QED  BY <1>5, <2>1, <3>1, <3>2
  <2>2. CASE ~(k < i)
    <3>1. k - (i - 1) \in 1..n - i  BY <1>2, <2>2
    <3>2. r[k] = h[k - (i - 1)]  BY <1>2, <1>5, <1>6, <1>7, <2>2
    <3>3. i + (k - (i - 1)) = k + 1  BY <1>2
    <3> QED  BY <1>6, <2>2, <3>1, <3>2, <3>3
  <2> QED  BY <2>1, <2>2
<1>11. (i - 1) + (n - i) = n - 1  BY <1>2
<1> QED  BY <1>2, <1>8, <1>9, <1>10, <1>11 DEF IsSeq

-----------------------------------------------------------------------------
\* The turn is over: the next seat, the ledger, and the way back.

Ledger(log, name) == Total([k \in DOMAIN log |-> Earned(log[k], name) - Lost(log[k], name)])
Explained(ps, log) == \A i \in DOMAIN ps : ps[i].score = Ledger(log, ps[i].name)

\* A game as a turn of it began, with the cards the turn has dealt.
At(g, turns, dealt) == [players |-> g.players, round |-> g.round, seat |-> g.currentPlayerIndex,
                        chart |-> g.chart, log |-> g.log, turns |-> turns, dealt |-> dealt]
Stood(t) ==
  /\ Table(t.players) /\ t.seat \in DOMAIN t.players /\ t.round \in Nat
  /\ IsSeq(t.chart) /\ IsSeq(t.log) /\ IsSeq(t.turns)
  /\ Explained(t.players, t.turns) /\ Shows(t.log, t.turns)

\* What is left of a log when it has room for one more entry.
Room(log) == IF Len(log) < MaxLog THEN log ELSE Tail(log)

\* The cards of the turn a record tells of.
ChainOf(prev) == IF prev.summary = None THEN <<prev.card>>
                 ELSE [k \in DOMAIN prev.summary.cards |-> prev.summary.cards[k].card]

\* Undoing the last turn of g leads back to b, but for what the log of b
\* could not keep.
BackTo(g, turns, b) ==
  LET r == CalculateUndo(g, <<>>)
  IN /\ b = [players |-> r.players, round |-> r.nextRound, seat |-> r.nextIndex,
             chart |-> IF r.isRoundEndUndo THEN Front(g.chart) ELSE g.chart,
             log |-> b.log, turns |-> Front(turns), dealt |-> b.dealt]
     /\ Front(g.log) = Room(b.log)
     /\ b.dealt # <<>> => r.drawnCard = Head(b.dealt)

LEMMA RoomShows ==
  ASSUME LocalAssumption, NEW log, IsSeq(log), NEW turns, IsSeq(turns), Shows(log, turns)
  PROVE  /\ IsSeq(Room(log)) /\ Shows(Room(log), turns)
         /\ Len(Room(log)) < MaxLog /\ Len(Room(log)) + 1 >= Len(log)
<1>0. Len(log) \in Nat /\ Len(turns) \in Nat /\ MaxLog \in Nat \ {0}
  BY SeqIs DEF LocalAssumption
<1>r. PICK room : room = Room(log)  OBVIOUS
<1>n. PICK n \in Nat : n = Len(log)  BY <1>0
<1>t. PICK t \in Nat : t = Len(turns)  BY <1>0
<1>m. PICK most \in Nat \ {0} : most = MaxLog  BY <1>0
<1>1. room = Room(log) /\ n = Len(log) /\ t = Len(turns) /\ most = MaxLog
  BY <1>r, <1>n, <1>t, <1>m
<1>2. /\ DOMAIN log = 1..n /\ n <= most /\ (n = t \/ (t >= most /\ n >= most - 1))
      /\ \A k \in 1..n : log[k] = turns[t - n + k]
  BY <1>1, SeqIs DEF Shows
<1>3. CASE n < most
  <2>1. room = log  BY <1>1, <1>3 DEF Room
  <2> QED  BY <1>1, <1>3, <2>1
<1>4. CASE n = most
  <2>1. room = Tail(log)  BY <1>1, <1>4 DEF Room
  <2>2. PICK S : log \in Seq(S)  BY DEF IsSeq
  <2>3. log # <<>>  BY <1>1, <1>4
  <2>4. room \in Seq(S) /\ Len(room) = n - 1 /\ \A k \in 1..n - 1 : room[k] = log[k + 1]
    BY <1>1, <2>1, <2>2, <2>3, HeadTailProperties
  <2>5. IsSeq(room) /\ DOMAIN room = 1..n - 1  BY <2>4 DEF IsSeq
  <2>6. \A k \in 1..n - 1 : room[k] = turns[t - (n - 1) + k]
    <3> TAKE k \in 1..n - 1
    <3>1. k + 1 \in 1..n /\ t - n + (k + 1) = t - (n - 1) + k  OBVIOUS
    <3> QED  BY <1>2, <2>4, <3>1
  <2>7. n - 1 = t \/ (t >= most /\ n - 1 >= most - 1)  BY <1>2, <1>4
  <2>8. Shows(room, turns)
    <3>1. Len(room) = Len(turns) \/ (Len(turns) >= MaxLog /\ Len(room) >= MaxLog - 1)  BY <1>1, <2>4, <2>7
    <3>2. Len(room) <= MaxLog  BY <1>1, <1>4, <2>4
    <3>3. \A k \in DOMAIN room : room[k] = turns[Len(turns) - Len(room) + k]  BY <1>1, <2>4, <2>5, <2>6
    <3> QED  BY <3>1, <3>2, <3>3 DEF Shows
  <2> QED  BY <1>1, <1>4, <2>4, <2>5, <2>8
<1> QED  BY <1>2, <1>3, <1>4

\* The log with one entry more shows the turns with one turn more.
LEMMA EnteredShows ==
  ASSUME LocalAssumption, NEW log, IsSeq(log), NEW turns, IsSeq(turns), Shows(log, turns), NEW e
  PROVE  /\ IsSeq(Enter(log, e)) /\ Shows(Enter(log, e), Append(turns, e))
         /\ Front(Enter(log, e)) = Room(log) /\ Len(Enter(log, e)) >= Len(log)
<1>1. PICK room, new, more : room = Room(log) /\ new = Enter(log, e) /\ more = Append(turns, e)  OBVIOUS
<1>2. new = Append(room, e)  BY <1>1 DEF Enter, Room
<1>3. IsSeq(room) /\ Shows(room, turns) /\ Len(room) < MaxLog /\ Len(room) + 1 >= Len(log)  BY <1>1, RoomShows
<1>4. PICK n \in Nat, t \in Nat, most \in Nat : n = Len(room) /\ t = Len(turns) /\ most = MaxLog
  BY <1>3, SeqIs DEF LocalAssumption
<1>5. IsSeq(new) /\ Len(new) = n + 1 /\ new[n + 1] = e /\ (\A k \in 1..n : new[k] = room[k]) /\ Front(new) = room
  BY <1>2, <1>3, <1>4, AppendIs
<1>6. IsSeq(more) /\ Len(more) = t + 1 /\ more[t + 1] = e /\ \A k \in 1..t : more[k] = turns[k]
  BY <1>1, <1>4, AppendIs
<1>7. /\ n < most /\ (n = t \/ (t >= most /\ n >= most - 1))
      /\ \A k \in 1..n : room[k] = turns[t - n + k]
  BY <1>3, <1>4, SeqIs DEF Shows
<1>8. \A k \in 1..n + 1 : new[k] = more[(t + 1) - (n + 1) + k]
  <2> TAKE k \in 1..n + 1
  <2>1. CASE k = n + 1  BY <1>5, <1>6, <2>1
  <2>2. CASE k \in 1..n
    <3>1. t - n + k \in 1..t /\ (t + 1) - (n + 1) + k = t - n + k  BY <1>7, <2>2
    <3> QED  BY <1>5, <1>6, <1>7, <2>2, <3>1
  <2> QED  BY <2>1, <2>2
<1>9. DOMAIN new = 1..n + 1  BY <1>5, SeqIs
<1>10. Shows(new, more)
  <2>1. Len(new) = Len(more) \/ (Len(more) >= MaxLog /\ Len(new) >= MaxLog - 1)  BY <1>4, <1>5, <1>6, <1>7
  <2>2. Len(new) <= MaxLog  BY <1>4, <1>5, <1>7
  <2>3. \A k \in DOMAIN new : new[k] = more[Len(more) - Len(new) + k]  BY <1>5, <1>6, <1>8, <1>9
  <2> QED  BY <2>1, <2>2, <2>3 DEF Shows
<1> QED  BY <1>1, <1>3, <1>4, <1>5, <1>10

\* The seat the last turn was taken at.
LastSeat(g, s) == SeatNamed(g.players, g.prev.player) = {s}

LEMMA UndoIs ==
  ASSUME NEW g, NEW s, LastSeat(g, s), NEW r, r = CalculateUndo(g, <<>>)
  PROVE  /\ r.nextIndex = s
         /\ r.isRoundEndUndo <=> s >= g.currentPlayerIndex
         /\ r.nextRound = IF s >= g.currentPlayerIndex THEN g.round - 1 ELSE g.round
         /\ r.players = [i \in DOMAIN g.players |-> IF i = s THEN TakenBack(g.players[i], g.prev)
                                                    ELSE Repaid(g.players[i], g.prev)]
         /\ r.drawnCard = Head(ChainOf(g.prev))
<1>1. (CHOOSE i \in SeatNamed(g.players, g.prev.player) : TRUE) = s  BY DEF LastSeat
<1>2. /\ r.nextIndex = (CHOOSE i \in SeatNamed(g.players, g.prev.player) : TRUE)
      /\ r.isRoundEndUndo = ((CHOOSE i \in SeatNamed(g.players, g.prev.player) : TRUE) >= g.currentPlayerIndex)
      /\ r.nextRound = IF (CHOOSE i \in SeatNamed(g.players, g.prev.player) : TRUE) >= g.currentPlayerIndex
                       THEN g.round - 1 ELSE g.round
      /\ r.players = [i \in DOMAIN g.players |->
                        IF i = (CHOOSE j \in SeatNamed(g.players, g.prev.player) : TRUE)
                        THEN TakenBack(g.players[i], g.prev) ELSE Repaid(g.players[i], g.prev)]
      /\ r.drawnCard = Head(ChainOf(g.prev))
  BY DEF CalculateUndo, ChainOf
<1> QED  BY <1>1, <1>2

\* The next seat of a game that goes on.
LEMMA OrderIs ==
  ASSUME NEW ps, NEW seat, NEW round, NEW winning, NEW o, o = AdvanceTurnOrder(ps, seat, round, winning), ~o.isGameOver
  PROVE  /\ o.isRoundEnd <=> seat = Len(ps)
         /\ o.nextIndex = IF seat = Len(ps) THEN 1 ELSE seat + 1
         /\ o.nextRound = IF seat = Len(ps) THEN round + 1 ELSE round
BY DEF AdvanceTurnOrder

\* What the log's new entry says is what the scores moved by.
LEMMA LedgerGrows ==
  ASSUME NEW log, IsSeq(log), NEW e, NEW name
  PROVE  Ledger(Append(log, e), name) = Ledger(log, name) + (Earned(e, name) - Lost(e, name))
<1>1. PICK more : more = Append(log, e)  OBVIOUS
<1>2. /\ IsSeq(more) /\ Len(more) = Len(log) + 1 /\ more[Len(log) + 1] = e /\ \A k \in 1..Len(log) : more[k] = log[k]
  BY <1>1, AppendIs
<1>3. PICK a : a = [k \in DOMAIN log |-> Earned(log[k], name) - Lost(log[k], name)]  OBVIOUS
<1>4. PICK b : b = [k \in DOMAIN more |-> Earned(more[k], name) - Lost(more[k], name)]  OBVIOUS
<1>5. PICK n \in Nat : n = Len(log) /\ DOMAIN log = 1..n /\ DOMAIN more = 1..n + 1
  BY <1>2, SeqIs
<1>6. /\ Len(a) = n /\ Len(b) = n + 1
      /\ \A k \in 1..n : a[k] = Earned(log[k], name) - Lost(log[k], name)
      /\ \A k \in 1..n + 1 : b[k] = Earned(more[k], name) - Lost(more[k], name)
  BY <1>3, <1>4, <1>5
<1>7. \A k \in 1..n : a[k] = b[k]  BY <1>2, <1>5, <1>6
<1>8. b[n + 1] = Earned(e, name) - Lost(e, name)  BY <1>2, <1>5, <1>6
<1>9. Total(b) = Total(a) + b[Len(b)]  BY <1>6, <1>7, TotalOfMore
<1> QED  BY <1>1, <1>3, <1>4, <1>6, <1>8, <1>9 DEF Ledger

LEMMA StillExplained ==
  ASSUME NEW ps, NEW log, IsSeq(log), Explained(ps, log), NEW r, NEW seat, Settles(r, ps, seat)
  PROVE  Explained(r.players, Append(log, r.entry))
<1> SUFFICES ASSUME NEW i \in DOMAIN r.players
             PROVE r.players[i].score = Ledger(Append(log, r.entry), r.players[i].name)
  BY DEF Explained
<1>1. i \in DOMAIN ps /\ Settled(r, ps[i], r.players[i])  BY DEF Settles
<1>2. PICK p, q : p = ps[i] /\ q = r.players[i]  OBVIOUS
<1>3. q.name = p.name /\ q.score = p.score + (Earned(r.entry, p.name) - Lost(r.entry, p.name))
  BY <1>1, <1>2 DEF Settled
<1>4. p.score = Ledger(log, p.name)  BY <1>1, <1>2 DEF Explained
<1> QED  BY <1>2, <1>3, <1>4, LedgerGrows

\* The game g2 that taking a turn r of g leads to.
MovesOn(g, r, g2) ==
  /\ ~r.order.isGameOver
  /\ g2.players = r.players /\ g2.prev = r.prev /\ g2.log = Enter(g.log, r.entry)
  /\ g2.chart = IF r.order.isRoundEnd THEN Append(g.chart, Scores(r.players)) ELSE g.chart
  /\ g2.currentPlayerIndex = r.order.nextIndex /\ g2.round = r.order.nextRound

LEMMA TurnStands ==
  ASSUME LocalAssumption, NEW g, NEW turns, Stood(At(g, turns, <<>>)), NEW r, Settles(r, g.players, g.currentPlayerIndex),
         r.order = AdvanceTurnOrder(r.players, g.currentPlayerIndex, g.round, g.winningScore),
         NEW g2, MovesOn(g, r, g2)
  PROVE  Stood(At(g2, Append(turns, r.entry), <<>>))
<1>1. /\ Table(g.players) /\ g.currentPlayerIndex \in DOMAIN g.players /\ g.round \in Nat
      /\ IsSeq(g.chart) /\ IsSeq(g.log) /\ IsSeq(turns) /\ Shows(g.log, turns) /\ Explained(g.players, turns)
  BY DEF Stood, At
<1>2. Table(g2.players) /\ DOMAIN g2.players = DOMAIN g.players /\ Len(r.players) = Len(g.players) /\ g2.players = r.players
  BY DEF Settles, MovesOn
<1>3. PICK n \in Nat : n = Len(g.players) /\ DOMAIN g.players = 1..n  BY <1>1 DEF Table
<1>4. PICK seat \in 1..n : seat = g.currentPlayerIndex  BY <1>1, <1>3
<1>5. PICK o : o = r.order  OBVIOUS
<1>6. o = AdvanceTurnOrder(r.players, seat, g.round, g.winningScore) /\ ~o.isGameOver  BY <1>4, <1>5 DEF MovesOn
<1>7. /\ o.nextIndex = IF seat = n THEN 1 ELSE seat + 1
      /\ o.nextRound = IF seat = n THEN g.round + 1 ELSE g.round
  BY <1>2, <1>3, <1>6, OrderIs
<1>8. g2.currentPlayerIndex \in DOMAIN g2.players /\ g2.round \in Nat
  BY <1>1, <1>2, <1>3, <1>5, <1>7 DEF MovesOn
<1>9. /\ IsSeq(g2.chart) /\ IsSeq(g2.log) /\ IsSeq(Append(turns, r.entry))
      /\ Shows(g2.log, Append(turns, r.entry))
  BY <1>1, AppendIs, EnteredShows DEF MovesOn
<1>10. Explained(g2.players, Append(turns, r.entry))  BY <1>1, StillExplained DEF MovesOn
<1> QED  BY <1>2, <1>8, <1>9, <1>10 DEF Stood, At

LEMMA TurnGoesBack ==
  ASSUME LocalAssumption, NEW g, NEW turns, Stood(At(g, turns, <<>>)), NEW r, Settles(r, g.players, g.currentPlayerIndex),
         r.order = AdvanceTurnOrder(r.players, g.currentPlayerIndex, g.round, g.winningScore),
         NEW g2, MovesOn(g, r, g2), CanGoBack(r.prev), r.prev.player = g.players[g.currentPlayerIndex].name,
         NEW dealt, dealt # <<>> => Head(ChainOf(r.prev)) = Head(dealt)
  PROVE  BackTo(g2, Append(turns, r.entry), At(g, turns, dealt))
<1>1. /\ Table(g.players) /\ g.currentPlayerIndex \in DOMAIN g.players /\ g.round \in Nat
      /\ IsSeq(g.chart) /\ IsSeq(g.log) /\ IsSeq(turns) /\ Shows(g.log, turns)
  BY DEF Stood, At
<1>2. PICK ps, qs : ps = g.players /\ qs = r.players  OBVIOUS
<1>3. PICK n \in Nat : n = Len(ps) /\ DOMAIN ps = 1..n  BY <1>1, <1>2 DEF Table
<1>4. PICK seat \in 1..n : seat = g.currentPlayerIndex  BY <1>1, <1>2, <1>3
<1>5. Table(qs) /\ Len(qs) = n /\ DOMAIN qs = 1..n  BY <1>2, <1>3 DEF Settles
<1>6. /\ \A i \in 1..n : qs[i].name = ps[i].name
      /\ \A i \in 1..n : ps[i] = IF i = seat THEN TakenBack(qs[i], r.prev) ELSE Repaid(qs[i], r.prev)
  BY <1>2, <1>3, <1>4 DEF Settles, Settled
<1>7. g2.players = qs /\ g2.prev = r.prev  BY <1>2 DEF MovesOn
<1>8. PICK o : o = r.order /\ ~o.isGameOver  BY DEF MovesOn
<1>9. /\ o.isRoundEnd <=> seat = n
      /\ o.nextIndex = IF seat = n THEN 1 ELSE seat + 1
      /\ o.nextRound = IF seat = n THEN g.round + 1 ELSE g.round
  <2>1. o = AdvanceTurnOrder(qs, seat, g.round, g.winningScore)  BY <1>2, <1>4, <1>8
  <2> QED  BY <1>5, <1>8, <2>1, OrderIs
<1>10. g2.currentPlayerIndex = o.nextIndex /\ g2.round = o.nextRound  BY <1>8 DEF MovesOn
<1>11. SeatNamed(g2.players, g2.prev.player) = {seat}
  <2>1. g2.prev.player = ps[seat].name  BY <1>2, <1>4, <1>7
  <2>2. SeatNamed(g2.players, g2.prev.player) = {i \in 1..n : qs[i].name = ps[seat].name}
    BY <1>5, <1>7, <2>1 DEF SeatNamed
  <2>3. \A i \in 1..n : qs[i].name = ps[seat].name <=> i = seat
    <3>1. OneEach(qs)  BY <1>5 DEF Table
    <3> QED  BY <1>4, <1>5, <1>6, <3>1 DEF OneEach
  <2> QED  BY <1>4, <2>2, <2>3
<1>12. PICK u : u = CalculateUndo(g2, <<>>)  OBVIOUS
<1>13. /\ u.nextIndex = seat
       /\ u.isRoundEndUndo <=> seat >= g2.currentPlayerIndex
       /\ u.nextRound = IF seat >= g2.currentPlayerIndex THEN g2.round - 1 ELSE g2.round
       /\ u.players = [i \in DOMAIN g2.players |-> IF i = seat THEN TakenBack(g2.players[i], g2.prev)
                                                    ELSE Repaid(g2.players[i], g2.prev)]
       /\ u.drawnCard = Head(ChainOf(g2.prev))
  <2>1. LastSeat(g2, seat)  BY <1>11 DEF LastSeat
  <2> QED  BY ONLY <1>12, <2>1, UndoIs
<1>14. seat >= g2.currentPlayerIndex <=> seat = n  BY <1>9, <1>10
<1>15. u.nextRound = g.round  BY <1>1, <1>9, <1>10, <1>13, <1>14
<1>16. u.players = ps
  <2>1. u.players = [i \in 1..n |-> IF i = seat THEN TakenBack(qs[i], r.prev) ELSE Repaid(qs[i], r.prev)]
    BY <1>5, <1>7, <1>13
  <2>2. u.players = [i \in 1..n |-> ps[i]]  BY <1>6, <2>1
  <2>3. ps = [i \in 1..n |-> ps[i]]
    <3>1. ps \in Seq(Players)  BY <1>1, <1>2 DEF Table
    <3> QED  BY <1>3, <3>1
  <2> QED  BY <2>2, <2>3
<1>17. (IF u.isRoundEndUndo THEN Front(g2.chart) ELSE g2.chart) = g.chart
  <2>1. g2.chart = IF o.isRoundEnd THEN Append(g.chart, Scores(r.players)) ELSE g.chart  BY <1>8 DEF MovesOn
  <2>2. CASE seat = n
    <3>1. u.isRoundEndUndo  BY <1>13, <1>14, <2>2
    <3>2. g2.chart = Append(g.chart, Scores(r.players))  BY <1>9, <2>1, <2>2
    <3>3. Front(g2.chart) = g.chart  BY <1>1, <3>2, AppendIs
    <3> QED  BY <3>1, <3>3
  <2>3. CASE seat # n
    <3>1. ~u.isRoundEndUndo  BY <1>13, <1>14, <2>3
    <3>2. g2.chart = g.chart  BY <1>9, <2>1, <2>3
    <3> QED  BY <3>1, <3>2
  <2> QED  BY <2>2, <2>3
<1>18. Front(g2.log) = Room(g.log) /\ Front(Append(turns, r.entry)) = turns
  <2>1. g2.log = Enter(g.log, r.entry)  BY DEF MovesOn
  <2> QED  BY <1>1, <2>1, AppendIs, EnteredShows
<1>19. dealt # <<>> => u.drawnCard = Head(dealt)  BY <1>7, <1>13
<1>20. PICK b : b = At(g, turns, dealt)  OBVIOUS
<1>21. /\ b.dealt = dealt /\ b.log = g.log
       /\ b = [players |-> ps, round |-> g.round, seat |-> seat, chart |-> g.chart, log |-> g.log,
               turns |-> turns, dealt |-> dealt]
  BY <1>2, <1>4, <1>20 DEF At
<1>22. BackTo(g2, Append(turns, r.entry), b)
  BY <1>12, <1>13, <1>15, <1>16, <1>17, <1>18, <1>19, <1>21 DEF BackTo
<1> QED  BY <1>20, <1>22

-----------------------------------------------------------------------------
\* The invariant.

LedgerTypes ==
  /\ input \in Nat /\ chain.plus \in Seq(Nat)
  /\ cache # NoCache => cache.input \in Nat /\ cache.plus \in Seq(Nat)

\* No name twice, and only names a player can be given.
Seated(ps) == IsSeq(ps) /\ OneEach(ps) /\ \A i \in DOMAIN ps : ps[i].name \in Roster

Opened(g, o) == o = At(g, o.turns, o.dealt) /\ (~IsClassic(g) => o.dealt = <<g.currentCard>>)
Undoes(g, turns, b) == CanUndoState(g) => Stood(b) /\ BackTo(g, turns, b)
Accounted(g, o, b) == Stood(At(g, o.turns, <<>>)) /\ Opened(g, o) /\ Undoes(g, o.turns, b)

LedgerInv ==
  /\ LedgerTypes
  /\ disk = NoSave \/ Seated(disk.players)
  /\ Playing(disk) => Accounted(disk, opening, before)

LEMMA TurnIsAt ==
  ASSUME NEW g, NEW turns
  PROVE  /\ TurnOf(g, turns) = At(g, turns, <<g.currentCard>>)
         /\ TurnOf(g, turns).turns = turns /\ TurnOf(g, turns).dealt = <<g.currentCard>>
BY DEF TurnOf, At

LEMMA StoodAt ==
  ASSUME NEW g, NEW turns, NEW dealt, NEW other, Stood(At(g, turns, dealt))
  PROVE  Stood(At(g, turns, other))
BY DEF Stood, At

LEMMA TableIsSeated ==
  ASSUME NEW ps, Table(ps)
  PROVE  Seated(ps)
<1>1. ps \in Seq(Players) /\ OneEach(ps)  BY DEF Table
<1>2. ASSUME NEW i \in DOMAIN ps PROVE ps[i].name \in Roster
  <2>1. PICK p \in Players : p = ps[i]  BY <1>1
  <2> QED  BY <2>1 DEF Players
<1> QED  BY <1>1, <1>2 DEF Seated, IsSeq

LEMMA NooneIsSeated == Seated(<<>>) /\ EmptyLobby.players = <<>> /\ ~Playing(EmptyLobby)
<1>1. IsSeq(<<>>)
  <2>1. <<>> \in Seq({})  OBVIOUS
  <2> QED  BY <2>1 DEF IsSeq
<1>2. DOMAIN <<>> = {}  OBVIOUS
<1> QED  BY <1>1, <1>2, EmptyIsOk DEF Seated, OneEach

\* The players on the screen.
LEMMA ScreenIsSeated ==
  ASSUME LocalAssumption, SaveInv, LedgerInv, mode = "local"
  PROVE  Seated(game.players)
<1>1. CASE game = EmptyLobby  BY <1>1, NooneIsSeated
<1>2. CASE game # EmptyLobby
  <2>1. disk = game /\ game.status \in {"lobby", "playing"}  BY <1>2 DEF SaveInv, ScreenIsSave, LocalTypes, GameOk
  <2>2. disk # NoSave  BY <2>1 DEF NoSave, LocalAssumption
  <2> QED  BY <2>1, <2>2 DEF LedgerInv
<1> QED  BY <1>1, <1>2

LEMMA NewPlayers ==
  ASSUME NEW name \in Roster
  PROVE  FreshPlayer(name) \in Players /\ FreshPlayer(name).name = name /\ FreshPlayer(name).score = 0
<1>1. [s \in Stats |-> 0] \in [Stats -> Nat]  OBVIOUS
<1> QED  BY <1>1 DEF FreshPlayer, Players

\* The same names on a fresh table.
FreshTable(ps, qs) == qs = [i \in DOMAIN ps |-> FreshPlayer(ps[i].name)]

LEMMA FreshTableIs ==
  ASSUME NEW ps, Seated(ps), NEW qs, FreshTable(ps, qs)
  PROVE  /\ Table(qs) /\ DOMAIN qs = DOMAIN ps /\ Len(qs) = Len(ps)
         /\ \A i \in DOMAIN qs : qs[i].score = 0
<1>1. PICK n \in Nat : n = Len(ps) /\ DOMAIN ps = 1..n  BY SeqIs DEF Seated
<1>2. qs = [i \in 1..n |-> FreshPlayer(ps[i].name)]  BY <1>1 DEF FreshTable
<1>3. \A i \in 1..n : qs[i] \in Players /\ qs[i].name = ps[i].name /\ qs[i].score = 0
  BY <1>1, <1>2, NewPlayers DEF Seated
<1>4. qs \in Seq(Players) /\ Len(qs) = n /\ DOMAIN qs = 1..n
  <2>1. qs = [i \in 1..n |-> qs[i]]  BY <1>2
  <2>2. qs \in [1..n -> Players]  BY <1>3, <2>1
  <2> QED  BY <2>2
<1>5. OneEach(qs)  BY <1>1, <1>3, <1>4 DEF Seated, OneEach
<1> QED  BY <1>1, <1>3, <1>4, <1>5 DEF Table

LEMMA NothingLogged ==
  ASSUME NEW name
  PROVE  Ledger(<<>>, name) = 0
<1>1. PICK a : a = [k \in DOMAIN <<>> |-> Earned(<<>>[k], name) - Lost(<<>>[k], name)]  OBVIOUS
<1>2. DOMAIN <<>> = 1..0  OBVIOUS
<1>3. Len(a) = 0  BY <1>1, <1>2
<1>4. PICK s : Adds(a, s) /\ Total(a) = s[Len(a)]  BY <1>3, TotalAt
<1>5. Total(a) = 0  BY <1>3, <1>4 DEF Adds
<1> QED  BY <1>1, <1>5 DEF Ledger

\* A game begins: nothing scored, nothing logged, nothing to undo.
Begun(g, ps) ==
  /\ FreshTable(ps, g.players) /\ g.currentPlayerIndex = 1 /\ g.round = 1 /\ g.prev = NoUndoableTurn
  /\ g.chart = <<>> /\ g.log = <<>>

LEMMA GameBegins ==
  ASSUME LocalAssumption, NEW ps, Seated(ps), Len(ps) >= 2, NEW g, Begun(g, ps), NEW b
  PROVE  Seated(g.players) /\ Accounted(g, TurnOf(g, <<>>), b)
<1>1. PICK qs : qs = g.players  OBVIOUS
<1>2. FreshTable(ps, qs)  BY <1>1 DEF Begun
<1>3. Table(qs) /\ DOMAIN qs = DOMAIN ps /\ Len(qs) = Len(ps) /\ \A i \in DOMAIN qs : qs[i].score = 0
  BY <1>2, FreshTableIs
<1>4. 1 \in DOMAIN qs  BY <1>3, SeqIs DEF Seated
<1>5. IsSeq(<<>>)  BY NooneIsSeated DEF Seated
<1>6. Explained(qs, <<>>)  BY <1>3, NothingLogged DEF Explained
<1>7. Shows(<<>>, <<>>)  BY DEF Shows, LocalAssumption
<1>8. Stood(At(g, <<>>, <<>>))  BY <1>1, <1>3, <1>4, <1>5, <1>6, <1>7 DEF Stood, At, Begun
<1>9. PICK o : o = TurnOf(g, <<>>)  OBVIOUS
<1>10. Opened(g, o) /\ o.turns = <<>>  BY <1>9, TurnIsAt DEF Opened
<1>11. ~CanUndoState(g)  BY DEF CanUndoState, Begun, NoUndoableTurn
<1> QED  BY <1>1, <1>3, <1>8, <1>9, <1>10, <1>11, TableIsSeated DEF Accounted, Undoes

-----------------------------------------------------------------------------
\* The steps that leave the ledger alone, and the lobby's.

\* The turn in memory and its cache are of the right kind after each change.
LEMMA FreshIsTyped ==
  ASSUME LedgerTypes, FreshTurn, cache' = NoCache \/ cache' = cache
  PROVE  LedgerTypes'
BY DEF LedgerTypes, FreshTurn, NoChain

LEMMA ReadIsTyped ==
  ASSUME LedgerTypes, ReadCache
  PROVE  LedgerTypes'
<1> DEFINE mine == /\ Playing(game') /\ IsClassic(game')
                   /\ cache # NoCache /\ cache.key = TurnKey(game')
<1>1. CASE mine
  <2>1. chain' = [cards |-> cache.cards, plus |-> cache.plus] /\ input' = cache.input /\ cache' = cache
    BY <1>1 DEF ReadCache
  <2>2. chain'.plus = cache.plus  BY <2>1
  <2> QED  BY <1>1, <2>1, <2>2 DEF LedgerTypes
<1>2. CASE ~mine
  <2>1. FreshTurn /\ (cache' = NoCache \/ cache' = cache)  BY <1>2 DEF ReadCache
  <2> QED  BY <2>1, FreshIsTyped
<1> QED  BY <1>1, <1>2

LEMMA WrittenIsTyped ==
  ASSUME LedgerTypes, input' \in Nat, chain'.plus \in Seq(Nat), WriteThrough
  PROVE  LedgerTypes'
<1>1. \/ cache' = cache \/ cache' = NoCache
      \/ /\ cache'.input = input' /\ cache'.plus = chain'.plus
  BY DEF WriteThrough
<1> QED  BY <1>1 DEF LedgerTypes

\* The save is left alone, or an empty lobby is saved where nothing was.
LEMMA LedgerLeftAlone ==
  ASSUME LocalAssumption, LedgerInv, LedgerTypes', UNCHANGED <<before, opening>>, disk' = disk \/ disk' = EmptyLobby
  PROVE  LedgerInv'
<1>1. CASE disk' = disk  BY <1>1 DEF LedgerInv
<1>2. CASE disk' = EmptyLobby  BY <1>2, NooneIsSeated DEF LedgerInv
<1> QED  BY <1>1, <1>2

LEMMA LedgerOnPages ==
  ASSUME LocalAssumption, SaveInv, LedgerInv, Page, ~HardReset
  PROVE  LedgerInv'
<1>1. UNCHANGED <<before, opening>>
  BY DEF Page, Reload, OpenLink, SoftRecover, ChooseOnline, ChooseLocal, JoinRoom, Reconnect, Reconnected,
         ReconnectFails, DeclineReconnect, LoseRoom, LeaveRoom, ghosts
<1>2. disk' = disk \/ (game' = Saved /\ Persist(FALSE)) \/ Persist(TRUE)
  BY DEF Page, Reload, OpenLink, SoftRecover, ChooseOnline, ChooseLocal, JoinRoom, Reconnect, Reconnected,
         ReconnectFails, DeclineReconnect, LoseRoom, LeaveRoom
<1>3. disk' = disk \/ disk' = EmptyLobby  BY <1>2 DEF Persist, Saved
<1>4. ReadCache \/ ((FreshTurn \/ UNCHANGED turn) /\ (cache' = NoCache \/ cache' = cache))
  BY DEF Page, Reload, OpenLink, SoftRecover, ChooseOnline, ChooseLocal, JoinRoom, Reconnect, Reconnected,
         ReconnectFails, DeclineReconnect, LoseRoom, LeaveRoom, ClearCaches
<1>5. LedgerTypes /\ LedgerTypes'
  <2>0. LedgerTypes  BY DEF LedgerInv
  <2>1. CASE ReadCache  BY <2>0, <2>1, ReadIsTyped
  <2>2. CASE FreshTurn /\ (cache' = NoCache \/ cache' = cache)  BY <2>0, <2>2, FreshIsTyped
  <2>3. CASE UNCHANGED turn /\ (cache' = NoCache \/ cache' = cache)  BY <2>0, <2>3 DEF turn, LedgerTypes
  <2> QED  BY <1>4, <2>0, <2>1, <2>2, <2>3
<1> QED  BY <1>1, <1>3, <1>5, LedgerLeftAlone

\* Nothing is saved any more.
LEMMA LedgerIsReset ==
  ASSUME LocalAssumption, LedgerInv, HardReset
  PROVE  LedgerInv'
<1>1. FreshTurn /\ cache' = NoCache /\ disk' = NoSave  BY DEF HardReset
<1>2. LedgerTypes'  BY <1>1, FreshIsTyped DEF LedgerInv
<1>3. ~Playing(disk')  BY <1>1 DEF Playing, NoSave, LocalAssumption
<1> QED  BY <1>1, <1>2, <1>3 DEF LedgerInv

\* What is saved instead is a lobby with its players.
LEMMA LobbyIsSaved ==
  ASSUME LocalAssumption, LedgerInv, LedgerTypes',
         \/ disk' = game' /\ ~Playing(game') /\ Seated(game'.players)
         \/ disk' = disk /\ UNCHANGED <<before, opening>>
  PROVE  LedgerInv'
<1>1. CASE disk' = game' /\ ~Playing(game') /\ Seated(game'.players)  BY <1>1 DEF LedgerInv
<1>2. CASE disk' = disk /\ UNCHANGED <<before, opening>>  BY <1>2, LedgerLeftAlone
<1> QED  BY <1>1, <1>2

LEMMA LobbyEdit ==
  ASSUME LocalAssumption, SaveInv, LedgerInv, CanAct, NEW g, EditLobby(g), g.status = "lobby", Seated(g.players)
  PROVE  LedgerInv'
<1>1. game' = g /\ UNCHANGED <<turn, cache, ghosts>> /\ (disk' = game' \/ disk' = disk)
  BY DEF EditLobby, Persist
<1>2. LedgerTypes'  BY <1>1 DEF LedgerInv, LedgerTypes, turn
<1>3. ~Playing(game') /\ Seated(game'.players)  BY <1>1 DEF Playing
<1>4. UNCHANGED <<before, opening>>  BY <1>1 DEF ghosts
<1> QED  BY <1>1, <1>2, <1>3, <1>4, LobbyIsSaved

LEMMA OneMoreIsSeated ==
  ASSUME NEW ps, Seated(ps), NEW name \in Roster, SeatNamed(ps, name) = {}, NEW qs, qs = Append(ps, FreshPlayer(name))
  PROVE  Seated(qs)
<1>1. PICK n \in Nat : n = Len(ps) /\ DOMAIN ps = 1..n  BY SeqIs DEF Seated
<1>2. IsSeq(qs) /\ Len(qs) = n + 1 /\ qs[n + 1] = FreshPlayer(name) /\ \A k \in 1..n : qs[k] = ps[k]
  BY <1>1, AppendIs DEF Seated
<1>3. DOMAIN qs = 1..n + 1  BY <1>2, SeqIs
<1>4. qs[n + 1].name = name /\ \A k \in 1..n : qs[k].name = ps[k].name /\ ps[k].name \in Roster /\ ps[k].name # name
  <2>1. \A k \in 1..n : ps[k].name # name  BY <1>1 DEF SeatNamed
  <2> QED  BY <1>1, <1>2, <2>1, NewPlayers DEF Seated
<1>5. OneEach(ps)  BY DEF Seated
<1>6. OneEach(qs)
  <2> SUFFICES ASSUME NEW i \in 1..n + 1, NEW j \in 1..n + 1, qs[i].name = qs[j].name PROVE i = j
    BY <1>3 DEF OneEach
  <2>1. CASE i \in 1..n /\ j \in 1..n  BY <1>1, <1>4, <1>5, <2>1 DEF OneEach
  <2>2. CASE i = n + 1 /\ j \in 1..n  BY <1>4, <2>2
  <2>3. CASE j = n + 1 /\ i \in 1..n  BY <1>4, <2>3
  <2> QED  BY <2>1, <2>2, <2>3
<1>7. \A i \in DOMAIN qs : qs[i].name \in Roster
  <2> SUFFICES ASSUME NEW i \in 1..n + 1 PROVE qs[i].name \in Roster  BY <1>3
  <2>1. CASE i \in 1..n  BY <1>4, <2>1
  <2>2. CASE i = n + 1  BY <1>4, <2>2
  <2>3. i \in 1..n \/ i = n + 1  OBVIOUS
  <2> QED  BY Zenon, <2>1, <2>2, <2>3
<1> QED  BY <1>2, <1>6, <1>7 DEF Seated

LEMMA OneLessIsSeated ==
  ASSUME NEW ps, Seated(ps), NEW i \in DOMAIN ps, NEW qs, qs = RemoveAt(ps, i)
  PROVE  Seated(qs)
<1>1. PICK n \in Nat : n = Len(ps) /\ DOMAIN ps = 1..n  BY SeqIs DEF Seated
<1>2. PICK at : at = [k \in 1..n - 1 |-> IF k < i THEN k ELSE k + 1]  OBVIOUS
<1>3. \A k \in 1..n - 1 : at[k] \in 1..n /\ \A l \in 1..n - 1 : at[k] = at[l] => k = l  BY <1>1, <1>2
<1>4. IsSeq(qs) /\ Len(qs) = n - 1 /\ \A k \in 1..n - 1 : qs[k] = ps[at[k]]
  <2>1. i \in 1..Len(ps) /\ IsSeq(ps)  BY <1>1 DEF Seated
  <2>2. /\ IsSeq(qs) /\ Len(qs) = Len(ps) - 1
        /\ \A k \in 1..Len(ps) - 1 : qs[k] = ps[IF k < i THEN k ELSE k + 1]
    BY <2>1, RemovedIs
  <2> QED  BY <1>1, <1>2, <2>2
<1>5. DOMAIN qs = 1..n - 1  BY <1>4, SeqIs
<1>6. OneEach(ps) /\ \A k \in 1..n : ps[k].name \in Roster  BY <1>1 DEF Seated
<1>7. OneEach(qs)
  <2> SUFFICES ASSUME NEW k \in 1..n - 1, NEW l \in 1..n - 1, qs[k].name = qs[l].name PROVE k = l
    BY <1>5 DEF OneEach
  <2>1. at[k] \in DOMAIN ps /\ at[l] \in DOMAIN ps /\ ps[at[k]].name = ps[at[l]].name  BY <1>1, <1>3, <1>4
  <2>2. at[k] = at[l]  BY <1>6, <2>1 DEF OneEach
  <2> QED  BY <1>3, <2>2
<1>8. \A k \in DOMAIN qs : qs[k].name \in Roster  BY <1>3, <1>4, <1>5, <1>6
<1> QED  BY <1>4, <1>7, <1>8 DEF Seated

LEMMA LedgerInLobby ==
  ASSUME LocalAssumption, SaveInv, LedgerInv, Lobby
  PROVE  LedgerInv'
<1>0. DOMAIN game = DOMAIN EmptyLobby /\ "players" \in DOMAIN game /\ "status" \in DOMAIN game
  BY DEF SaveInv, LocalTypes, GameOk, EmptyLobby
<1>1. ASSUME NEW name \in Roster, AddPlayer(name) PROVE LedgerInv'
  <2>1. CanAct /\ game.status = "lobby" /\ SeatNamed(game.players, name) = {}  BY <1>1 DEF AddPlayer
  <2>2. PICK g : g = [game EXCEPT !.players = Append(@, FreshPlayer(name))] /\ EditLobby(g)  BY <1>1 DEF AddPlayer
  <2>3. g.players = Append(game.players, FreshPlayer(name)) /\ g.status = "lobby"  BY <1>0, <2>1, <2>2
  <2>4. Seated(game.players)  BY <2>1, ScreenIsSeated DEF CanAct
  <2>5. PICK ps, qs : ps = game.players /\ qs = g.players  OBVIOUS
  <2>6. Seated(qs)  BY <2>1, <2>3, <2>4, <2>5, OneMoreIsSeated
  <2> QED  BY <2>1, <2>2, <2>3, <2>5, <2>6, LobbyEdit
<1>2. ASSUME NEW name \in Roster, RemovePlayer(name) PROVE LedgerInv'
  <2>1. CanAct /\ game.status = "lobby" /\ SeatNamed(game.players, name) # {}  BY <1>2 DEF RemovePlayer
  <2>2. PICK g : /\ g = [game EXCEPT !.players = RemoveAt(@, CHOOSE i \in SeatNamed(@, name) : TRUE)]
                 /\ EditLobby(g)
    BY <1>2 DEF RemovePlayer
  <2>3. PICK i : i = CHOOSE j \in SeatNamed(game.players, name) : TRUE  OBVIOUS
  <2>4. i \in SeatNamed(game.players, name)  BY <2>1, <2>3
  <2>5. g.players = RemoveAt(game.players, i) /\ g.status = "lobby"  BY <1>0, <2>1, <2>2, <2>3
  <2>6. Seated(game.players)  BY <2>1, ScreenIsSeated DEF CanAct
  <2>7. PICK ps, qs : ps = game.players /\ qs = g.players  OBVIOUS
  <2>8. i \in DOMAIN ps  BY <2>4, <2>7 DEF SeatNamed
  <2>9. Seated(qs)  BY <2>5, <2>6, <2>7, <2>8, OneLessIsSeated
  <2> QED  BY <2>1, <2>2, <2>5, <2>7, <2>9, LobbyEdit
<1>3. ASSUME NEW rules \in Rules, SetRuleset(rules) PROVE LedgerInv'
  <2>1. CanAct /\ game.status = "lobby"  BY <1>3 DEF SetRuleset
  <2>2. PICK g : g = [game EXCEPT !.ruleset = rules] /\ EditLobby(g)  BY <1>3 DEF SetRuleset
  <2>3. g.players = game.players /\ g.status = "lobby"  BY <1>0, <2>1, <2>2
  <2>4. Seated(g.players)  BY <2>1, <2>3, ScreenIsSeated DEF CanAct
  <2> QED  BY <2>1, <2>2, <2>3, <2>4, LobbyEdit
<1>4. ASSUME StartGame PROVE LedgerInv'
  <2>1. mode = "local" /\ mode' = "local" /\ Len(game.players) >= 2 /\ Persist(FALSE) /\ FreshTurn
        /\ cache' = NoCache /\ opening' = TurnOf(game', <<>>)
    BY <1>4 DEF StartGame, CanAct
  <2>2. PICK deck \in Decks :
          game' = [game EXCEPT !.status = "playing", !.finished = FALSE, !.round = 1,
                     !.players = [i \in DOMAIN @ |-> FreshPlayer(@[i].name)],
                     !.currentPlayerIndex = 1, !.currentCard = Head(deck), !.cards = Tail(deck),
                     !.prev = NoUndoableTurn, !.chart = <<>>, !.log = <<>>]
    BY <1>4 DEF StartGame
  <2>3. Begun(game', game.players)  BY <1>0, <2>2 DEF Begun, FreshTable, EmptyLobby
  <2>4. Seated(game.players)  BY <2>1, ScreenIsSeated
  <2>5. PICK g, ps : g = game' /\ ps = game.players  OBVIOUS
  <2>6. Seated(g.players) /\ Accounted(g, TurnOf(g, <<>>), before')
    <3>1. Begun(g, ps) /\ Seated(ps) /\ Len(ps) >= 2  BY <2>1, <2>3, <2>4, <2>5
    <3> QED  BY <3>1, GameBegins
  <2>7. disk' = game'
    <3>1. game # EmptyLobby  BY <2>1, EmptyIsOk
    <3> QED  BY <2>1, <3>1 DEF Persist, SaveInv, ScreenIsSave
  <2>8. LedgerTypes'  BY <2>1, FreshIsTyped DEF LedgerInv
  <2> QED  BY <2>1, <2>5, <2>6, <2>7, <2>8 DEF LedgerInv
<1>5. ASSUME EndGame PROVE LedgerInv'
  <2>1. mode = "local" /\ mode' = "local" /\ game.status = "playing" /\ Persist(FALSE) /\ FreshTurn /\ cache' = NoCache
        /\ game' = [EmptyLobby EXCEPT !.players = [i \in DOMAIN game.players |-> FreshPlayer(game.players[i].name)],
                                      !.ruleset = game.ruleset]
    BY <1>5 DEF EndGame, CanAct
  <2>2. PICK ps, qs : ps = game.players /\ qs = game'.players  OBVIOUS
  <2>3. FreshTable(ps, qs) /\ game'.status = "lobby"  BY <2>1, <2>2 DEF FreshTable, EmptyLobby
  <2>4. Seated(ps)  BY <2>1, <2>2, ScreenIsSeated
  <2>5. Seated(qs)  BY <2>3, <2>4, FreshTableIs, TableIsSeated
  <2>6. disk' = game'
    <3>1. game # EmptyLobby  BY <2>1, EmptyIsOk
    <3> QED  BY <2>1, <3>1 DEF Persist, SaveInv, ScreenIsSave
  <2>7. ~Playing(game')  BY <2>3 DEF Playing
  <2>8. LedgerTypes'  BY <2>1, FreshIsTyped DEF LedgerInv
  <2> QED  BY <2>2, <2>5, <2>6, <2>7, <2>8, LobbyIsSaved
<1> QED  BY <1>1, <1>2, <1>3, <1>4, <1>5 DEF Lobby

-----------------------------------------------------------------------------
\* The turns.

\* Whoever takes the game keeps the name.
Wins(g, success) == g.currentCard = "Kleeblatt" /\ success
Crowned(p, q) == \E b, x : b = Bump(p, {"timesKleeblattCompleted"}) /\ q = [b EXCEPT !.score = x]
Won(r, paid, seat) ==
  /\ r.order.isGameOver
  /\ \E final : Crowned(paid.players[seat], final) /\ r.players = [paid.players EXCEPT ![seat] = final]

LEMMA PayWins ==
  ASSUME NEW g, NEW score, NEW success, Wins(g, success), NEW summary, NEW paid,
         NEW r, r = PayActor(g, score, success, summary, paid)
  PROVE  Won(r, paid, g.currentPlayerIndex)
<1>1. /\ r.order.isGameOver
      /\ \E x : r.players = [paid.players EXCEPT ![g.currentPlayerIndex] =
                  [Bump(paid.players[g.currentPlayerIndex], {"timesKleeblattCompleted"}) EXCEPT !.score = x]]
  BY DEF Wins, PayActor, TurnResult
<1>2. PICK x : r.players = [paid.players EXCEPT ![g.currentPlayerIndex] =
                  [Bump(paid.players[g.currentPlayerIndex], {"timesKleeblattCompleted"}) EXCEPT !.score = x]]
  BY <1>1
<1> QED  BY <1>1, <1>2 DEF Won, Crowned

LEMMA FunctionIsSeq ==
  ASSUME NEW n \in Nat, NEW f, f = [i \in 1..n |-> f[i]]
  PROVE  IsSeq(f) /\ Len(f) = n /\ DOMAIN f = 1..n
<1>1. PICK T : T = {f[i] : i \in 1..n}  OBVIOUS
<1>2. f \in [1..n -> T]  BY <1>1
<1>3. f \in Seq(T)  BY <1>2
<1> QED  BY <1>2, <1>3 DEF IsSeq

LEMMA CrownedIs ==
  ASSUME NEW p \in Players, NEW q, Crowned(p, q)
  PROVE  q.name = p.name
<1>1. PICK b, x : b = Bump(p, {"timesKleeblattCompleted"}) /\ q = [b EXCEPT !.score = x]  BY DEF Crowned
<1>2. PICK C : b = Bump(p, C)  BY <1>1
<1>3. b \in Players /\ b.name = p.name  BY <1>2, BumpIs
<1> QED  BY <1>1, <1>3 DEF Players

\* The parts a winning turn is made of.
WinBy(r, g, success, summary, score, counted, befores, rules, paid) ==
  /\ CountedAs(g.players[g.currentPlayerIndex], g.currentCard, success, score, summary, counted)
  /\ Len(befores) \in Nat
  /\ paid = Deduct([g.players EXCEPT ![g.currentPlayerIndex] = counted], g.currentPlayerIndex, befores, rules)
  /\ Won(r, paid, g.currentPlayerIndex)

LEMMA WinIs ==
  ASSUME NEW g, NEW input0, NEW success, NEW summary, Input(g, input0, success, summary), Wins(g, success),
         NEW r, r = CalculateNextTurn(g, input0, success, summary)
  PROVE  \E counted, befores, rules, paid : \E score \in Nat :
           WinBy(r, g, success, summary, score, counted, befores, rules, paid)
<1> DEFINE seat == g.currentPlayerIndex
           card == g.currentCard
<1>1. PICK score \in Nat : score = IF summary # None THEN input0 ELSE TurnScore(card, input0, success)
  BY PaidIsNat DEF Input
<1>2. PICK counted : counted = LET p == Bump(g.players[seat], {"totalTurns"}) IN
                                IF summary # None THEN ApplySummary(p, summary, success)
                                ELSE ApplyTurn(p, card, success, score)
  OBVIOUS
<1>3. PICK befores : befores = IF summary # None THEN IF success THEN summary.plusMinusScores ELSE <<>>
                               ELSE IF card = "Plus_Minus" /\ success THEN <<score>> ELSE <<>>
  OBVIOUS
<1>4. Len(befores) \in Nat
  <2>1. CASE summary # None
    <3>1. summary.plusMinusScores \in Seq(Int)  BY <2>1 DEF Input, Summarised
    <3> QED  BY <1>3, <2>1, <3>1
  <2>2. CASE summary = None
    <3>1. befores = <<score>> \/ befores = <<>>  BY <1>3, <2>2
    <3> QED  BY <3>1
  <2> QED  BY <2>1, <2>2
<1>5. PICK rules : rules = IF summary # None THEN "classic" ELSE "modernized"  OBVIOUS
<1>6. PICK paid : paid = Deduct([g.players EXCEPT ![seat] = counted], seat, befores, rules)  OBVIOUS
<1>7. CalculateNextTurn(g, input0, success, summary) = PayActor(g, score, success, summary, paid)
  BY Zenon, <1>1, <1>2, <1>3, <1>5, <1>6 DEF CalculateNextTurn
<1>8. r = PayActor(g, score, success, summary, paid)  BY <1>7
<1>9. Won(r, paid, seat)
  <2>1. PICK t : t = PayActor(g, score, success, summary, paid)  OBVIOUS
  <2>2. Won(t, paid, seat)  BY ONLY <2>1, PayWins, Wins(g, success)
  <2> QED  BY <1>8, <2>1, <2>2
<1>13. CountedAs(g.players[seat], card, success, score, summary, counted)
  BY <1>2 DEF CountedAs, SummaryOn, CountedOn
<1> QED  BY <1>4, <1>6, <1>9, <1>13 DEF WinBy

LEMMA WinSeats ==
  ASSUME LocalAssumption, NEW g, AtTable(g), NEW input0, NEW success, NEW summary, Input(g, input0, success, summary),
         Wins(g, success), NEW r, r = CalculateNextTurn(g, input0, success, summary)
  PROVE  r.order.isGameOver /\ Seated(r.players)
<1>a. PICK counted, befores, rules, paid : \E score \in Nat :
         WinBy(r, g, success, summary, score, counted, befores, rules, paid)
  BY WinIs
<1>0. PICK score \in Nat : WinBy(r, g, success, summary, score, counted, befores, rules, paid)
  BY <1>a
<1>1. PICK final :
         /\ CountedAs(g.players[g.currentPlayerIndex], g.currentCard, success, score, summary, counted)
         /\ Len(befores) \in Nat
         /\ paid = Deduct([g.players EXCEPT ![g.currentPlayerIndex] = counted], g.currentPlayerIndex, befores, rules)
         /\ Crowned(paid.players[g.currentPlayerIndex], final)
         /\ r.players = [paid.players EXCEPT ![g.currentPlayerIndex] = final]
         /\ r.order.isGameOver
  BY <1>0 DEF WinBy, Won
<1>2. PICK ps : ps = g.players  OBVIOUS
<1>3. PICK seat : seat = g.currentPlayerIndex  OBVIOUS
<1>4. Table(ps) /\ seat \in DOMAIN ps  BY <1>2, <1>3 DEF AtTable
<1>5. PICK p \in Players : p = ps[seat]  BY <1>4 DEF Table
<1>6. counted \in Players /\ counted.name = p.name
  <2>1. CountedAs(p, g.currentCard, success, score, summary, counted)  BY <1>1, <1>2, <1>3, <1>5
  <2>2. PICK card : CountedAs(p, card, success, score, summary, counted)  BY <2>1
  <2>3. success \in BOOLEAN /\ (summary = None \/ Summarised(summary))  BY DEF Input
  <2> QED  BY ONLY <2>2, <2>3, TurnCounts, p \in Players, score \in Nat
<1>7. PICK ps1 : ps1 = [ps EXCEPT ![seat] = counted]  OBVIOUS
<1>8. /\ Table(ps1) /\ DOMAIN ps1 = DOMAIN ps /\ Len(ps1) = Len(ps)
      /\ ps1[seat] = counted /\ \A i \in DOMAIN ps : i # seat => ps1[i] = ps[i]
  <2>1. counted \in Players /\ counted.name = ps[seat].name  BY <1>5, <1>6
  <2>2. Reseated(ps1, ps, seat, counted)  BY <1>7 DEF Reseated
  <2> QED  BY ONLY <1>4, <2>1, <2>2, CountedTable
<1>9. Deducts(paid, ps1, seat, Len(befores))
  <2>1. paid = Deduct(ps1, seat, befores, rules) /\ Len(befores) \in Nat  BY <1>1, <1>2, <1>3, <1>7
  <2>2. Table(ps1) /\ seat \in DOMAIN ps1  BY <1>4, <1>8
  <2> QED  BY ONLY <2>1, <2>2, DeductTells
<1>10. /\ DOMAIN paid.players = DOMAIN ps /\ paid.players = [i \in DOMAIN ps |-> paid.players[i]]
       /\ \A i \in DOMAIN ps : Told(ps1[i], paid.players[i], paid.hits)
  BY <1>8, <1>9 DEF Deducts
<1>11. ASSUME NEW i \in DOMAIN ps
       PROVE  paid.players[i] \in Players /\ paid.players[i].name = ps[i].name
  <2>1. ps1[i] \in Players /\ ps1[i].name = ps[i].name
    <3>1. ps1[i] \in Players  BY <1>8 DEF Table
    <3>2. CASE i = seat  BY <1>5, <1>6, <1>8, <3>1, <3>2
    <3>3. CASE i # seat  BY <1>8, <3>1, <3>3
    <3> QED  BY <3>2, <3>3
  <2>2. PICK p1, q1, hits : p1 = ps1[i] /\ q1 = paid.players[i] /\ hits = paid.hits  OBVIOUS
  <2>3. Told(p1, q1, hits)  BY <1>10, <2>2
  <2>4. q1 \in Players /\ q1.name = p1.name
    <3>1. p1 \in Players  BY <2>1, <2>2
    <3> QED  BY ONLY <2>3, <3>1, ToldIs
  <2> QED  BY <2>1, <2>2, <2>4
<1>12. final.name = ps[seat].name
  <2>1. PICK q1 \in Players : q1 = paid.players[seat] /\ q1.name = ps[seat].name  BY <1>4, <1>11
  <2>2. Crowned(q1, final)  BY <1>1, <1>3, <2>1
  <2> QED  BY <2>1, <2>2, CrownedIs
<1>13. PICK n \in Nat : n = Len(ps) /\ DOMAIN ps = 1..n  BY <1>4 DEF Table
<1>14. PICK qs : qs = r.players  OBVIOUS
<1>15. PICK f : f = paid.players /\ f = [i \in 1..n |-> f[i]]  BY <1>10, <1>13
<1>16. qs = [f EXCEPT ![seat] = final]  BY <1>1, <1>3, <1>14, <1>15
<1>17. IsSeq(qs) /\ DOMAIN qs = 1..n
  <2>1. qs = [i \in 1..n |-> qs[i]]  BY <1>15, <1>16
  <2> QED  BY <2>1, FunctionIsSeq
<1>18. ASSUME NEW i \in 1..n PROVE qs[i].name = ps[i].name
  <2>1. CASE i = seat  BY <1>4, <1>12, <1>13, <1>15, <1>16, <2>1
  <2>2. CASE i # seat
    <3>1. qs[i] = f[i]  BY <1>15, <1>16, <2>2
    <3> QED  BY <1>11, <1>13, <1>15, <3>1
  <2> QED  BY <2>1, <2>2
<1>19. OneEach(ps) /\ \A i \in 1..n : ps[i].name \in Roster
  <2>1. OneEach(ps)  BY <1>4 DEF Table
  <2>2. Seated(ps)  BY <1>4, TableIsSeated
  <2> QED  BY <1>13, <2>1, <2>2 DEF Seated
<1>20. OneEach(qs)  BY <1>13, <1>17, <1>18, <1>19 DEF OneEach
<1> QED  BY <1>1, <1>14, <1>17, <1>18, <1>19, <1>20 DEF Seated

-----------------------------------------------------------------------------
\* The turn that is committed.

FacesOf(cards) == [k \in DOMAIN cards |-> cards[k].card]

LEMMA SummaryFits ==
  ASSUME LocalAssumption, SaveInv, LedgerInv, MyTurn,
         NEW ended \in Endings, NEW last \in BOOLEAN, NEW forfeited \in Nat, NEW s, s = Summary(ended, last, forfeited)
  PROVE  s # None /\ Summarised(s) /\ s.ended \in Endings /\ FacesOf(s.cards) = FacesOf(ChainOrCurrent.cards)
<1>1. PICK done \in BOOLEAN : done = (last /\ ended # "null")  OBVIOUS
<1>2. PICK was, cards : was = ChainOrCurrent.cards /\ cards = MarkLast(was, done)  OBVIOUS
<1>3. Chained(was)  BY <1>2, ChainInPlay
<1>4. Chained(cards) /\ Len(cards) = Len(was) /\ \A k \in 1..Len(was) : cards[k].card = was[k].card
  BY <1>2, <1>3, MarkedIsChained
<1>5. PICK n \in Nat : n = Len(was) /\ DOMAIN was = 1..n /\ DOMAIN cards = 1..n
  BY <1>3, <1>4 DEF Chained
<1>6. FacesOf(cards) = FacesOf(was)  BY <1>4, <1>5 DEF FacesOf
<1>7. PICK a : a = [k \in DOMAIN cards |-> IF cards[k].completed THEN Tuttos(cards[k].card) ELSE 0]  OBVIOUS
<1>8. Total(a) \in Nat
  <2>1. Len(a) = n /\ \A k \in 1..n : a[k] \in Nat  BY <1>5, <1>7 DEF Tuttos
  <2> QED  BY <2>1, TotalIsNat
<1>9. PICK plus : plus = ChainOrCurrent.plus  OBVIOUS
<1>10. plus \in Seq(Nat)
  <2>1. plus = chain.plus \/ plus = <<>>  BY <1>9 DEF ChainOrCurrent
  <2>2. chain.plus \in Seq(Nat) /\ <<>> \in Seq(Nat)
    <3>1. chain.plus \in Seq(Nat)  BY DEF LedgerInv, LedgerTypes
    <3> QED  BY <3>1
  <2> QED  BY Zenon, <2>1, <2>2
<1>11. s = [cards |-> cards, plusMinusScores |-> plus, ended |-> ended, forfeited |-> forfeited, tuttoCount |-> Total(a)]
  BY <1>1, <1>2, <1>7, <1>9 DEF Summary
<1>12. /\ s.cards = cards /\ s.plusMinusScores = plus /\ s.ended = ended /\ s.forfeited = forfeited
       /\ s.tuttoCount = Total(a)
  BY <1>11
<1>13. Summarised(s)
  <2>1. plus \in Seq(Int)
    <3>1. PICK m \in Nat : m = Len(plus) /\ plus \in [1..m -> Nat]  BY <1>10
    <3>2. plus \in [1..m -> Int]  BY <3>1
    <3> QED  BY <3>2
  <2> QED  BY <1>4, <1>8, <1>12, <2>1 DEF Summarised
<1>14. s \in Summaries
  <2>1. cards \in Chains  BY <1>4 DEF Chained, Played, Faces, Chains
  <2> QED  BY <1>8, <1>10, <1>11, <2>1 DEF Summaries
<1> QED  BY <1>2, <1>6, <1>12, <1>13, <1>14 DEF LocalAssumption

\* A summary names the cards the turn has dealt; without one there is but one.
Deals(summary) ==
  IF summary = None THEN game.currentCard = "Stop" \/ opening.dealt = <<game.currentCard>>
  ELSE FacesOf(summary.cards) = opening.dealt

\* The turn in play, as the ledger has it.
LEMMA TurnInPlay ==
  ASSUME LocalAssumption, SaveInv, LedgerInv, mode = "local", Playing(game)
  PROVE  /\ disk = game /\ game # EmptyLobby /\ AtTable(game) /\ Stood(At(game, opening.turns, <<>>))
         /\ Opened(game, opening) /\ Undoes(game, opening.turns, before)
<1>1. disk = game /\ game # EmptyLobby /\ game.currentCard \in Faces  BY ScreenIsWhole
<1>2. Accounted(game, opening, before)  BY <1>1 DEF LedgerInv
<1>3. Stood(At(game, opening.turns, <<>>))  BY <1>2 DEF Accounted
<1>4. AtTable(game)  BY <1>1, <1>3 DEF AtTable, Stood, At
<1> QED  BY <1>1, <1>2, <1>3, <1>4 DEF Accounted

LEMMA FirstCardIs ==
  ASSUME NEW card, NEW prev, prev.card = card, CanGoBack(prev), NEW summary, Recalls(prev, summary), NEW dealt,
         IF summary = None THEN card = "Stop" \/ dealt = <<card>> ELSE FacesOf(summary.cards) = dealt
  PROVE  Head(ChainOf(prev)) = Head(dealt)
<1>1. CASE summary = None
  <2>1. prev.summary = None /\ ChainOf(prev) = <<card>>  BY <1>1 DEF Recalls, ChainOf
  <2>2. dealt = <<card>>  BY <1>1, <2>1 DEF CanGoBack
  <2> QED  BY <2>1, <2>2
<1>2. CASE summary # None
  <2>1. prev.summary # None /\ prev.summary.cards = summary.cards  BY <1>2 DEF Recalls
  <2>2. ChainOf(prev) = dealt  BY <1>2, <2>1 DEF ChainOf, FacesOf
  <2> QED  BY <2>2
<1> QED  BY <1>1, <1>2

LEMMA TurnOver ==
  ASSUME LocalAssumption, NEW g, AtTable(g), NEW input0, NEW success, NEW summary, Input(g, input0, success, summary),
         NEW r, r = CalculateNextTurn(g, input0, success, summary)
  PROVE  Seated(r.players) /\ (~r.order.isGameOver => ~Wins(g, success))
<1>1. CASE Wins(g, success)
  <2>1. r.order.isGameOver /\ Seated(r.players)  BY <1>1, WinSeats
  <2> QED  BY <2>1
<1>2. CASE ~Wins(g, success)
  <2>1. Settles(r, g.players, g.currentPlayerIndex)  BY <1>2, TurnSettles DEF Wins
  <2>2. Table(r.players)  BY <2>1 DEF Settles
  <2> QED  BY <1>2, <2>2, TableIsSeated
<1> QED  BY <1>1, <1>2

\* The game goes on: the next turn is accounted for.
LEMMA NextIsAccounted ==
  ASSUME LocalAssumption, NEW g, AtTable(g), NEW turns, Stood(At(g, turns, <<>>)),
         NEW input0, NEW success, NEW summary, Input(g, input0, success, summary), ~Wins(g, success),
         NEW r, r = CalculateNextTurn(g, input0, success, summary), NEW g2, MovesOn(g, r, g2),
         NEW dealt, dealt # <<>> => IF summary = None THEN g.currentCard = "Stop" \/ dealt = <<g.currentCard>>
                                    ELSE FacesOf(summary.cards) = dealt
  PROVE  Accounted(g2, TurnOf(g2, Append(turns, r.entry)), At(g, turns, dealt))
<1>1. /\ Settles(r, g.players, g.currentPlayerIndex)
      /\ r.prev.card = g.currentCard /\ r.prev.player = g.players[g.currentPlayerIndex].name
      /\ r.order = AdvanceTurnOrder(r.players, g.currentPlayerIndex, g.round, g.winningScore)
      /\ Recalls(r.prev, summary)
  BY TurnSettles DEF Wins
<1>2. PICK more : more = Append(turns, r.entry)  OBVIOUS
<1>3. Stood(At(g2, more, <<>>))  BY <1>1, <1>2, TurnStands
<1>4. PICK o : o = TurnOf(g2, more)  OBVIOUS
<1>5. Opened(g2, o) /\ o.turns = more  BY <1>4, TurnIsAt DEF Opened
<1>6. Undoes(g2, more, At(g, turns, dealt))
  <2> SUFFICES ASSUME CanUndoState(g2) PROVE Stood(At(g, turns, dealt)) /\ BackTo(g2, more, At(g, turns, dealt))
    BY DEF Undoes
  <2>1. g2.prev = r.prev  BY DEF MovesOn
  <2>2. CanGoBack(r.prev)  BY <2>1 DEF CanUndoState, CanGoBack
  <2>3. dealt # <<>> => Head(ChainOf(r.prev)) = Head(dealt)  BY <1>1, <2>2, FirstCardIs
  <2>4. BackTo(g2, more, At(g, turns, dealt))  BY <1>1, <1>2, <2>2, <2>3, TurnGoesBack
  <2>5. Stood(At(g, turns, dealt))  BY StoodAt
  <2> QED  BY <2>4, <2>5
<1> QED  BY <1>2, <1>3, <1>4, <1>5, <1>6 DEF Accounted

LEMMA CommitAccounts ==
  ASSUME LocalAssumption, SaveInv, LedgerInv, MyTurn, NEW score, NEW success, NEW summary,
         Input(game, score, success, summary), ~torn => Deals(summary), CommitTurn(score, success, summary)
  PROVE  LedgerInv'
<1>1. PICK r : r = CalculateNextTurn(game, score, success, summary) /\ Committed(r)  BY DEF CommitTurn
<1>2. mode = "local" /\ Playing(game)  BY DEF MyTurn, CanAct
<1>3. /\ disk = game /\ game # EmptyLobby /\ AtTable(game) /\ Stood(At(game, opening.turns, <<>>))
      /\ Opened(game, opening)
  BY <1>2, TurnInPlay
<1>4. /\ mode' = "local" /\ disk' = game' /\ FreshTurn /\ cache' = NoCache
      /\ before' = IF torn THEN [opening EXCEPT !.dealt = <<>>] ELSE opening
      /\ opening' = IF r.order.isGameOver THEN NoTurn ELSE TurnOf(game', Append(opening.turns, r.entry))
  BY <1>1, <1>2, <1>3 DEF Committed, Persist
<1>5. LedgerTypes'  BY <1>4, FreshIsTyped DEF LedgerInv
<1>6. DOMAIN game = DOMAIN EmptyLobby  BY DEF SaveInv, LocalTypes, GameOk
<1>7. Seated(r.players) /\ (~r.order.isGameOver => ~Wins(game, success))
  BY <1>1, <1>3, TurnOver
<1>8. PICK table : table = [game EXCEPT !.players = r.players, !.prev = r.prev, !.log = Enter(@, r.entry),
                     !.chart = IF r.order.isRoundEnd THEN Append(@, Scores(r.players)) ELSE @]
  OBVIOUS
<1>9. /\ table.players = r.players /\ table.prev = r.prev /\ table.log = Enter(game.log, r.entry)
      /\ table.chart = IF r.order.isRoundEnd THEN Append(game.chart, Scores(r.players)) ELSE game.chart
      /\ DOMAIN table = DOMAIN EmptyLobby
  BY <1>6, <1>8 DEF EmptyLobby
<1>10. CASE r.order.isGameOver
  <2>1. game' = [table EXCEPT !.finished = TRUE, !.currentPlayerIndex = 0]
    BY <1>1, <1>8, <1>10 DEF Committed
  <2>2. game'.players = r.players /\ ~Playing(game')  BY <1>9, <2>1 DEF EmptyLobby, Playing
  <2> QED  BY <1>4, <1>5, <1>7, <2>2, LobbyIsSaved
<1>11. CASE ~r.order.isGameOver
  <2>1. PICK deck : game' = [table EXCEPT !.currentPlayerIndex = r.order.nextIndex, !.round = r.order.nextRound,
                                         !.currentCard = Head(deck), !.cards = Tail(deck)]
    BY <1>1, <1>8, <1>11 DEF Committed
  <2>2. PICK g2 : g2 = game'  OBVIOUS
  <2>3. MovesOn(game, r, g2)  BY <1>9, <1>11, <2>1, <2>2 DEF MovesOn, EmptyLobby
  <2>4. PICK dealt : dealt = IF torn THEN <<>> ELSE opening.dealt  OBVIOUS
  <2>5. PICK turns : turns = opening.turns  OBVIOUS
  <2>6. before' = At(game, turns, dealt)
    <3>1. opening = At(game, turns, opening.dealt)  BY <1>3, <2>5 DEF Opened
    <3>2. CASE ~torn  BY <1>4, <2>4, <3>1, <3>2
    <3>3. CASE torn
      <4>1. PICK o, d : o = opening /\ d = opening.dealt  OBVIOUS
      <4>2. o = At(game, turns, d) /\ before' = [o EXCEPT !.dealt = <<>>] /\ dealt = <<>>
        BY <1>4, <2>4, <3>1, <3>3, <4>1
      <4>3. [o EXCEPT !.dealt = <<>>] = At(game, turns, <<>>)  BY <4>2 DEF At
      <4> QED  BY <4>2, <4>3
    <3> QED  BY <3>2, <3>3
  <2>7. dealt # <<>> => IF summary = None THEN game.currentCard = "Stop" \/ dealt = <<game.currentCard>>
                        ELSE FacesOf(summary.cards) = dealt
    BY <2>4 DEF Deals
  <2>8. ~Wins(game, success)  BY <1>7, <1>11
  <2>9. PICK g : g = game  OBVIOUS
  <2>10. Accounted(g2, TurnOf(g2, Append(turns, r.entry)), At(g, turns, dealt))
    <3>1. /\ AtTable(g) /\ Stood(At(g, turns, <<>>)) /\ Input(g, score, success, summary) /\ ~Wins(g, success)
          /\ r = CalculateNextTurn(g, score, success, summary) /\ MovesOn(g, r, g2)
          /\ dealt # <<>> => IF summary = None THEN g.currentCard = "Stop" \/ dealt = <<g.currentCard>>
                             ELSE FacesOf(summary.cards) = dealt
      BY <1>1, <1>3, <2>3, <2>5, <2>7, <2>8, <2>9
    <3> QED  BY ONLY <3>1, NextIsAccounted, LocalAssumption
  <2>11. Accounted(game', opening', before')  BY <1>4, <1>11, <2>2, <2>5, <2>6, <2>9, <2>10
  <2>12. Seated(game'.players)  BY <1>7, <2>2, <2>3 DEF MovesOn
  <2> QED  BY <1>4, <1>5, <2>11, <2>12 DEF LedgerInv
<1> QED  BY <1>10, <1>11

-----------------------------------------------------------------------------
\* A turn in play.

LEMMA PhysicalAccounts ==
  ASSUME LocalAssumption, SaveInv, LedgerInv, MyTurn, IsClassic(game), NEW ended \in Endings, NEW last \in BOOLEAN,
         CommitPhysicalTurn(ended, last)
  PROVE  LedgerInv'
<1>1. input \in Nat  BY DEF LedgerInv, LedgerTypes
<1>2. PICK success \in BOOLEAN : success = (ended = "banked")  OBVIOUS
<1>3. PICK s : s = Summary(ended, last, input)  OBVIOUS
<1>4. s # None /\ Summarised(s) /\ s.ended \in Endings /\ FacesOf(s.cards) = FacesOf(ChainOrCurrent.cards)
  BY <1>1, <1>3, SummaryFits
<1>5. game.currentCard \in Faces /\ (~torn => FacesOf(ChainOrCurrent.cards) = opening.dealt)
  <2>1. mode = "local" /\ Playing(game)  BY DEF MyTurn, CanAct
  <2> QED  BY <2>1, ScreenIsWhole DEF InTurn, Whole, FacesOf
<1>6. Input(game, 0, success, s)  BY <1>4, <1>5 DEF Input
<1>7. ~torn => Deals(s)  BY <1>4, <1>5 DEF Deals
<1>8. CommitTurn(0, success, s)  BY <1>2, <1>3, ZenonT(30) DEF CommitPhysicalTurn
<1> QED  BY <1>6, <1>7, <1>8, CommitAccounts

\* What calculateUndo gives back is told by the table, the record and the clock.
WayBack(ps, prev, at, round, r) ==
  /\ r.nextIndex = (CHOOSE i \in SeatNamed(ps, prev.player) : TRUE)
  /\ r.isRoundEndUndo = ((CHOOSE i \in SeatNamed(ps, prev.player) : TRUE) >= at)
  /\ r.nextRound = IF (CHOOSE i \in SeatNamed(ps, prev.player) : TRUE) >= at THEN round - 1 ELSE round
  /\ r.players = [i \in DOMAIN ps |-> IF i = (CHOOSE j \in SeatNamed(ps, prev.player) : TRUE)
                                      THEN TakenBack(ps[i], prev) ELSE Repaid(ps[i], prev)]
  /\ r.drawnCard = Head(ChainOf(prev))

LEMMA UndoGoes ==
  ASSUME NEW g, NEW r, r = CalculateUndo(g, <<>>)
  PROVE  WayBack(g.players, g.prev, g.currentPlayerIndex, g.round, r)
BY DEF CalculateUndo, ChainOf, WayBack

SameBack(r, r2) ==
  /\ r.nextIndex = r2.nextIndex /\ r.isRoundEndUndo = r2.isRoundEndUndo /\ r.nextRound = r2.nextRound
  /\ r.players = r2.players /\ r.drawnCard = r2.drawnCard

LEMMA OneWayBack ==
  ASSUME NEW ps, NEW prev, NEW at, NEW round, NEW r, NEW r2,
         WayBack(ps, prev, at, round, r), WayBack(ps, prev, at, round, r2)
  PROVE  SameBack(r, r2)
BY Zenon DEF WayBack, SameBack

\* Drawing on changes nothing a turn's undo reads.
SameTurn(g, g2) ==
  /\ g2.players = g.players /\ g2.prev = g.prev /\ g2.currentPlayerIndex = g.currentPlayerIndex
  /\ g2.round = g.round /\ g2.chart = g.chart /\ g2.log = g.log /\ g2.finished = g.finished

LEMMA StillUndoes ==
  ASSUME NEW g, NEW g2, SameTurn(g, g2), NEW turns, NEW b, Undoes(g, turns, b)
  PROVE  Undoes(g2, turns, b)
<1> SUFFICES ASSUME CanUndoState(g2) PROVE Stood(b) /\ BackTo(g2, turns, b)  BY DEF Undoes
<1>1. CanUndoState(g)  BY DEF CanUndoState, SameTurn
<1>2. Stood(b) /\ BackTo(g, turns, b)  BY <1>1 DEF Undoes
<1>3. PICK r, r2 : r = CalculateUndo(g, <<>>) /\ r2 = CalculateUndo(g2, <<>>)  OBVIOUS
<1>4. PICK ps, prev, at, round : ps = g.players /\ prev = g.prev /\ at = g.currentPlayerIndex /\ round = g.round
  OBVIOUS
<1>5. WayBack(ps, prev, at, round, r)  BY <1>3, <1>4, UndoGoes
<1>6. WayBack(ps, prev, at, round, r2)
  <2>1. WayBack(g2.players, g2.prev, g2.currentPlayerIndex, g2.round, r2)  BY <1>3, UndoGoes
  <2> QED  BY <1>4, <2>1 DEF SameTurn
<1>7. SameBack(r, r2)  BY <1>5, <1>6, OneWayBack
<1>8. /\ b = [players |-> r.players, round |-> r.nextRound, seat |-> r.nextIndex,
              chart |-> IF r.isRoundEndUndo THEN Front(g.chart) ELSE g.chart,
              log |-> b.log, turns |-> Front(turns), dealt |-> b.dealt]
      /\ Front(g.log) = Room(b.log)
      /\ b.dealt # <<>> => r.drawnCard = Head(b.dealt)
  BY <1>2, <1>3 DEF BackTo
<1>9. /\ b = [players |-> r2.players, round |-> r2.nextRound, seat |-> r2.nextIndex,
              chart |-> IF r2.isRoundEndUndo THEN Front(g2.chart) ELSE g2.chart,
              log |-> b.log, turns |-> Front(turns), dealt |-> b.dealt]
      /\ Front(g2.log) = Room(b.log)
      /\ b.dealt # <<>> => r2.drawnCard = Head(b.dealt)
  BY <1>7, <1>8 DEF SameBack, SameTurn
<1>10. BackTo(g2, turns, b)  BY <1>3, <1>9 DEF BackTo
<1> QED  BY <1>2, <1>10

LEMMA DrawAccounts ==
  ASSUME LocalAssumption, SaveInv, LedgerInv, Draw
  PROVE  LedgerInv' /\ game'.log = game.log
<1>1. /\ MyTurn /\ IsClassic(game) /\ mode' = mode /\ before' = before /\ chain' = RecordDraw(game'.currentCard)
      /\ opening' = [opening EXCEPT !.dealt = Append(@, game'.currentCard)]
      /\ input' = input /\ Persist(FALSE) /\ WriteThrough
  BY DEF Draw
<1>2. mode = "local" /\ Playing(game)  BY <1>1 DEF MyTurn, CanAct
<1>3. /\ disk = game /\ AtTable(game) /\ Stood(At(game, opening.turns, <<>>)) /\ Opened(game, opening)
      /\ Undoes(game, opening.turns, before)
  BY <1>2, TurnInPlay
<1>4. DOMAIN game = DOMAIN EmptyLobby  BY DEF SaveInv, LocalTypes, GameOk
<1>5. PICK deck : game' = [game EXCEPT !.currentCard = Head(deck), !.cards = Tail(deck)]
  BY DEF Draw, DrawCardMidTurn
<1>6. SameTurn(game, game') /\ game'.ruleset = game.ruleset  BY <1>4, <1>5 DEF SameTurn, EmptyLobby
<1>7. disk' = game'  BY <1>1, <1>2, <1>3 DEF Persist
<1>8. PICK g, g2 : g = game /\ g2 = game'  OBVIOUS
<1>9. \A t, d : At(g2, t, d) = At(g, t, d)  BY <1>6, <1>8 DEF SameTurn, At
<1>10. Stood(At(g2, opening.turns, <<>>))  BY <1>3, <1>8, <1>9
<1>11. Opened(g2, opening') /\ opening'.turns = opening.turns
  <2>1. PICK o, t, d : o = opening /\ t = opening.turns /\ d = Append(opening.dealt, game'.currentCard)  OBVIOUS
  <2>2. opening' = [o EXCEPT !.dealt = d]  BY <1>1, <2>1
  <2>3. o = At(g, t, o.dealt)  BY <1>3, <1>8, <2>1 DEF Opened
  <2>4. [o EXCEPT !.dealt = d] = At(g, t, d) /\ At(g, t, d).dealt = d /\ At(g, t, d).turns = t  BY <2>3 DEF At
  <2>5. IsClassic(g2)  BY <1>1, <1>6, <1>8 DEF IsClassic
  <2> QED  BY <1>9, <2>1, <2>2, <2>4, <2>5 DEF Opened
<1>12. Undoes(g2, opening.turns, before)  BY <1>3, <1>6, <1>8, StillUndoes
<1>13. LedgerTypes'
  <2>1. ChainOrCurrent = [cards |-> ChainOrCurrent.cards, plus |-> ChainOrCurrent.plus]
    BY <1>2, ScreenIsWhole, ChainIsSoFar, ChainSoFar
  <2>2. PICK c, p : c = ChainOrCurrent /\ p = ChainOrCurrent.plus  OBVIOUS
  <2>3. PICK more : chain' = [c EXCEPT !.cards = more]  BY <1>1, <2>2 DEF RecordDraw
  <2>4. chain'.plus = p  BY <2>1, <2>2, <2>3
  <2>5. p \in Seq(Nat)
    <3>1. p = chain.plus \/ p = <<>>  BY <2>2 DEF ChainOrCurrent
    <3>2. chain.plus \in Seq(Nat) /\ <<>> \in Seq(Nat)
      <4>1. chain.plus \in Seq(Nat)  BY DEF LedgerInv, LedgerTypes
      <4> QED  BY <4>1
    <3> QED  BY Zenon, <3>1, <3>2
  <2>6. LedgerTypes /\ input' \in Nat  BY <1>1 DEF LedgerInv, LedgerTypes
  <2> QED  BY <1>1, <2>4, <2>5, <2>6, WrittenIsTyped
<1>14. Seated(game'.players)
  <2>1. Seated(game.players)  BY <1>2, ScreenIsSeated
  <2> QED  BY <1>6, <2>1 DEF SameTurn
<1>15. Accounted(game', opening', before')  BY <1>1, <1>8, <1>10, <1>11, <1>12 DEF Accounted
<1> QED  BY <1>6, <1>7, <1>13, <1>14, <1>15 DEF LedgerInv, SameTurn

\* The turn taken back is the one that began there.
LEMMA UndoAccounts ==
  ASSUME LocalAssumption, SaveInv, LedgerInv, Undo
  PROVE  /\ LedgerInv' /\ game'.prev = NoUndoableTurn
         /\ TurnOf(game', before.turns) = [before EXCEPT !.dealt = <<IF @ = <<>> THEN game'.currentCard ELSE Head(@)>>,
                                                         !.log = IF Len(@) < MaxLog THEN @ ELSE Tail(@)]
<1>1. PICK r : r = CalculateUndo(game, <<>>) /\ Undone(r)  BY DEF Undo
<1>2. mode = "local" /\ Playing(game) /\ CanUndoState(game)  BY DEF Undo, CanAct, Playing, CanUndoState
<1>3. disk = game /\ game # EmptyLobby /\ Undoes(game, opening.turns, before)  BY <1>2, TurnInPlay
<1>4. Stood(before) /\ BackTo(game, opening.turns, before)  BY <1>2, <1>3 DEF Undoes
<1>5. DOMAIN game = DOMAIN EmptyLobby  BY DEF SaveInv, LocalTypes, GameOk
<1>6. /\ mode' = "local" /\ disk' = game' /\ FreshTurn /\ cache' = NoCache
      /\ opening' = TurnOf(game', Front(opening.turns))
  BY <1>1, <1>2, <1>3 DEF Undone, Persist
<1>7. game' = [game EXCEPT !.players = r.players, !.currentPlayerIndex = r.nextIndex, !.round = r.nextRound,
                !.cards = r.newDeck, !.currentCard = r.drawnCard, !.prev = NoUndoableTurn,
                !.chart = IF r.isRoundEndUndo THEN Front(@) ELSE @, !.log = Front(@)]
  BY <1>1 DEF Undone
<1>8. PICK b, g2, turns : b = before /\ g2 = game' /\ turns = Front(opening.turns)  OBVIOUS
<1>9. /\ b = [players |-> r.players, round |-> r.nextRound, seat |-> r.nextIndex,
              chart |-> IF r.isRoundEndUndo THEN Front(game.chart) ELSE game.chart,
              log |-> b.log, turns |-> turns, dealt |-> b.dealt]
      /\ Front(game.log) = Room(b.log)
      /\ b.dealt # <<>> => r.drawnCard = Head(b.dealt)
  BY <1>1, <1>4, <1>8 DEF BackTo
<1>10. /\ g2.players = r.players /\ g2.currentPlayerIndex = r.nextIndex /\ g2.round = r.nextRound
       /\ g2.currentCard = r.drawnCard /\ g2.prev = NoUndoableTurn
       /\ g2.chart = (IF r.isRoundEndUndo THEN Front(game.chart) ELSE game.chart) /\ g2.log = Front(game.log)
  BY <1>5, <1>7, <1>8 DEF EmptyLobby
<1>11. \A d : [b EXCEPT !.log = Room(@), !.dealt = d] = At(g2, turns, d)
  <2> TAKE d
  <2>1. PICK room : room = Room(b.log)  OBVIOUS
  <2>2. [b EXCEPT !.log = Room(@), !.dealt = d] = [b EXCEPT !.log = room, !.dealt = d]  BY <2>1
  <2>3. PICK ps, n, i, ch, l, d2 :
          b = [players |-> ps, round |-> n, seat |-> i, chart |-> ch, log |-> l, turns |-> turns, dealt |-> d2]
          /\ ps = r.players /\ n = r.nextRound /\ i = r.nextIndex
          /\ ch = IF r.isRoundEndUndo THEN Front(game.chart) ELSE game.chart
    BY <1>9
  <2> DEFINE old == [players |-> ps, round |-> n, seat |-> i, chart |-> ch, log |-> l, turns |-> turns, dealt |-> d2]
             mid == [players |-> ps, round |-> n, seat |-> i, chart |-> ch, log |-> room, turns |-> turns, dealt |-> d2]
             new == [players |-> ps, round |-> n, seat |-> i, chart |-> ch, log |-> room, turns |-> turns, dealt |-> d]
  <2>4. [b EXCEPT !.log = room, !.dealt = d] = new
    <3>1. [old EXCEPT !.log = room] = mid  OBVIOUS
    <3>2. [mid EXCEPT !.dealt = d] = new  OBVIOUS
    <3>3. b = old  BY <2>3
    <3> HIDE DEF old, mid, new
    <3>4. [b EXCEPT !.log = room, !.dealt = d] = [[b EXCEPT !.log = room] EXCEPT !.dealt = d]  OBVIOUS
    <3> QED  BY <3>1, <3>2, <3>3, <3>4
  <2>5. g2.log = room  BY <1>9, <1>10, <2>1
  <2> QED  BY <1>10, <2>2, <2>3, <2>4, <2>5 DEF At
<1>12. Stood(At(g2, turns, <<>>))
  <2>1. PICK t : t = At(g2, turns, <<>>)  OBVIOUS
  <2>2. /\ t.players = b.players /\ t.round = b.round /\ t.seat = b.seat /\ t.chart = b.chart
        /\ t.log = Room(b.log) /\ t.turns = b.turns
    BY <1>9, <1>10, <2>1 DEF At
  <2>3. Stood(b)  BY <1>4, <1>8
  <2>4. IsSeq(t.log) /\ Shows(t.log, t.turns)  BY <2>2, <2>3, RoomShows DEF Stood
  <2> QED  BY <2>1, <2>2, <2>3, <2>4 DEF Stood
<1>13. PICK o : o = TurnOf(g2, turns)  OBVIOUS
<1>14. Opened(g2, o) /\ o.turns = turns  BY <1>13, TurnIsAt DEF Opened
<1>15. ~CanUndoState(g2)  BY <1>10 DEF CanUndoState, NoUndoableTurn
<1>16. Accounted(game', opening', before')  BY <1>6, <1>8, <1>12, <1>13, <1>14, <1>15 DEF Accounted, Undoes
<1>17. Seated(game'.players)
  <2>1. Table(g2.players)  BY <1>12 DEF Stood, At
  <2> QED  BY <1>8, <2>1, TableIsSeated
<1>18. LedgerTypes'  BY <1>6, FreshIsTyped DEF LedgerInv
<1>19. TurnOf(g2, b.turns) = [b EXCEPT !.dealt = <<IF @ = <<>> THEN g2.currentCard ELSE Head(@)>>,
                                       !.log = IF Len(@) < MaxLog THEN @ ELSE Tail(@)]
  <2>1. PICK d, c : d = b.dealt /\ c = IF d = <<>> THEN g2.currentCard ELSE Head(d)  OBVIOUS
  <2>2. c = g2.currentCard /\ b.turns = turns  BY <1>9, <1>10, <2>1
  <2>3. [b EXCEPT !.dealt = <<IF @ = <<>> THEN g2.currentCard ELSE Head(@)>>,
                  !.log = IF Len(@) < MaxLog THEN @ ELSE Tail(@)]
          = [b EXCEPT !.log = Room(@), !.dealt = <<c>>]
    BY <1>9, <2>1 DEF Room
  <2>4. [b EXCEPT !.log = Room(@), !.dealt = <<c>>] = At(g2, turns, <<c>>)  BY <1>11
  <2> QED  BY <2>2, <2>3, <2>4, TurnIsAt
<1> QED  BY <1>6, <1>8, <1>10, <1>16, <1>17, <1>18, <1>19 DEF LedgerInv

LEMMA LedgerInTurn ==
  ASSUME LocalAssumption, SaveInv, LedgerInv, Turn
  PROVE  LedgerInv'
<1>0. input \in Nat /\ LedgerTypes  BY DEF LedgerInv, LedgerTypes
<1>1. ASSUME NEW n \in Totals, TypeTotal(n) PROVE LedgerInv'
  <2>1. UNCHANGED <<before, opening>> /\ disk' = disk /\ chain' = chain /\ input' = n /\ WriteThrough
    BY <1>1 DEF TypeTotal, ghosts
  <2>2. n \in Nat /\ chain'.plus \in Seq(Nat)  BY <1>0, <2>1 DEF LocalAssumption, LedgerTypes
  <2>3. LedgerTypes'  BY <1>0, <2>1, <2>2, WrittenIsTyped
  <2> QED  BY <2>1, <2>3, LedgerLeftAlone
<1>2. ASSUME NEW success \in BOOLEAN, Answer(success) PROVE LedgerInv'
  <2>0. MyTurn /\ mode = "local" /\ Playing(game)  BY <1>2 DEF Answer, MyTurn, CanAct
  <2>1. CASE ~IsClassic(game) /\ CommitTurn(0, success, None)
    <3>1. game.currentCard \in Faces /\ Opened(game, opening)  BY <2>0, TurnInPlay DEF AtTable
    <3>2. Input(game, 0, success, None)  BY <3>1 DEF Input
    <3>3. Deals(None)  BY <2>1, <3>1 DEF Opened, Deals
    <3> QED  BY <2>0, <2>1, <3>2, <3>3, CommitAccounts
  <2>2. CASE /\ IsClassic(game) /\ (game.currentCard = "Kleeblatt" \/ ~success)
             /\ CommitPhysicalTurn(IF success THEN "banked" ELSE "null", success)
    <3>1. PICK ended \in Endings : ended = IF success THEN "banked" ELSE "null"  BY DEF Endings
    <3> QED  BY <2>0, <2>2, <3>1, PhysicalAccounts
  <2>3. CASE /\ chain' = [cards |-> MarkLast(ChainOrCurrent.cards, TRUE),
                          plus |-> ChainOrCurrent.plus
                                     \o (IF game.currentCard = "Plus_Minus" THEN <<input>> ELSE <<>>)]
             /\ input' = input + (IF game.currentCard = "Plus_Minus" THEN PLUS_MINUS_SCORE ELSE KNIFFEL_SCORE)
             /\ UNCHANGED <<mode, offer, game, disk, ghosts>>
             /\ WriteThrough
    <3>1. UNCHANGED <<before, opening>> /\ disk' = disk  BY <2>3 DEF ghosts
    <3>2. input' \in Nat  BY <1>0, <2>3 DEF PLUS_MINUS_SCORE, KNIFFEL_SCORE
    <3>3. PICK p, more : p = ChainOrCurrent.plus /\ more = IF game.currentCard = "Plus_Minus" THEN <<input>> ELSE <<>>
      OBVIOUS
    <3>4. chain'.plus = p \o more  BY <2>3, <3>3
    <3>5. more \in Seq(Nat)
      <4>1. more = <<input>> \/ more = <<>>  BY <3>3
      <4>2. <<input>> \in Seq(Nat) /\ <<>> \in Seq(Nat)  BY <1>0
      <4> QED  BY Zenon, <4>1, <4>2
    <3>6. p \in Seq(Nat)
      <4>1. p = chain.plus \/ p = <<>>  BY <3>3 DEF ChainOrCurrent
      <4>2. chain.plus \in Seq(Nat) /\ <<>> \in Seq(Nat)
        <5>1. chain.plus \in Seq(Nat)  BY <1>0 DEF LedgerTypes
        <5> QED  BY <5>1
      <4> QED  BY Zenon, <4>1, <4>2
    <3>7. chain'.plus \in Seq(Nat)  BY ONLY <3>4, <3>5, <3>6
    <3>8. LedgerTypes'  BY <1>0, <2>3, <3>2, <3>7, WrittenIsTyped
    <3> QED  BY <3>1, <3>8, LedgerLeftAlone
  <2> QED  BY <1>2, <2>1, <2>2, <2>3 DEF Answer
<1>3. ASSUME NextTurn PROVE LedgerInv'
  <2>0. (input > 0) \in BOOLEAN  BY <1>0
  <2>1. PICK banked \in BOOLEAN : banked = (input > 0)  BY Zenon, <2>0
  <2>2. PICK completed \in BOOLEAN : completed = (awaiting \/ (game.currentCard = "Feuerwerk" /\ banked))  OBVIOUS
  <2>3. PICK ended \in Endings : ended = IF banked THEN "banked" ELSE "null"  BY DEF Endings
  <2>4. PICK s : s = IF IsClassic(game) THEN Summary(ended, completed, 0) ELSE None  OBVIOUS
  <2>5. MyTurn /\ CommitTurn(input, banked, s)  BY <1>3, <2>1, <2>2, <2>3, <2>4 DEF NextTurn
  <2>6. mode = "local" /\ Playing(game)  BY <2>5 DEF MyTurn, CanAct
  <2>7. game.currentCard \in Faces /\ Opened(game, opening)  BY <2>6, TurnInPlay DEF AtTable
  <2>8. CASE IsClassic(game)
    <3>1. s = Summary(ended, completed, 0) /\ 0 \in Nat  BY <2>4, <2>8
    <3>2. s # None /\ Summarised(s) /\ s.ended \in Endings /\ FacesOf(s.cards) = FacesOf(ChainOrCurrent.cards)
      BY <2>5, <3>1, SummaryFits
    <3>3. ~torn => FacesOf(ChainOrCurrent.cards) = opening.dealt
      BY <2>6, <2>8, ScreenIsWhole DEF InTurn, Whole, FacesOf
    <3>4. Input(game, input, banked, s)  BY <1>0, <2>7, <3>2 DEF Input
    <3>5. ~torn => Deals(s)  BY <3>2, <3>3 DEF Deals
    <3> QED  BY <2>5, <3>4, <3>5, CommitAccounts
  <2>9. CASE ~IsClassic(game)
    <3>1. s = None  BY <2>4, <2>9
    <3>2. Input(game, input, banked, s)  BY <1>0, <2>7, <3>1 DEF Input
    <3>3. Deals(s)  BY <2>7, <2>9, <3>1 DEF Opened, Deals
    <3> QED  BY <2>5, <3>2, <3>3, CommitAccounts
  <2> QED  BY <2>8, <2>9
<1>4. ASSUME Bust PROVE LedgerInv'
  <2>1. MyTurn /\ IsClassic(game) /\ CommitPhysicalTurn("null", FALSE) /\ "null" \in Endings  BY <1>4 DEF Bust, Endings
  <2> QED  BY <2>1, PhysicalAccounts
<1>5. ASSUME Continue PROVE LedgerInv'
  <2>1. MyTurn /\ mode = "local" /\ Playing(game) /\ game.currentCard = "Stop"  BY <1>5 DEF Continue, MyTurn, CanAct
  <2>2. CASE IsClassic(game) /\ CommitPhysicalTurn("stopCard", FALSE)
    <3>1. "stopCard" \in Endings  BY DEF Endings
    <3> QED  BY <2>1, <2>2, <3>1, PhysicalAccounts
  <2>3. CASE CommitTurn(0, FALSE, None)
    <3>1. Input(game, 0, FALSE, None)
      <4>1. game.currentCard \in Faces  BY <2>1, ScreenIsWhole
      <4> QED  BY <4>1 DEF Input
    <3>2. Deals(None)  BY <2>1 DEF Deals
    <3> QED  BY <2>1, <2>3, <3>1, <3>2, CommitAccounts
  <2> QED  BY <1>5, <2>2, <2>3 DEF Continue
<1>6. ASSUME Draw PROVE LedgerInv'  BY <1>6, DrawAccounts
<1>7. ASSUME Undo PROVE LedgerInv'  BY <1>7, UndoAccounts
<1> QED  BY <1>1, <1>2, <1>3, <1>4, <1>5, <1>6, <1>7 DEF Turn

LEMMA LedgerIsKept == ASSUME LocalAssumption, SaveInv, LedgerInv, [Next]_vars PROVE LedgerInv'
<1>1. CASE UNCHANGED vars
  <2>1. UNCHANGED <<turn, cache, before, opening, disk>>  BY <1>1 DEF vars, ghosts
  <2>2. LedgerTypes'  BY <2>1 DEF LedgerInv, LedgerTypes, turn
  <2> QED  BY <2>1, <2>2, LedgerLeftAlone
<1> QED  BY <1>1, LedgerInLobby, LedgerInTurn, LedgerOnPages, LedgerIsReset DEF Next

LEMMA LedgerOpens == LocalAssumption /\ Init => LedgerInv
<1> SUFFICES ASSUME LocalAssumption, Init PROVE LedgerInv  OBVIOUS
<1>1. chain = NoChain /\ input = 0 /\ disk = NoSave /\ cache = NoCache  BY DEF Init
<1>2. LedgerTypes
  <2>1. chain.plus = <<>>  BY <1>1 DEF NoChain
  <2>2. <<>> \in Seq(Nat)  OBVIOUS
  <2> QED  BY <1>1, <2>1, <2>2 DEF LedgerTypes
<1>3. ~Playing(disk)  BY <1>1 DEF Playing, NoSave, LocalAssumption
<1> QED  BY <1>1, <1>2, <1>3 DEF LedgerInv

\* In every reachable state the saved table is explained by the turns taken,
\* its log shows the last of them, the turn in play began on it, and the
\* record of the last turn leads back to where that one began, but for an
\* entry a full log has dropped (calculateNextTurn, buildTurnResultPatch,
\* calculateUndo).
THEOREM LedgersHold == Spec => [](SaveInv /\ LedgerInv)
<1>1. Init => SaveInv /\ LedgerInv  BY SaveBegins, LedgerOpens, LocalAssumption
<1>2. SaveInv /\ LedgerInv /\ [Next]_vars => (SaveInv /\ LedgerInv)'
  BY SaveIsKept, LedgerIsKept, LocalAssumption
<1> QED  BY <1>1, <1>2, PTL DEF Spec

\* Every score is what the entries of the turns taken say of it, through the
\* deductions of Plus/Minus, undos and reloads, and the log shows the last of
\* these entries (calculateNextTurn, buildRoundLogEntry, buildTurnResultPatch).
THEOREM LogsExplain == Spec => []LogExplainsScores
<1>1. ASSUME SaveInv, LedgerInv, InPlay
      PROVE  /\ Shows(game.log, opening.turns)
             /\ \A i \in DOMAIN game.players : game.players[i].score = Ledger(opening.turns, game.players[i].name)
  <2>1. Stood(At(game, opening.turns, <<>>))  BY <1>1, TurnInPlay, LocalAssumption DEF InPlay
  <2>2. Explained(game.players, opening.turns) /\ Shows(game.log, opening.turns)  BY <2>1 DEF Stood, At
  <2> QED  BY <2>2 DEF Explained
<1>2. SaveInv /\ LedgerInv => LogExplainsScores  BY <1>1 DEF LogExplainsScores, Ledger
<1> QED  BY <1>2, LedgersHold, PTL

-----------------------------------------------------------------------------
\* Only an undo shortens the log of a game in play.

LEMMA CommitLogs ==
  ASSUME LocalAssumption, SaveInv, LedgerInv, MyTurn, NEW r, Committed(r), Playing(game')
  PROVE  Len(game'.log) >= Len(game.log)
<1>1. Stood(At(game, opening.turns, <<>>)) /\ DOMAIN game = DOMAIN EmptyLobby
  BY TurnInPlay DEF MyTurn, CanAct, SaveInv, LocalTypes, GameOk
<1>2. IsSeq(game.log) /\ IsSeq(opening.turns) /\ Shows(game.log, opening.turns)  BY <1>1 DEF Stood, At
<1>3. PICK table : table = [game EXCEPT !.players = r.players, !.prev = r.prev, !.log = Enter(@, r.entry),
                     !.chart = IF r.order.isRoundEnd THEN Append(@, Scores(r.players)) ELSE @]
  OBVIOUS
<1>4. table.log = Enter(game.log, r.entry) /\ DOMAIN table = DOMAIN EmptyLobby  BY <1>1, <1>3 DEF EmptyLobby
<1>5. game'.log = table.log
  <2>1. CASE r.order.isGameOver
    <3>1. game' = [table EXCEPT !.finished = TRUE, !.currentPlayerIndex = 0]  BY <1>3, <2>1 DEF Committed
    <3> QED  BY <1>4, <3>1 DEF EmptyLobby
  <2>2. CASE ~r.order.isGameOver
    <3>1. PICK deck : game' = [table EXCEPT !.currentPlayerIndex = r.order.nextIndex, !.round = r.order.nextRound,
                                         !.currentCard = Head(deck), !.cards = Tail(deck)]
      BY <1>3, <2>2 DEF Committed
    <3> QED  BY <1>4, <3>1 DEF EmptyLobby
  <2> QED  BY <2>1, <2>2
<1> QED  BY <1>2, <1>4, <1>5, EnteredShows

LEMMA OnlyUndoShortens ==
  ASSUME LocalAssumption, SaveInv, LedgerInv, Next, InPlay, mode' = "local", Playing(game'), Len(game'.log) < Len(game.log)
  PROVE  Undo
<1>0. /\ mode = "local" /\ Playing(game) /\ disk = game /\ Len(game.log) \in Nat
      /\ game.status = "playing" /\ Saved = game
  <2>1. mode = "local" /\ Playing(game)  BY DEF InPlay
  <2>2. disk = game /\ Stood(At(game, opening.turns, <<>>))  BY <2>1, TurnInPlay
  <2>3. IsSeq(game.log)  BY <2>2 DEF Stood, At
  <2>4. Saved = game  BY <2>1, <2>2, SavedIsOk DEF SaveInv
  <2> QED  BY <2>1, <2>2, <2>3, <2>4, SeqIs DEF Playing
<1>1. ASSUME Lobby PROVE FALSE
  <2>1. EndGame  BY <1>0, <1>1 DEF Lobby, AddPlayer, RemovePlayer, SetRuleset, StartGame
  <2>2. game'.status = "lobby"  BY <2>1 DEF EndGame, EmptyLobby
  <2> QED  BY <2>2 DEF Playing
<1>2. ASSUME Page PROVE FALSE
  <2>1. game' = game \/ game' = Saved \/ game' = EmptyLobby
    BY <1>2 DEF Page, Reload, OpenLink, SoftRecover, HardReset, ChooseOnline, ChooseLocal, JoinRoom, Reconnect, Reconnected,
                ReconnectFails, DeclineReconnect, LoseRoom, LeaveRoom
  <2>2. game' = game  BY <1>0, <2>1, EmptyIsOk
  <2> QED  BY <1>0, <2>2
<1>3. ASSUME Turn, ~Undo PROVE FALSE
  <2>1. ASSUME NEW r, MyTurn, Committed(r) PROVE FALSE  BY <1>0, <2>1, CommitLogs
  <2>2. CASE Draw
    <3>1. game'.log = game.log  BY <2>2, DrawAccounts
    <3> QED  BY <1>0, <3>1
  <2>3. CASE game' = game  BY <1>0, <2>3
  <2>4. ASSUME NEW n, TypeTotal(n) PROVE game' = game  BY <2>4 DEF TypeTotal
  <2>5. ASSUME NEW success, Answer(success) PROVE game' = game \/ \E r : MyTurn /\ Committed(r)
    BY <2>5 DEF Answer, CommitPhysicalTurn, CommitTurn
  <2>6. ASSUME NextTurn \/ Bust \/ Continue PROVE \E r : MyTurn /\ Committed(r)
    BY <2>6 DEF NextTurn, Bust, Continue, CommitPhysicalTurn, CommitTurn
  <2> QED  BY <1>3, <2>1, <2>2, <2>3, <2>4, <2>5, <2>6 DEF Turn
<1> QED  BY <1>1, <1>2, <1>3 DEF Next

\* What a turn did is undone whole: table, round, seat, chart, card and log are
\* again what they were as the turn began, but for the entry it pushed out of a
\* full log (calculateUndo, undo, buildTurnResultPatch).
THEOREM UndosRestore == Spec => UndoRestores
<1>1. SaveInv /\ LedgerInv /\ [Next]_vars =>
        [InPlay /\ mode' = "local" /\ Playing(game') /\ Len(game'.log) < Len(game.log)
           => /\ TurnOf(game', before.turns)
                   = [before EXCEPT !.dealt = <<IF @ = <<>> THEN game'.currentCard ELSE Head(@)>>,
                                    !.log = IF Len(@) < MaxLog THEN @ ELSE Tail(@)]
              /\ game'.prev = NoUndoableTurn]_vars
  <2> SUFFICES ASSUME SaveInv, LedgerInv, Next, InPlay, mode' = "local", Playing(game'), Len(game'.log) < Len(game.log)
               PROVE /\ TurnOf(game', before.turns)
                          = [before EXCEPT !.dealt = <<IF @ = <<>> THEN game'.currentCard ELSE Head(@)>>,
                                           !.log = IF Len(@) < MaxLog THEN @ ELSE Tail(@)]
                     /\ game'.prev = NoUndoableTurn
    OBVIOUS
  <2>1. Undo  BY OnlyUndoShortens, LocalAssumption
  <2> QED  BY <2>1, UndoAccounts, LocalAssumption
<1> QED  BY <1>1, LedgersHold, PTL DEF Spec, UndoRestores
=============================================================================
