----------------------------- MODULE ScoreEngine -----------------------------
(***************************************************************************)
(* What one committed turn does to the table, and what its undo takes back *)
(* (src/utils/coreGameEngine.ts).  The client and the server run the same  *)
(* functions; these operators are their values, without a deck of their    *)
(* own to shuffle: a caller hands in the order of a freshly built one.     *)
(*                                                                         *)
(* A player is a record with a score and a table of statistics.  Counters  *)
(* and records that were never set are 0: a record is only ever written    *)
(* when it beats the old value, so 0 and `undefined` are told apart by     *)
(* nothing.                                                                *)
(***************************************************************************)
EXTENDS Integers, Sequences, FiniteSets
LOCAL INSTANCE FiniteSetsExt

CONSTANT None       \* null

PLUS_MINUS_SCORE == 1000
KNIFFEL_SCORE == 2000

Special(card) == card \in {"Kniffel", "Plus_Minus", "Kleeblatt"}

Stats == {"totalTurns", "busts", "totalTuttos", "timesSkipped",
          "timesFeuerwerkReceived", "feuerwerkPointsScored", "feuerwerkBusts",
          "timesx2Received", "x2PointsScored", "x2Busts",
          "timesKniffelCompleted", "timesKniffelFailed",
          "timesPlusMinusCompleted", "timesPlusMinusFailed", "times1000PointsDeducted",
          "timesKleeblattCompleted", "timesKleeblattFailed",
          "highestTurnScore", "highestFeuerwerkTurnScore", "highestX2TurnScore",
          "mostCardsInTurn", "highestForfeitedTurnScore"}

FreshPlayer(name) == [name |-> name, score |-> 0, stat |-> [s \in Stats |-> 0]]

Floor(n) == IF n < 0 THEN 0 ELSE n
Top(a, b) == IF a > b THEN a ELSE b

\* Adds one to every counter of a set; takes `by` off, never below zero.
Bump(p, counters) == [p EXCEPT !.stat = [s \in Stats |-> @[s] + (IF s \in counters THEN 1 ELSE 0)]]
Unbump(p, counters) == [p EXCEPT !.stat = [s \in Stats |-> IF s \in counters THEN Floor(@[s] - 1) ELSE @[s]]]

(***************************************************************************)
(* Plus/Minus.                                                             *)
(***************************************************************************)
\* The scores after one successful Plus/Minus of the player at seat `acting`.
\* Classic counts what the chain has earned so far towards the roller's lead,
\* spares only the roller and stops at zero; modernized spares everybody when
\* the roller leads.
AfterPlusMinus(scores, acting, before, ruleset) ==
  LET standing == [i \in DOMAIN scores |->
                     scores[i] + (IF ruleset = "classic" /\ i = acting THEN before ELSE 0)]
      leaders  == {i \in DOMAIN scores : \A j \in DOMAIN scores : standing[j] <= standing[i]}
      payers   == IF ruleset # "classic" /\ acting \in leaders THEN {} ELSE leaders \ {acting}
      Less(n)  == IF ruleset = "classic" THEN Floor(n - PLUS_MINUS_SCORE) ELSE n - PLUS_MINUS_SCORE
  IN [i \in DOMAIN scores |-> IF i \in payers THEN Less(scores[i]) ELSE scores[i]]

\* The scores as the deductions of `befores`, played in order, leave them: [k]
\* after the first k.
AfterEach(scores, acting, befores, ruleset) ==
  LET after[k \in 0..Len(befores)] ==
        IF k = 0 THEN scores ELSE AfterPlusMinus(after[k - 1], acting, befores[k], ruleset)
  IN after

\* The seats the k-th deduction took points from, and how many it took, by name.
Hit(after, k) == {i \in DOMAIN after[k] : after[k][i] # after[k - 1][i]}
TakenFrom(ps, after, k) ==
  [name \in {ps[i].name : i \in Hit(after, k)} |->
     LET i == CHOOSE i \in Hit(after, k) : ps[i].name = name IN after[k - 1][i] - after[k][i]]

\* A player with the score the deductions left, and their number counted.
Deducted(p, score, times) == [p EXCEPT !.score = score, !.stat["times1000PointsDeducted"] = @ + times]

\* Seeded fault of Deduct: a hit is logged in full where the score stopped at zero.
DeductUnclamped(ps, acting, befores, ruleset) ==
  LET after == AfterEach([i \in DOMAIN ps |-> ps[i].score], acting, befores, ruleset)
  IN [players |-> [i \in DOMAIN ps |-> Deducted(ps[i], after[Len(befores)][i],
                                                Cardinality({k \in 1..Len(befores) : i \in Hit(after, k)}))],
      hits    |-> [k \in 1..Len(befores) |-> [name \in {ps[i].name : i \in Hit(after, k)} |-> PLUS_MINUS_SCORE]]]

\* Plays the deductions of `befores`.  `hits` tells of each who lost how much;
\* the order the log lists the players of one deduction in is left out.
Deduct(ps, acting, befores, ruleset) ==
  LET after == AfterEach([i \in DOMAIN ps |-> ps[i].score], acting, befores, ruleset)
  IN [players |-> [i \in DOMAIN ps |-> Deducted(ps[i], after[Len(befores)][i],
                                                Cardinality({k \in 1..Len(befores) : i \in Hit(after, k)}))],
      hits    |-> [k \in 1..Len(befores) |-> TakenFrom(ps, after, k)]]

\* The scores, before the turn, of the players it deducted from.
SnapshotLeaders(ps, hits) ==
  {[name |-> ps[i].name, score |-> ps[i].score] :
     i \in {j \in DOMAIN ps : \E k \in DOMAIN hits : ps[j].name \in DOMAIN hits[k]}}

(***************************************************************************)
(* Classic turns: a summary of the whole chain.                            *)
(***************************************************************************)
\* The counter one card of a chain moves.  A completed Kleeblatt moves none
\* here: it is the instant win.
CardCounter(played) ==
  CASE played.card = "Feuerwerk"  -> {"timesFeuerwerkReceived"}
    [] played.card = "x2"         -> {"timesx2Received"}
    [] played.card = "Stop"       -> {"timesSkipped"}
    [] played.card = "Kniffel"    -> {IF played.completed THEN "timesKniffelCompleted" ELSE "timesKniffelFailed"}
    [] played.card = "Plus_Minus" -> {IF played.completed THEN "timesPlusMinusCompleted" ELSE "timesPlusMinusFailed"}
    [] played.card = "Kleeblatt"  -> IF played.completed THEN {} ELSE {"timesKleeblattFailed"}
    [] OTHER -> {}

\* How many cards of a chain move a counter.
Moves(cards, counter) == Cardinality({k \in DOMAIN cards : counter \in CardCounter(cards[k])})

ApplySummary(p, summary, success) ==
  LET bumped == [p EXCEPT !.stat = [s \in Stats |-> @[s] + Moves(summary.cards, s)]]
  IN [bumped EXCEPT
        !.stat["busts"] = @ + (IF summary.ended = "null" THEN 1 ELSE 0),
        !.stat["totalTuttos"] = @ + summary.tuttoCount,
        !.stat["mostCardsInTurn"] = Top(@, Len(summary.cards)),
        !.stat["highestForfeitedTurnScore"] = IF success THEN @ ELSE Top(@, summary.forfeited)]

\* Seeded fault of RevertSummary: a record the turn set is kept.
RevertCountersOnly(p, summary) ==
  LET back == [p EXCEPT !.stat = [s \in Stats |-> Floor(@[s] - Moves(summary.cards, s))]]
  IN [back EXCEPT !.stat["busts"] = Floor(@ - (IF summary.ended = "null" THEN 1 ELSE 0)),
                  !.stat["totalTuttos"] = Floor(@ - summary.tuttoCount),
                  !.stat["highestForfeitedTurnScore"] = summary.prevForfeited]

RevertSummary(p, summary) ==
  LET back == [p EXCEPT !.stat = [s \in Stats |-> Floor(@[s] - Moves(summary.cards, s))]]
  IN [back EXCEPT
        !.stat["busts"] = Floor(@ - (IF summary.ended = "null" THEN 1 ELSE 0)),
        !.stat["totalTuttos"] = Floor(@ - summary.tuttoCount),
        !.stat["mostCardsInTurn"] = summary.prevMostCards,
        !.stat["highestForfeitedTurnScore"] = summary.prevForfeited]

(***************************************************************************)
(* Modernized turns: one card.                                             *)
(***************************************************************************)
IsBust(card, success) == ~success /\ ~Special(card) /\ card # "Stop"

\* What a special card pays is its own value or nothing.
TurnScore(card, score, success) ==
  IF ~Special(card) THEN score
  ELSE IF ~success THEN 0
  ELSE CASE card = "Plus_Minus" -> PLUS_MINUS_SCORE
         [] card = "Kniffel"    -> KNIFFEL_SCORE
         [] OTHER -> score

\* The counters a modernized turn on `card` moves by one.
TurnCounters(card, success, bust) ==
  CardCounter([card |-> card, completed |-> success])
    \cup IF bust THEN {"busts"} \cup (CASE card = "Feuerwerk" -> {"feuerwerkBusts"}
                                        [] card = "x2" -> {"x2Busts"} [] OTHER -> {})
         ELSE {}

ApplyTurn(p, card, success, score) ==
  LET q == Bump(p, TurnCounters(card, success, IsBust(card, success)))
  IN [q EXCEPT !.stat["x2PointsScored"] = @ + (IF card = "x2" THEN score ELSE 0),
               !.stat["feuerwerkPointsScored"] = @ + (IF card = "Feuerwerk" THEN score ELSE 0)]

RevertTurn(p, card, success, bust, score) ==
  LET q == Unbump(p, TurnCounters(card, success, bust) \ {"timesSkipped"})
  IN [q EXCEPT !.stat["x2PointsScored"] = Floor(@ - (IF card = "x2" THEN score ELSE 0)),
               !.stat["feuerwerkPointsScored"] = Floor(@ - (IF card = "Feuerwerk" THEN score ELSE 0))]

(***************************************************************************)
(* Records and turn order.                                                 *)
(***************************************************************************)
\* The turn-score records a turn may set; those of a card are modernized only.
BestOf(card, classic) ==
  {"highestTurnScore"} \cup (IF classic THEN {} ELSE
     CASE card = "Feuerwerk" -> {"highestFeuerwerkTurnScore"}
       [] card = "x2" -> {"highestX2TurnScore"} [] OTHER -> {})

AllBest == {"highestTurnScore", "highestFeuerwerkTurnScore", "highestX2TurnScore"}

ApplyBest(p, card, classic, score) ==
  [p EXCEPT !.stat = [s \in Stats |-> IF s \in BestOf(card, classic) THEN Top(@[s], score) ELSE @[s]]]

\* Exactly one player holds the highest score, and it is a winning one.
HasWinner(ps, winningScore) ==
  \E i \in DOMAIN ps : /\ ps[i].score >= winningScore
                       /\ \A j \in DOMAIN ps \ {i} : ps[j].score < ps[i].score

\* The next seat, the round it plays in, whether the round or the game is over.
AdvanceTurnOrder(ps, seat, round, winningScore) ==
  LET wraps == seat = Len(ps)
      over  == wraps /\ HasWinner(ps, winningScore)
  IN [isRoundEnd |-> wraps, isGameOver |-> over,
      nextIndex  |-> IF over THEN 0 ELSE IF wraps THEN 1 ELSE seat + 1,
      nextRound  |-> IF wraps /\ ~over THEN round + 1 ELSE round]

NoUndoableTurn == [card |-> None, player |-> None]

(***************************************************************************)
(* calculateNextTurn.  `g` is the game, `summary` the chain's summary, or  *)
(* None for a modernized turn.                                             *)
(***************************************************************************)
\* The result, once the acting seat has been paid: `ps` is the table after the turn.
TurnResult(g, score, success, summary, hits, ps) ==
  LET me    == g.players[g.currentPlayerIndex]
      card  == g.currentCard
      isWin == card = "Kleeblatt" /\ success
  IN [players |-> ps,
      order |-> IF isWin
                THEN [isRoundEnd |-> TRUE, isGameOver |-> TRUE, nextIndex |-> 0, nextRound |-> g.round]
                ELSE AdvanceTurnOrder(ps, g.currentPlayerIndex, g.round, g.winningScore),
      prev |-> [card |-> card, player |-> me.name, score |-> score,
                wasBust |-> IF summary # None THEN summary.ended = "null" ELSE IsBust(card, success),
                wasSuccess |-> success,
                leaders |-> SnapshotLeaders(g.players, hits),
                best |-> [s \in AllBest |-> me.stat[s]],
                summary |-> IF summary = None THEN None
                            ELSE [cards |-> summary.cards, tuttoCount |-> summary.tuttoCount,
                                  ended |-> summary.ended,
                                  deducted |-> hits,
                                  prevMostCards |-> me.stat["mostCardsInTurn"],
                                  prevForfeited |-> me.stat["highestForfeitedTurnScore"]]],
      entry |-> [round |-> g.round, player |-> me.name, score |-> IF isWin THEN 0 ELSE score, hits |-> hits]]

\* The acting seat is paid: the points and the records they set, or, for a
\* completed Kleeblatt, the score that wins.
PayActor(g, score, success, summary, paid) ==
  LET seat   == g.currentPlayerIndex
      card   == g.currentCard
      others == {paid.players[i].score : i \in DOMAIN paid.players \ {seat}}
      final  == IF card = "Kleeblatt" /\ success
                THEN [Bump(paid.players[seat], {"timesKleeblattCompleted"})
                        EXCEPT !.score = Max({g.winningScore, g.players[seat].score} \cup {s + 1 : s \in others})]
                ELSE [ApplyBest(paid.players[seat], card, summary # None, score) EXCEPT !.score = @ + score]
  IN TurnResult(g, score, success, summary, paid.hits, [paid.players EXCEPT ![seat] = final])

\* The turn is counted for the acting seat, then its Plus/Minus cards deduct.
CalculateNextTurn(g, scoreInput, success, summary) ==
  LET seat    == g.currentPlayerIndex
      card    == g.currentCard
      classic == summary # None
      score   == IF classic THEN scoreInput ELSE TurnScore(card, scoreInput, success)
      counted == LET p == Bump(g.players[seat], {"totalTurns"}) IN
                 IF classic THEN ApplySummary(p, summary, success) ELSE ApplyTurn(p, card, success, score)
      befores == IF classic THEN IF success THEN summary.plusMinusScores ELSE <<>>
                 ELSE IF card = "Plus_Minus" /\ success THEN <<score>> ELSE <<>>
  IN PayActor(g, score, success, summary,
              Deduct([g.players EXCEPT ![seat] = counted], seat, befores, IF classic THEN "classic" ELSE "modernized"))

(***************************************************************************)
(* calculateUndo.                                                          *)
(***************************************************************************)
SeatNamed(ps, name) == {i \in DOMAIN ps : ps[i].name = name}

CanUndoState(g) ==
  /\ ~g.finished
  /\ g.prev.card # None
  /\ g.prev.card = "Stop" => g.prev.summary # None
  /\ g.currentPlayerIndex # 0
  /\ SeatNamed(g.players, g.prev.player) # {}
  /\ \A i \in SeatNamed(g.players, g.prev.player) : i >= g.currentPlayerIndex => g.round > 1

\* What the turn in progress took off the deck: the chain of the live snapshot
\* if it ends on the card in play, the card in play otherwise.
InProgressChainCards(card, live) ==
  IF card = None THEN <<>>
  ELSE IF live # <<>> /\ live[Len(live)] = card THEN live ELSE <<card>>

\* A player's own turn taken back.
TakenBack(p, prev) ==
  LET me   == Unbump(p, {"totalTurns"})
      back == IF prev.summary # None THEN RevertSummary(me, prev.summary)
              ELSE RevertTurn(me, prev.card, prev.wasSuccess, prev.wasBust, prev.score)
  IN [back EXCEPT !.score = @ - prev.score,
                  !.stat = [s \in Stats |-> IF s \in AllBest THEN prev.best[s] ELSE @[s]]]

\* Another player's deductions taken back.
Repaid(p, prev) ==
  LET mine == {l \in prev.leaders : l.name = p.name}
      hits == IF prev.summary = None THEN mine
              ELSE {k \in DOMAIN prev.summary.deducted : p.name \in DOMAIN prev.summary.deducted[k]}
  IN IF mine = {} THEN p
     ELSE [p EXCEPT !.score = (CHOOSE l \in mine : TRUE).score,
                    !.stat["times1000PointsDeducted"] = Floor(@ - Cardinality(hits))]

CalculateUndo(g, live) ==
  LET seat  == CHOOSE i \in SeatNamed(g.players, g.prev.player) : TRUE
      wraps == seat >= g.currentPlayerIndex
      back  == g.prev.summary
      chain == IF back = None THEN <<g.prev.card>> ELSE [k \in DOMAIN back.cards |-> back.cards[k].card]
  IN [players |-> [i \in DOMAIN g.players |-> IF i = seat THEN TakenBack(g.players[i], g.prev)
                                              ELSE Repaid(g.players[i], g.prev)],
      nextIndex |-> seat,
      nextRound |-> IF wraps THEN g.round - 1 ELSE g.round,
      isRoundEndUndo |-> wraps,
      newDeck |-> Tail(chain) \o InProgressChainCards(g.currentCard, live) \o g.cards,
      drawnCard |-> Head(chain)]
=============================================================================
