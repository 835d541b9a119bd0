------------------------------ MODULE DiceTurn ------------------------------
(***************************************************************************)
(* One player's digital dice turn, played online: the dice panel's state   *)
(* machine, the chain of cards it draws in the classic rules, the snapshot *)
(* it relays to the room and caches on the device, and the three parties   *)
(* that may end the turn by what they know of it - the panel's claim, the  *)
(* server's clock, and a panel reopened after a reload.                    *)
(*                                                                         *)
(* Only this player's turns are followed; what the others do in between    *)
(* changes nothing here.  A snapshot is sent some time after the change it *)
(* shows (the debounce), or never, when the next change comes first.       *)
(* Abstracted: the choice of dice one by one (a selection is made at       *)
(* once), presentation, the physical mode, and the deck (a card is any     *)
(* card).  The recovery of a draw the store takes back is left out: a card *)
(* the server has dealt is never taken back.  So is the ceiling on every   *)
(* score of a claim (MAX_SCORE_MAGNITUDE, a million), which no turn nears. *)
(***************************************************************************)
EXTENDS DiceRules, Sequences, SequencesExt

CONSTANTS Cards,        \* the cards that may be dealt
          MaxRolls,     \* bound: rolls of the game
          MaxTurns,     \* bound: turns of this player
          MaxReloads,   \* bound: reloads of the page
          PlayerHosts   \* the player is the host

ASSUME TurnAssumption ==
  /\ Cards \subseteq {"bonus", "x2", "Plus_Minus", "Kniffel", "Feuerwerk", "Kleeblatt", "Stop"}
  /\ {MaxRolls, MaxTurns, MaxReloads} \subseteq Nat
  /\ PlayerHosts \in BOOLEAN

VARIABLES
  ruleset,
  \* the server
  turn,       \* which of this player's turns is being played
  slot,       \* the round and seat that name it
  dealt,      \* dealtThisTurn; its last card is currentCard
  live,       \* liveTurnState
  former,     \* the turn an undo brings back: its slot and opening card
  \* the client
  panel,      \* the dice panel, or Closed
  dirty,      \* the snapshot debounce is armed
  asking,     \* the draw: "no", "asked" of the server, or "dealt" by it
  cache,      \* DICE_TURN_STATE_KEY
  rolls, reloads

vars == <<ruleset, turn, slot, dealt, live, former, panel, dirty, asking, cache, rolls, reloads>>
server == <<ruleset, turn, slot, dealt, former>>

-----------------------------------------------------------------------------
classic == ruleset = "classic"
card == Last(dealt)
FirstSlot == 1

Closed == [phase |-> "closed"]
NoSnap == [score |-> 0, kept |-> 0]
NoCache == [key |-> <<0, "none">>, snap |-> NoSnap]
NoSummary == [won |-> FALSE, score |-> 0, tutto |-> FALSE, shown |-> FALSE]
Summary(won, score, tutto) == [won |-> won, score |-> score, tutto |-> tutto, shown |-> TRUE]

\* buildTurnKey
TurnKey == <<slot, card>>

Opening(c) == [card |-> c, before |-> 0, after |-> 0, tuttos |-> 0]
NewChain(c) == [cards |-> <<c>>, done |-> FALSE, pm |-> <<>>, tuttos |-> 0, ended |-> "banked", forfeit |-> 0,
                outcomes |-> <<Opening(c)>>]

FreshPanel(c) ==
  [phase |-> "ready", kept |-> 0, roll |-> NoDice, sel |-> NoDice, score |-> 0, progress |-> {}, tuttos |-> 0,
   busted |-> FALSE, stopped |-> FALSE, summary |-> NoSummary, reveal |-> "none", chain |-> NewChain(c), of |-> turn]

\* recordCurrentOutcome
Recorded(ch, score, tutto) ==
  [ch EXCEPT !.outcomes[Len(ch.cards)].after = score, !.outcomes[Len(ch.cards)].tuttos = @ + tutto]

\* buildDiceSnapshot
Snapshot(p) ==
  [score |-> p.score, kept |-> p.kept, roll |-> p.roll, sel |-> IF p.busted THEN NoDice ELSE p.sel,
   progress |-> p.progress, tuttos |-> p.tuttos, busted |-> p.busted, stopped |-> p.stopped,
   rolling |-> p.phase = "tumbling", cards |-> p.chain.cards, pm |-> p.chain.pm, ctuttos |-> p.chain.tuttos,
   outcomes |-> p.chain.outcomes, of |-> p.of]

-----------------------------------------------------------------------------
\* What a snapshot says, to the panel that resumes from it.

\* An unfinished tumble is judged by the dice it shows.
Unresolved(s) == s.rolling /\ ~s.busted /\ ~s.stopped /\ s.roll # NoDice
RollBusts(s) == Unresolved(s) /\ Busts(s.roll, card, s.progress, ruleset)

\* Seeded fault of Derived: the flags are trusted, so a roll cached in the air is
\* resumed as a settled one, and what the chain had come to is not worked out.
TrustsFlags(s) ==
  [FreshPanel(card) EXCEPT
     !.phase = "settled", !.kept = s.kept, !.roll = s.roll, !.sel = s.sel, !.score = s.score,
     !.progress = s.progress, !.tuttos = s.tuttos, !.busted = s.busted, !.stopped = s.stopped,
     !.summary = IF s.busted \/ s.stopped THEN Summary(s.stopped, s.score, s.kept = TotalDice) ELSE NoSummary]

\* deriveRestoredTurn and initialDiceTurnState
Derived(s) ==
  LET bust == s.busted \/ RollBusts(s)
      won == card = "Feuerwerk" /\ s.score > 0
      tutto == ~bust /\ classic /\ s.kept = TotalDice
      stop == ~bust /\ ~tutto /\ classic /\ card = "Stop"
      banked == ~bust /\ ~tutto /\ ~stop /\ s.stopped
      midDraw == ~bust /\ ~tutto /\ ~stop /\ ~banked /\ s.kept = 0 /\ s.roll = NoDice
  IN [phase |-> IF midDraw THEN "ready" ELSE "settled",
      kept |-> s.kept, roll |-> s.roll,
      sel |-> IF Unresolved(s) /\ ~bust /\ classic /\ card = "Feuerwerk"
              THEN Largest(s.roll, card, {}, ruleset) ELSE s.sel,
      score |-> s.score, progress |-> s.progress, tuttos |-> s.tuttos,
      busted |-> bust, stopped |-> banked,
      summary |-> CASE bust -> Summary(won, IF won THEN s.score ELSE 0, FALSE)
                    [] tutto -> Summary(TRUE, s.score, TRUE)
                    [] stop -> Summary(FALSE, 0, FALSE)
                    [] banked -> Summary(TRUE, s.score, s.kept = TotalDice)
                    [] OTHER -> NoSummary,
      reveal |-> "none",
      chain |-> [cards |-> s.cards, done |-> tutto \/ (bust /\ won), pm |-> s.pm, tuttos |-> s.ctuttos,
                 ended |-> IF stop THEN "stopCard" ELSE IF bust /\ ~won THEN "null" ELSE "banked",
                 forfeit |-> IF stop \/ (bust /\ ~won) THEN s.score ELSE 0, outcomes |-> s.outcomes],
      of |-> s.of]

-----------------------------------------------------------------------------
\* What the server makes of a claim.

\* What one card of the chain may have done to the running total (boundedScore,
\* the ceiling on it, is left out).
StepIsLegal(entry, before, done) ==
  /\ entry.before = before /\ entry.after >= before
  /\ CASE entry.card = "Stop" -> ~done /\ entry.tuttos = 0 /\ entry.after = before
       [] entry.card = "Feuerwerk" -> TRUE
       [] entry.card = "Kleeblatt" -> IF done THEN entry.tuttos = 2 ELSE entry.tuttos <= 1
       [] OTHER -> entry.tuttos = (IF done THEN 1 ELSE 0)
  /\ CASE FixedAward(entry.card) > 0 -> entry.after = before + (IF done THEN FixedAward(entry.card) ELSE 0)
       [] entry.card = "x2" /\ done -> entry.after >= 2 * before
       [] entry.card = "bonus" /\ done -> entry.after >= before + BonusValue
       [] OTHER -> TRUE

\* What the cards of a chain add up to, one after the other: their tuttos, and
\* what was held before each Plus/Minus.
Counted(outcomes) ==
  LET sum[i \in 0..Len(outcomes)] ==
        IF i = 0 THEN [tuttos |-> 0, pm |-> <<>>]
        ELSE [tuttos |-> sum[i - 1].tuttos + outcomes[i].tuttos,
              pm |-> IF outcomes[i].card = "Plus_Minus" THEN Append(sum[i - 1].pm, outcomes[i].before)
                     ELSE sum[i - 1].pm]
  IN sum

\* canonicalTurnSummary: the chain a claim describes is one that can have been played.
Canonical(claim, score, success, timeout) ==
  LET n == Len(dealt)
      done(i) == i < n \/ claim.done
      total == claim.outcomes[n].after
  IN /\ claim.cards = dealt /\ [i \in DOMAIN claim.outcomes |-> claim.outcomes[i].card] = dealt
     /\ \A i \in 1..(n - 1) : dealt[i] \notin {"Stop", "Kleeblatt", "Feuerwerk"}
     /\ \A i \in 1..n : StepIsLegal(claim.outcomes[i], IF i = 1 THEN 0 ELSE claim.outcomes[i - 1].after, done(i))
     /\ success /\ card \in Special => claim.done
     /\ claim.tuttos = Counted(claim.outcomes)[n].tuttos
     /\ claim.pm = Counted(claim.outcomes)[IF claim.done THEN n ELSE n - 1].pm
     /\ ~timeout => success = (claim.ended = "banked") /\ claim.ended # "timeout"
     /\ card = "Stop" <=> claim.ended = "stopCard"
     /\ success /\ card # "Kleeblatt" => score = total
     /\ ~success => score = 0 /\ claim.forfeit = total

\* applyOnlineGameAction: a commit by the seat whose turn it is.
Accepts(claim, score, success) ==
  /\ card = "Stop" => score = 0 /\ ~success
  /\ card \in Special /\ ~success => score = 0
  /\ classic => Canonical(claim, score, success, FALSE)

Aside(s) == s.kept + Count(s.sel)

\* Seeded fault of TimedOut: the clock trusts the bust flag of a roll in the air.
TrustsBustFlag(s) ==
  LET done == (~s.busted /\ Aside(s) = TotalDice) \/ (s.busted /\ card = "Feuerwerk" /\ s.score > 0)
  IN [cards |-> s.cards, done |-> done, pm |-> s.pm, tuttos |-> s.ctuttos, outcomes |-> s.outcomes,
      forfeit |-> s.score,
      ended |-> CASE card = "Stop" -> "stopCard"
                  [] card # "Stop" /\ (done \/ (~s.busted /\ s.stopped) \/ (s.kept = 0 /\ s.roll = NoDice)) -> "timeout"
                  [] OTHER -> "null"]

\* advanceTurnOnTimeout: where the snapshot says the clock caught the player.
TimedOut(s) ==
  LET atBankChoice == ~s.busted /\ Aside(s) = TotalDice
      feuerwerkBanked == (s.busted \/ RollBusts(s)) /\ card = "Feuerwerk" /\ s.score > 0
      stoppedBanked == ~s.busted /\ s.stopped
      atDrawWindow == ~s.busted /\ ~s.stopped /\ s.kept = 0 /\ s.roll = NoDice
      done == atBankChoice \/ feuerwerkBanked
  IN [cards |-> s.cards, done |-> done, pm |-> s.pm, tuttos |-> s.ctuttos, outcomes |-> s.outcomes,
      forfeit |-> s.score,
      ended |-> CASE card = "Stop" -> "stopCard"
                  [] card # "Stop" /\ (done \/ stoppedBanked \/ atDrawWindow) -> "timeout"
                  [] OTHER -> "null"]

\* The clock never awards points; a success of its own spares a decided
\* turn the bust, and gives a completed Kleeblatt the game.
TimeoutSuccess(s) ==
  LET kleeblatt == card = "Kleeblatt" /\ s.stopped /\ ~s.busted /\ s.tuttos >= 1 /\ Aside(s) = TotalDice
      enough == s.ctuttos >= (Len(s.cards) - 1) + 2
  IN IF classic THEN kleeblatt /\ enough
     ELSE kleeblatt \/ (s.stopped /\ ~s.busted /\ card \notin Special \cup {"Stop"})

-----------------------------------------------------------------------------
\* The panel.

\* A snapshot goes to the cache and, unless it names a token the draw has
\* replaced, to the room.
ShownKey == <<slot, IF asking = "dealt" THEN dealt[Len(dealt) - 1] ELSE card>>
Publish(p) ==
  /\ cache' = [key |-> ShownKey, snap |-> Snapshot(p)]
  /\ live' = IF asking = "dealt" THEN live ELSE Snapshot(p)

\* What a change of the panel is followed by: a bust is published at once.
Becomes(p) ==
  /\ panel' = p
  /\ IF p.busted THEN Publish(p) /\ dirty' = FALSE
                 ELSE dirty' = TRUE /\ UNCHANGED <<cache, live>>

SendSnapshot ==
  /\ dirty /\ dirty' = FALSE
  /\ Publish(panel)
  /\ UNCHANGED <<server, panel, asking, rolls, reloads>>

\* roll: n dice, in the air until finalizeRoll.
Rolled(p, n) ==
  /\ rolls < MaxRolls /\ rolls' = rolls + 1
  /\ \E r \in Dice : Count(r) = n /\ Becomes([p EXCEPT !.phase = "tumbling", !.roll = r, !.sel = NoDice, !.busted = FALSE])

\* readRestorableTurn: a cache of another turn is dropped.
Open ==
  /\ panel = Closed /\ card # "Stop"
  /\ IF cache.key = TurnKey
     THEN LET p == Derived(cache.snap)
          IN IF p.phase = "ready" THEN panel' = p /\ dirty' = FALSE /\ UNCHANGED <<cache, live>> ELSE Becomes(p)
     ELSE panel' = FreshPanel(card) /\ dirty' = FALSE /\ cache' = NoCache /\ UNCHANGED live
  /\ former' = <<>>    \* bound: the host undoes a turn before the next one's panel opens
  /\ UNCHANGED <<ruleset, turn, slot, dealt, asking, rolls, reloads>>

\* The opening roll, the roll after a drawn card, the roll of a resumed draw.
OpeningRoll ==
  /\ panel.phase = "ready" /\ panel.reveal = "none" /\ asking = "no"
  /\ Rolled(panel, TotalDice)
  /\ UNCHANGED <<server, asking, reloads>>

BustChain(p) ==
  IF card = "Feuerwerk" /\ p.score > 0
  THEN [Recorded(p.chain, p.score, 0) EXCEPT !.done = TRUE]
  ELSE [Recorded(p.chain, p.score, 0) EXCEPT !.ended = "null", !.forfeit = p.score]

\* finalizeRoll
Finalize ==
  /\ panel.phase = "tumbling"
  /\ LET p == [panel EXCEPT !.phase = "settled"]
         won == card = "Feuerwerk" /\ p.score > 0
     IN IF Busts(p.roll, card, p.progress, ruleset)
        THEN Becomes([p EXCEPT !.busted = TRUE, !.chain = BustChain(p),
                               !.summary = Summary(won, IF won THEN p.score ELSE 0, FALSE)])
        ELSE Becomes(IF classic /\ card = "Feuerwerk" THEN [p EXCEPT !.sel = Largest(p.roll, card, {}, ruleset)] ELSE p)
  /\ UNCHANGED <<server, asking, rolls, reloads>>

AtRest(p) == p.phase = "settled" /\ ~p.busted /\ ~p.summary.shown /\ p.reveal = "none" /\ asking = "no"
CanAct(p) == AtRest(p) /\ Valid(p.sel, card, p.progress, ruleset)
MakesTutto(p) == p.kept + Count(p.sel) = TotalDice
CanStop(p) == card # "Feuerwerk" /\ (MakesTutto(p) \/ card \notin Special)
CanDraw(p) == classic /\ MakesTutto(p) /\ CanStop(p) /\ card # "Kleeblatt" /\ Len(p.chain.cards) < MaxChain

Select ==
  /\ AtRest(panel) /\ ~(classic /\ card = "Feuerwerk")
  /\ \E sel \in Dice :
       /\ Within(sel, panel.roll) /\ sel # panel.sel /\ Valid(sel, card, panel.progress, ruleset)
       /\ Becomes([panel EXCEPT !.sel = sel])
  /\ UNCHANGED <<server, asking, rolls, reloads>>

\* handleAction up to its branches: the selection is counted and put aside.
Kept(p) ==
  LET score == p.score + (IF card # "Plus_Minus" THEN Points(p.sel, card) ELSE 0)
      total == IF MakesTutto(p) THEN TuttoBonus(card, score) ELSE score
      ch == IF MakesTutto(p) THEN [Recorded(p.chain, total, 1) EXCEPT !.tuttos = @ + 1] ELSE Recorded(p.chain, total, 0)
  IN [p EXCEPT !.score = total, !.kept = @ + Count(p.sel), !.chain = ch, !.sel = NoDice, !.roll = NoDice,
               !.progress = IF card = "Kniffel" THEN @ \cup Shown(p.sel) ELSE {}]

RollOn ==
  /\ CanAct(panel) /\ (MakesTutto(panel) => card = "Feuerwerk")
  /\ LET p == Kept(panel)
         q == IF MakesTutto(panel) THEN [p EXCEPT !.kept = 0] ELSE p
     IN Rolled(q, TotalDice - q.kept)
  /\ UNCHANGED <<server, asking, reloads>>

FirstOfTwo(p) == card = "Kleeblatt" /\ p.tuttos = 0
RollSecondTutto ==
  /\ CanAct(panel) /\ MakesTutto(panel) /\ FirstOfTwo(panel)
  /\ Rolled([Kept(panel) EXCEPT !.kept = 0, !.tuttos = 1], TotalDice)
  /\ UNCHANGED <<server, asking, reloads>>

Paid(p, before) ==
  LET total == p.score + FixedAward(card)
  IN [p EXCEPT !.score = total,
               !.chain = [Recorded(p.chain, total, 0) EXCEPT !.pm = IF card = "Plus_Minus" THEN Append(@, before) ELSE @]]

\* Seeded fault of Awarded: the deduction is recorded after the award.
AwardedLate(p) == IF classic /\ FixedAward(card) > 0 THEN Paid(p, p.score + FixedAward(card)) ELSE p

\* The fixed awards of the classic rules; a Plus_Minus is deducted from the
\* leaders by what was held before its own award.
Awarded(p) == IF classic /\ FixedAward(card) > 0 THEN Paid(p, p.score) ELSE p

\* TABLE_COMMITTED
Committed(p) == IF MakesTutto(p) THEN [Awarded(Kept(p)) EXCEPT !.chain.done = TRUE] ELSE Kept(p)

\* TURN_BANKED
Banked(p) == [p EXCEPT !.stopped = TRUE, !.summary = Summary(TRUE, p.score, p.kept = TotalDice)]

StopAndScore ==
  /\ CanAct(panel) /\ CanStop(panel) /\ ~(MakesTutto(panel) /\ FirstOfTwo(panel))
  /\ Becomes(Banked(Committed(panel)))
  /\ UNCHANGED <<server, asking, rolls, reloads>>

\* Drawing on: the table is committed, the server asked for a card.
DrawCard ==
  /\ CanAct(panel) /\ CanDraw(panel)
  /\ Becomes(Committed(panel)) /\ asking' = "asked"
  /\ UNCHANGED <<server, rolls, reloads>>

\* drawCard on the server.
Deal ==
  /\ asking = "asked" /\ classic /\ Len(dealt) < MaxChain /\ card \notin {"Stop", "Feuerwerk", "Kleeblatt"}
  /\ \E c \in Cards : dealt' = Append(dealt, c)
  /\ asking' = "dealt"
  /\ UNCHANGED <<ruleset, turn, slot, live, former, panel, dirty, cache, rolls, reloads>>

DrawRefused ==
  /\ asking = "asked" /\ asking' = "no"
  /\ Becomes(Banked(panel))
  /\ UNCHANGED <<server, rolls, reloads>>

\* CHAIN_DRAWN: the card goes on the chain and the table is cleared for it.
Drawn ==
  /\ asking = "dealt" /\ asking' = "no"
  /\ LET ch == [panel.chain EXCEPT !.cards = Append(@, card), !.done = FALSE,
                  !.outcomes = Append(@, [card |-> card, before |-> panel.score, after |-> panel.score, tuttos |-> 0]),
                  !.ended = IF card = "Stop" THEN "stopCard" ELSE @,
                  !.forfeit = IF card = "Stop" THEN panel.score ELSE @]
     IN panel' = [panel EXCEPT !.kept = 0, !.roll = NoDice, !.sel = NoDice, !.progress = {}, !.reveal = card,
                    !.phase = IF card = "Stop" THEN "settled" ELSE "ready",
                    !.tuttos = IF card = "Kleeblatt" THEN 0 ELSE @, !.chain = ch]
  /\ dirty' = TRUE
  /\ UNCHANGED <<server, live, cache, rolls, reloads>>

AcknowledgeDrawnCard ==
  /\ panel.phase \in {"ready", "settled"} /\ panel.reveal # "none"
  /\ panel' = [panel EXCEPT !.reveal = "none", !.summary = IF card = "Stop" THEN Summary(FALSE, 0, FALSE) ELSE @]
  /\ UNCHANGED <<server, live, dirty, asking, cache, rolls, reloads>>

-----------------------------------------------------------------------------
\* The end of the turn, and what may bring it back.

TurnGone == panel' = Closed /\ dirty' = FALSE /\ asking' = "no"

\* The player's next turn, under a slot of its own.
NextTurn ==
  /\ turn < MaxTurns /\ turn' = turn + 1 /\ slot' = turn + 1
  /\ former' = <<slot, dealt[1]>>
  /\ \E c \in Cards : dealt' = <<c>>
  /\ live' = NoSnap

\* finishGame: the claim, and what the server makes of it.
Finish ==
  /\ panel # Closed /\ panel.summary.shown
  /\ TurnGone /\ cache' = NoCache
  /\ IF Accepts(panel.chain, panel.summary.score, panel.summary.won)
     THEN NextTurn ELSE UNCHANGED <<turn, slot, dealt, former, live>>
  /\ UNCHANGED <<ruleset, rolls, reloads>>

\* A bare Stop counts itself down with no panel.
StopTurn ==
  /\ panel = Closed /\ card = "Stop"
  /\ TurnGone /\ cache' = NoCache
  /\ IF ~classic \/ Len(dealt) = 1
     THEN NextTurn ELSE UNCHANGED <<turn, slot, dealt, former, live>>
  /\ UNCHANGED <<ruleset, rolls, reloads>>

Timeout ==
  /\ NextTurn /\ TurnGone
  /\ UNCHANGED <<ruleset, cache, rolls, reloads>>

\* Seeded fault of HostClears: the caches outlive an undo and a restart.
CachesOutlive == UNCHANGED cache

\* clearTurnCaches runs on the device that acts, and on no other.
HostClears == cache' = IF PlayerHosts THEN NoCache ELSE cache

\* The host undoes the turn, or restarts the game.
HostUndoes ==
  /\ former # <<>> /\ panel = Closed
  /\ turn' = turn + 1 /\ slot' = former[1] /\ dealt' = <<former[2]>> /\ former' = <<>>
  /\ live' = NoSnap /\ HostClears
  /\ UNCHANGED <<ruleset, panel, dirty, asking, rolls, reloads>>

HostRestarts ==
  /\ turn < MaxTurns /\ turn' = turn + 1 /\ slot' = FirstSlot
  /\ \E c \in Cards : dealt' = <<c>>
  /\ former' = <<>> /\ live' = NoSnap
  /\ TurnGone /\ HostClears
  /\ UNCHANGED <<ruleset, rolls, reloads>>

\* A reload and the rejoin after it: the room's own snapshot is resumed when
\* its chain ends on the card in play.
Reload ==
  /\ reloads < MaxReloads /\ reloads' = reloads + 1
  /\ asking' = "no" /\ dirty' = FALSE
  /\ IF live # NoSnap /\ (classic => Last(live.cards) = card)
     THEN LET p == Derived(live)
          IN panel' = p /\ cache' = [key |-> TurnKey, snap |-> IF p.busted THEN Snapshot(p) ELSE live]
             /\ live' = IF p.busted THEN Snapshot(p) ELSE live
     ELSE panel' = Closed /\ UNCHANGED <<cache, live>>
  /\ UNCHANGED <<server, rolls>>

Init ==
  /\ ruleset \in {"classic", "modernized"}
  /\ turn = 1 /\ slot = FirstSlot /\ \E c \in Cards : dealt = <<c>>
  /\ live = NoSnap /\ former = <<>>
  /\ panel = Closed /\ dirty = FALSE /\ asking = "no" /\ cache = NoCache
  /\ rolls = 0 /\ reloads = 0

PanelStep == Open \/ OpeningRoll \/ Finalize \/ Select \/ RollOn \/ RollSecondTutto \/ StopAndScore \/ DrawCard
             \/ DrawRefused \/ Drawn \/ AcknowledgeDrawnCard \/ SendSnapshot \/ Finish \/ StopTurn
RoomStep == Deal \/ Timeout \/ HostUndoes \/ HostRestarts
Next == PanelStep \/ RoomStep \/ Reload
Spec == Init /\ [][Next]_vars

-----------------------------------------------------------------------------
\* A decided turn whose panel knows every card dealt is accepted by the
\* server: the panel's arithmetic and the server's rules tell one story.
CommitsAreAccepted ==
  panel # Closed /\ panel.summary.shown /\ (classic => panel.chain.cards = dealt)
    => Accepts(panel.chain, panel.summary.score, panel.summary.won)

\* The two readers of a relayed snapshot agree on what it says of a decided
\* turn: the clock that expires it and the panel that would resume it record
\* the same cards as completed, charge the same busts and know the same winner.
\* In the modernized rules a success of the clock's would pay out a Kniffel or a
\* Plus/Minus, which it never does (turnTimers.ts), and a Feuerwerk that has met
\* its null is won for the panel and a bust for the clock.
AuthoritiesAgree ==
  live # NoSnap /\ (classic => live.cards = dealt) /\ Derived(live).summary.shown =>
    LET p == Derived(live)
        t == TimedOut(live)
    IN IF classic
       THEN /\ t.done = p.chain.done /\ (t.ended = "null") = (p.chain.ended = "null")
            /\ Canonical(t, 0, TimeoutSuccess(live), TRUE)
            /\ live.stopped /\ card = "Kleeblatt" => TimeoutSuccess(live) = p.summary.won
       ELSE card \notin {"Kniffel", "Plus_Minus", "Feuerwerk"} => TimeoutSuccess(live) = p.summary.won

\* A decision the room has been told of stands: no reload hands the dice back.
ToldDecisionStands ==
  live # NoSnap /\ (live.busted \/ live.stopped) /\ (classic => live.cards = dealt) /\ panel # Closed
    => /\ panel.summary.shown /\ panel.score = live.score
       /\ (panel.busted \/ panel.stopped \/ panel.kept = TotalDice)

\* The dice on the table were rolled in the turn being played.
DiceBelongToTurn == panel # Closed => panel.of = turn
=============================================================================
