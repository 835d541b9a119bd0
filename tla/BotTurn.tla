------------------------------- MODULE BotTurn -------------------------------
(***************************************************************************)
(* A bot's turn in a local game: the dice panel of DiceTurn with no hands  *)
(* on it.  A driver (useBotDriver.ts) waits whenever the table stands still*)
(* and then asks the panel for one step: to put a selection on the table,  *)
(* or to act on the one that is there.  A step that changes nothing the    *)
(* driver watches is never repeated.                                       *)
(***************************************************************************)
EXTENDS DiceTurn, BotStrategies

CONSTANTS Bots      \* the bots' seats: who they are and what they are told

\* What the panel hands to the engine about a classic turn.
Summaries == [cards : Seq([card : Cards, completed : BOOLEAN]), ended : {"banked", "null", "stopCard", "timeout"},
              tuttoCount : Nat, forfeited : Nat, plusMinusScores : Seq(Nat)]

ASSUME BotAssumption ==
  /\ None \notin Summaries
  /\ \A b \in Bots : b.mine \in Int /\ b.others \in Seq(Int) /\ b.winning \in Int

VARIABLES bot,      \* the seat that plays: personality and standings
          plan,     \* optimalBotDecision: what the table was evaluated to
          armed     \* the driver's timer is running

botVars == <<vars, bot, plan, armed>>

NoPlan == [action |-> "none"]

-----------------------------------------------------------------------------
\* BotTurnContext of the table.
Context ==
  [roll |-> panel.roll, kept |-> panel.kept, score |-> panel.score, card |-> card, ruleset |-> ruleset,
   progress |-> panel.progress, chain |-> Len(panel.chain.cards), pm |-> panel.chain.pm, canDraw |-> TRUE,
   deck |-> bot.deck, mine |-> bot.mine, others |-> bot.others, winning |-> bot.winning, endgame |-> bot.endgame]

\* actualAvailability: what the panel's buttons offer on the selection made.
Offered(p) ==
  IF ~CanAct(p) THEN {}
  ELSE {a \in {"roll", "stop", "draw"} :
          CASE a = "roll" -> MakesTutto(p) => card = "Feuerwerk" [] a = "stop" -> CanStop(p) [] OTHER -> CanDraw(p)}

\* What the driver watches: a change of it starts the timer anew.
Waiting(p) == p # Closed /\ (AtRest(p) \/ p.reveal # "none")
Watched(p) == IF p = Closed THEN <<>> ELSE <<AtRest(p), p.reveal # "none", p.roll, p.sel>>
Rearms == armed' = IF Watched(panel)' # Watched(panel) THEN Waiting(panel)' ELSE armed

-----------------------------------------------------------------------------
\* The keeps the bot may settle on for this table.
Decisions ==
  IF bot.personality = "optimal" THEN OttoDecisions(Context)
  ELSE {[action |-> "later", keep |-> Largest(panel.roll, card, panel.progress, ruleset)]}

\* chooseBotAction: what it does with its selection.
Chosen(decision) ==
  CASE bot.personality = "optimal" -> Resolved(Context, decision, Offered(panel))
    [] bot.personality = "cautious" -> Cautious(Context, decision.keep, Offered(panel))
    [] OTHER -> Risky(Context, decision.keep, Offered(panel))

Take(action) ==
  \/ action = "roll" /\ RollOn
  \/ action = "stop" /\ (StopAndScore \/ RollSecondTutto)
  \/ action = "draw" /\ DrawCard

Locked == classic /\ card = "Feuerwerk"

SelectKeep(decision) ==
  /\ panel.sel # decision.keep /\ ~Locked
  /\ Becomes([panel EXCEPT !.sel = decision.keep]) /\ plan' = decision
  /\ UNCHANGED <<server, asking, rolls, reloads>>

ActOn(actions) ==
  \/ actions = {} /\ UNCHANGED <<vars, plan>>
  \/ (\E a \in actions : Take(a)) /\ plan' = NoPlan

\* botStep: select first, act in the render that follows.
BotStep ==
  /\ armed /\ panel # Closed /\ AtRest(panel)
  /\ \E d \in (IF plan = NoPlan THEN Decisions ELSE {plan}) :
       \/ SelectKeep(d)
       \/ (panel.sel = d.keep \/ Locked) /\ ActOn(Chosen(d))
  /\ armed' = (Watched(panel)' # Watched(panel) /\ Waiting(panel)')
  /\ UNCHANGED bot

DismissReveal ==
  /\ armed /\ AcknowledgeDrawnCard /\ Rearms
  /\ UNCHANGED <<bot, plan>>

\* The panel's own steps.  A local draw is answered at once.
PanelMoves ==
  /\ Open \/ OpeningRoll \/ Finalize \/ (asking = "no" /\ SendSnapshot)
  /\ Rearms /\ UNCHANGED <<bot, plan>>

CardComes ==
  /\ asking # "no" /\ (Deal \/ DrawRefused \/ Drawn)
  /\ asking = "asked" /\ asking' = "dealt" => Last(dealt') \in bot.deck
  /\ Rearms /\ UNCHANGED <<bot, plan>>

\* A reload: the panel opens again on what the device has cached.
LocalReload ==
  /\ reloads < MaxReloads /\ reloads' = reloads + 1 /\ asking = "no"
  /\ TurnGone /\ armed' = FALSE /\ plan' = NoPlan
  /\ UNCHANGED <<server, live, cache, rolls, bot>>

BotInit == Init /\ bot \in Bots /\ plan = NoPlan /\ armed = FALSE
BotNext == BotStep \/ DismissReveal \/ PanelMoves \/ CardComes \/ LocalReload
BotSpec == BotInit /\ [][BotNext]_botVars

-----------------------------------------------------------------------------
\* No bot is stranded: while its table stands still, or a drawn card waits to be
\* dismissed, the driver has a step to take.  Each step changes the table, or
\* the driver stops for good: whatever a bot selects can be kept, and whatever
\* it then decides on is offered.
NoBotStranded == Waiting(panel) => armed

\* The table as the engine sees it, the bot in its last seat, and the summary
\* the panel hands in when `p` has been banked.
Scored(score) == [Engine!FreshPlayer("player") EXCEPT !.score = score]
Table ==
  [players |-> Append([i \in DOMAIN bot.others |-> Scored(bot.others[i])], Scored(bot.mine)),
   currentPlayerIndex |-> Len(bot.others) + 1, currentCard |-> card, round |-> 1, winningScore |-> bot.winning]
SummaryOf(p) ==
  IF ~classic THEN None
  ELSE [cards |-> [i \in DOMAIN p.chain.cards |-> [card |-> p.chain.cards[i], completed |-> TRUE]],
        ended |-> "banked", tuttoCount |-> p.chain.tuttos, forfeited |-> 0,
        plusMinusScores |-> [i \in DOMAIN p.chain.pm |-> PointsOf(p.chain.pm[i])]]

\* What a turn's result means for the player of the last seat.
Verdict(result) ==
  IF ~result.order.isGameOver THEN "continue"
  ELSE IF \E i \in DOMAIN bot.others : result.players[i].score >= Last(result.players).score THEN "loss" ELSE "win"

\* What stopping settles, by the panel's count of the turn and the engine's of the table.
EngineSettles(p) == Verdict(Engine!CalculateNextTurn(Table, PointsOf(p.score), TRUE, SummaryOf(p)))

\* The selections a player could stop on.
Bankable == {k \in Dice : Within(k, panel.roll) /\ Valid(k, card, panel.progress, ruleset)
                          /\ CanStop([panel EXCEPT !.sel = k])}

\* Otto's count of the end of the game is the engine's: playing the last seat
\* of a round he takes a win whenever some selection banks one, and never
\* banks a defeat while another selection's bank would leave the game open.
OttoSettlesRight ==
  plan # NoPlan /\ bot.personality = "optimal" /\ bot.endgame /\ card # "Kleeblatt" =>
    \A settles \in {[k \in Bankable |-> EngineSettles(Committed([panel EXCEPT !.sel = k]))]} :
      \/ DOMAIN settles = {}
      \/ plan.action = "stop" /\ settles[plan.keep] = "win"
      \/ /\ \A k \in DOMAIN settles : settles[k] # "win"
         /\ plan.action = "stop" /\ settles[plan.keep] = "loss" => \A k \in DOMAIN settles : settles[k] = "loss"
=============================================================================
