---------------------------- MODULE BotStrategies ----------------------------
(***************************************************************************)
(* What a bot decides on a table of dice (botStrategies.ts) and how the    *)
(* optimal bot, Otto, counts the end of a game (botEndgame.ts).            *)
(*                                                                         *)
(* What a roll or a draw is worth to Otto is abstracted: wherever his      *)
(* choice rests on comparing two expected values, either may win.  What is *)
(* kept is everything the comparison may not overrule: the actions that    *)
(* are offered, the priorities of a bank that wins or loses the game, the  *)
(* search for a way out of a loss, and the rule never to stop on less than *)
(* the table could bank.                                                   *)
(*                                                                         *)
(* A context is the record of the turn and of the standings the bot is     *)
(* handed.  The turn's points are in units of 50, the standings in points. *)
(***************************************************************************)
EXTENDS DiceRules, Integers, Sequences, SequencesExt

CONSTANTS CautiousMinDice,     \* CAUTIOUS_MIN_DICE_TO_ROLL
          None

Engine == INSTANCE ScoreEngine

CautiousBankMin == 6           \* CAUTIOUS_BANK_MIN, in units of 50
PointsOf(units) == 50 * units

-----------------------------------------------------------------------------
\* legalKeeps: every selection a table allows; a modernized straight has one.
LegalKeeps(ctx) ==
  IF ctx.card = "Kniffel" /\ ctx.ruleset # "classic"
  THEN {k \in {Largest(ctx.roll, ctx.card, ctx.progress, ctx.ruleset)} : Shown(k) # {}}
  ELSE {k \in Dice : Within(k, ctx.roll) /\ Valid(k, ctx.card, ctx.progress, ctx.ruleset)}

Completes(ctx, keep) == ctx.kept + Count(keep) = TotalDice

\* outcomeOfPicked: a card with an award pays nothing for its dice, and the
\* award only when it is completed.
BankOf(ctx, keep) ==
  LET award == FixedAward(ctx.card)
      total == ctx.score + (IF award > 0 THEN 0 ELSE Points(keep, ctx.card))
  IN IF Completes(ctx, keep) THEN TuttoBonus(ctx.card, total + award) ELSE total

DiceAfter(ctx, keep) == IF Completes(ctx, keep) THEN TotalDice ELSE TotalDice - ctx.kept - Count(keep)

\* hasClassicDraw: canDrawAfterTutto, for a selection that completes the table.
HasClassicDraw(ctx) ==
  ctx.ruleset = "classic" /\ ctx.canDraw /\ ctx.card \notin {"Feuerwerk", "Kleeblatt"} /\ ctx.chain < MaxChain

\* actionsForKeep: what the panel will offer once `keep` is selected.
ActionsFor(ctx, keep) ==
  LET tutto == Completes(ctx, keep)
  IN {a \in {"roll", "stop", "draw"} :
        CASE a = "roll" -> tutto => ctx.card = "Feuerwerk"
          [] a = "stop" -> ctx.card # "Feuerwerk" /\ (tutto \/ ctx.card \notin Special)
          [] OTHER -> tutto /\ HasClassicDraw(ctx)}

-----------------------------------------------------------------------------
\* The end of the game, as Otto counts it.

\* bankOutcome: what banking now settles, for the seat that closes the round.
\* The first score is the bot's own.
BankOutcome(ctx, bank) ==
  LET paid == IF ctx.ruleset = "classic" THEN ctx.pm ELSE IF ctx.card = "Plus_Minus" THEN <<ctx.score>> ELSE <<>>
      hit == Engine!AfterEach(<<ctx.mine>> \o ctx.others, 1, [i \in DOMAIN paid |-> PointsOf(paid[i])], ctx.ruleset)[Len(paid)]
      final == [hit EXCEPT ![1] = @ + PointsOf(bank)]
      lead == {i \in DOMAIN final : \A j \in DOMAIN final : final[j] <= final[i]}
  IN IF ~ctx.endgame \/ Cardinality(lead) # 1 \/ (\A i \in lead : final[i] < ctx.winning) THEN "continue"
     ELSE IF lead = {1} THEN "win" ELSE "loss"

\* Seeded fault of AfterCardCompletion: the deduction still to come is forgotten.
ForgetsDeduction(ctx, before) == ctx

\* afterCardCompletion: a classic Plus_Minus is to be deducted by what was held before it.
AfterCardCompletion(ctx, before) ==
  IF ctx.ruleset = "classic" /\ ctx.card = "Plus_Minus" THEN [ctx EXCEPT !.pm = Append(@, before)] ELSE ctx

\* The most a roll of `dice` can bank: the card's award, or ones throughout.
BestBank(ctx, bank, dice) ==
  LET award == FixedAward(ctx.card)
      ones == [v \in Faces |-> IF v = 1 THEN dice ELSE 0]
  IN TuttoBonus(ctx.card, bank + (IF award > 0 THEN award ELSE Points(ones, ctx.card)))

\* What a roll on the card itself can reach, further draws apart.
RollAvoidsLoss(ctx, bank, dice) ==
  /\ ctx.endgame /\ ctx.card # "Stop"
  /\ \/ ctx.card \in {"Kleeblatt", "Feuerwerk"}
     \/ BankOutcome(AfterCardCompletion(ctx, bank), BestBank(ctx, bank, dice)) # "loss"

\* canReachNonLosingDraw: one card deep.
CanReachNonLosingDraw(ctx, bank) ==
  /\ ctx.endgame /\ HasClassicDraw(ctx)
  /\ \E c \in ctx.deck :
       RollAvoidsLoss([ctx EXCEPT !.card = c, !.score = bank, !.canDraw = FALSE], bank, TotalDice)

CanReachNonLosingRoll(ctx, bank, dice) ==
  \/ RollAvoidsLoss(ctx, bank, dice)
  \/ /\ ctx.card \notin {"Stop", "Kleeblatt", "Feuerwerk"}
     /\ CanReachNonLosingDraw(AfterCardCompletion(ctx, bank), BestBank(ctx, bank, dice))

-----------------------------------------------------------------------------
\* firstOffered
FirstOf(order, offered) == {a \in offered : \A b \in offered :
                              \E i, j \in DOMAIN order : order[i] = a /\ order[j] = b /\ i <= j}

ForcedLoss == 0     \* FORCED_LOSS_PRIORITY
Ordinary == 1       \* ORDINARY_PRIORITY
Winning == 2        \* WIN_PRIORITY

\* The action before the endgame has its say: a comparison of values where two
\* are offered, else the first that is.
Compared(ctx, offered) ==
  CASE {"roll", "stop"} \subseteq offered -> {"roll", "stop"}
    [] {"draw", "stop"} \subseteq offered -> IF ctx.deck = {} THEN {"stop"} ELSE {"draw", "stop"}
    [] OTHER -> FirstOf(<<"roll", "stop", "draw">>, offered)

\* evaluateKeep, with the actions offered on it.
Evaluated(ctx, keep, offered) ==
  [keep |-> keep, offered |-> offered, bank |-> BankOf(ctx, keep), dice |-> DiceAfter(ctx, keep),
   completed |-> IF Completes(ctx, keep) THEN AfterCardCompletion(ctx, ctx.score) ELSE ctx]

\* What the end of the game makes of a keep: what its bank settles, and whether
\* a gamble can still avoid a loss.  A Kleeblatt banks no points.
Foreseen(ctx, e) ==
  [settles |-> IF ctx.card = "Kleeblatt" \/ ~ctx.endgame THEN "continue"
               ELSE IF "stop" \in e.offered THEN BankOutcome(e.completed, e.bank) ELSE "none",
   roll |-> "roll" \in e.offered /\ CanReachNonLosingRoll(ctx, e.bank, e.dice),
   draw |-> "draw" \in e.offered /\ CanReachNonLosingDraw(e.completed, e.bank)]

Deciding(e, actions, priority) ==
  [action : actions, priority : {priority}, keep : {e.keep}, bank : {e.bank}, offered : {e.offered}]

\* A winning bank is taken, a losing one is run from while a gamble can still
\* change it.
Deemed(ctx, e, f) ==
  CASE f.settles = "win" -> Deciding(e, {"stop"}, Winning)
    [] f.settles = "loss" /\ f.roll -> Deciding(e, {"roll"}, Ordinary)
    [] f.settles = "loss" /\ f.draw /\ ~f.roll -> Deciding(e, {"draw"}, Ordinary)
    [] f.settles \in {"loss", "none"} /\ ~f.roll /\ ~f.draw -> Deciding(e, Compared(ctx, e.offered), ForcedLoss)
    [] OTHER -> Deciding(e, Compared(ctx, e.offered), Ordinary)

\* decisionForKeep
DecisionsOn(ctx, e) == Deemed(ctx, e, Foreseen(ctx, e))

\* The straight of the modernized rules and Feuerwerk's dice leave no choice.
KeepsTried(ctx) ==
  IF (ctx.card = "Kniffel" /\ ctx.ruleset # "classic") \/ (ctx.card = "Feuerwerk" /\ ctx.ruleset = "classic")
  THEN {Largest(ctx.roll, ctx.card, ctx.progress, ctx.ruleset)}
  ELSE LegalKeeps(ctx)

\* bestEvaluatedKeep: a keep of the highest priority, and on an ordinary card
\* never a stop on less than another such keep could bank.
Best(ctx, all) ==
  {d \in all : /\ \A e \in all : e.priority <= d.priority
               /\ ctx.card \in {"bonus", "x2"} /\ d.action = "stop" =>
                    \A e \in all : e.priority = d.priority /\ "stop" \in e.offered => e.bank <= d.bank}
OttoDecisions(ctx) ==
  Best(ctx, UNION {DecisionsOn(ctx, Evaluated(ctx, k, ActionsFor(ctx, k))) : k \in KeepsTried(ctx)})

\* resolveOttoAction: the keep stands, the action is chosen among what is offered.
Resolved(ctx, decision, offered) ==
  IF offered = decision.offered THEN {decision.action}
  ELSE {d.action : d \in DecisionsOn(ctx, Evaluated(ctx, decision.keep, offered))} \cap offered

-----------------------------------------------------------------------------
\* Seeded fault of Cautious: Carl banks whether or not Stop is there to press.
CautiousBlind(ctx, keep, offered) ==
  IF BankOf(ctx, keep) >= CautiousBankMin \/ DiceAfter(ctx, keep) < CautiousMinDice
  THEN {"stop"} \cap offered ELSE FirstOf(<<"roll", "stop", "draw">>, offered)

Cautious(ctx, keep, offered) ==
  IF "stop" \in offered /\ (BankOf(ctx, keep) >= CautiousBankMin \/ DiceAfter(ctx, keep) < CautiousMinDice)
  THEN {"stop"} ELSE FirstOf(<<"roll", "stop", "draw">>, offered)

Risky(ctx, keep, offered) == FirstOf(<<"draw", "roll", "stop">>, offered)
=============================================================================
