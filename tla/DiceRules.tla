----------------------------- MODULE DiceRules ------------------------------
(***************************************************************************)
(* The rules of the dice, as diceLogic.ts computes them: which rolls bust, *)
(* which selections may be put aside, what they are worth, and the largest *)
(* selection the panel offers.                                             *)
(*                                                                         *)
(* Dice are interchangeable, so a roll and a selection are bags: how many  *)
(* dice show each face.  Points are counted in units of 50.                *)
(***************************************************************************)
EXTENDS Naturals, FiniteSets, Folds

CONSTANTS NFaces,       \* DIE_FACES
          TotalDice,    \* TOTAL_DICE
          MaxChain      \* MAX_CHAIN_CARDS

ASSUME DiceAssumption == NFaces \in Nat \ {0} /\ TotalDice \in Nat \ {0} /\ MaxChain \in Nat

Faces == 1..NFaces
Dice == [Faces -> 0..TotalDice]
Singles == {1, 5} \cap Faces
NoDice == [v \in Faces |-> 0]

Shown(bag) == {v \in Faces : bag[v] > 0}
Within(bag, roll) == \A v \in Faces : bag[v] <= roll[v]
SumOver(bag) == MapThenFoldSet(+, 0, LAMBDA v : bag[v], LAMBDA S : CHOOSE v \in S : TRUE, Faces)
Count(bag) == SumOver(bag)

-----------------------------------------------------------------------------
\* The straight ("Kniffel").  Modernized, it grows from 1 upward or from the
\* top face downward; the progress is the set of faces put aside.
HighestOf(S) == CHOOSE v \in S : \A w \in S : w <= v
LowestOf(S) == CHOOSE v \in S : \A w \in S : v <= w

NextNeeded(progress) ==
  IF progress = {} THEN {1, NFaces}
  ELSE IF 1 \in progress THEN {HighestOf(progress) + 1}
  ELSE {LowestOf(progress) - 1}

Upward(progress, n) == LET from == IF progress = {} THEN 1 ELSE HighestOf(progress) + 1
                       IN from..(from + n - 1)
Downward(progress, n) == LET from == IF progress = {} THEN NFaces ELSE LowestOf(progress) - 1
                         IN (from + 1 - n)..from

\* The runs that may follow: upward from 1, downward from the top.
Runs(progress) ==
  {R \in SUBSET Faces : R # {} /\
     \/ (progress = {} \/ 1 \in progress) /\ R = Upward(progress, Cardinality(R))
     \/ (progress = {} \/ 1 \notin progress) /\ R = Downward(progress, Cardinality(R))}

KniffelBusts(roll, progress, ruleset) ==
  Shown(roll) \cap (IF ruleset = "classic" THEN Faces \ progress ELSE NextNeeded(progress)) = {}

KniffelValid(sel, progress, ruleset) ==
  /\ \A v \in Faces : sel[v] <= 1
  /\ IF ruleset = "classic" THEN Shown(sel) # {} /\ Shown(sel) \cap progress = {}
                            ELSE Shown(sel) \in Runs(progress)

OneEach(S) == [v \in Faces |-> IF v \in S THEN 1 ELSE 0]

\* Classic takes one die of every missing face; modernized the longer run,
\* upward when both are as long.
KniffelLargest(roll, progress, ruleset) ==
  LET fits == {R \in Runs(progress) : R \subseteq Shown(roll)}
      longest == {R \in fits : \A Q \in fits : Cardinality(Q) <= Cardinality(R)}
  IN OneEach(IF ruleset = "classic" THEN Shown(roll) \ progress
             ELSE IF fits = {} THEN {}
             ELSE IF \E R \in longest : 1 \in R THEN CHOOSE R \in longest : 1 \in R
             ELSE CHOOSE R \in longest : TRUE)

-----------------------------------------------------------------------------
\* isBust
Busts(roll, card, progress, ruleset) ==
  IF card = "Kniffel" THEN KniffelBusts(roll, progress, ruleset)
  ELSE Shown(roll) \cap Singles = {} /\ \A v \in Faces : roll[v] < 3

\* checkValidityAndScore: valid
Valid(sel, card, progress, ruleset) ==
  /\ Shown(sel) # {}
  /\ IF card = "Kniffel" THEN KniffelValid(sel, progress, ruleset)
     ELSE \A v \in Faces \ Singles : sel[v] % 3 = 0

\* checkValidityAndScore: score
Points(sel, card) ==
  LET Triple(v) == IF v = 1 THEN 20 ELSE 2 * v
      Single(v) == IF v = 1 THEN 2 ELSE IF v = 5 THEN 1 ELSE 0
      Worth(v) == (sel[v] \div 3) * Triple(v) + (sel[v] % 3) * Single(v)
  IN IF card = "Kniffel" THEN 0 ELSE SumOver([v \in Faces |-> Worth(v)])

\* getMaxValidSelection
Largest(roll, card, progress, ruleset) ==
  IF card = "Kniffel" THEN KniffelLargest(roll, progress, ruleset)
  ELSE [v \in Faces |-> IF v \in Singles THEN roll[v] ELSE 3 * (roll[v] \div 3)]

-----------------------------------------------------------------------------
BonusValue == 4     \* the bonus card of 200 points
Special == {"Kniffel", "Plus_Minus", "Kleeblatt"}

\* applyTuttoBonus
TuttoBonus(card, score) ==
  CASE card = "bonus" -> score + BonusValue [] card = "x2" -> 2 * score [] OTHER -> score

\* fixedCardAward
FixedAward(card) == CASE card = "Kniffel" -> 40 [] card = "Plus_Minus" -> 20 [] OTHER -> 0
=============================================================================
