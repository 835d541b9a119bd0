------------------------------ MODULE MCBotTurn ------------------------------
(* Bots at a table of three dice with three faces.  Otto's seats close the    *)
(* round: one bank from a win, behind a leader a Plus/Minus would reach, and  *)
(* level with one.                                                            *)
EXTENDS BotTurn

Standing(mine, others, winning) ==
  [mine |-> mine, others |-> others, winning |-> winning, endgame |-> TRUE]

Seats == {Standing(1000, <<1200>>, 2000), Standing(500, <<2000>>, 2000), Standing(1000, <<2100, 2100>>, 2000)}
Stakes == [mine : {0}, others : {<<0>>}, winning : {2000}, endgame : {FALSE}]
Bot(personality, standing, deck) ==
  [personality |-> personality, deck |-> deck, mine |-> standing.mine, others |-> standing.others,
   winning |-> standing.winning, endgame |-> standing.endgame]

MCBots == {Bot(p, s, Cards) : p \in {"cautious", "risky"}, s \in Stakes}
          \cup {Bot("optimal", s, d) : s \in Seats, d \in {{}, Cards}}
=============================================================================
