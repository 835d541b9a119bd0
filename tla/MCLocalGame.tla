----------------------------- MODULE MCLocalGame -----------------------------
(* Two players and one deck of seven cards in three orders, so that within    *)
(* three cards a chain can meet Plus/Minus twice, a doubler, a Feuerwerk, a   *)
(* Kniffel and a Kleeblatt, and a Stop can come first, in between or last.    *)
EXTENDS LocalGame, TLC

CONSTANTS p1, p2

MCDecks == {<<"Plus_Minus", "x2", "Stop", "Plus_Minus", "Kniffel", "Feuerwerk", "Kleeblatt">>,
            <<"x2", "Kniffel", "Kleeblatt", "Feuerwerk", "Plus_Minus", "Stop", "Plus_Minus">>,
            <<"Stop", "Feuerwerk", "x2", "Plus_Minus", "Plus_Minus", "Kleeblatt", "Kniffel">>}
RosterSymmetry == Permutations(Roster)
=============================================================================
