----------------------------- MODULE MCRoomGame -----------------------------
(***************************************************************************)
(* Small rooms for TLC: two or three devices, decks of two or three cards. *)
(***************************************************************************)
EXTENDS RoomGame

CONSTANTS p1, p2, p3, d1, d2

Plain == "200"
MCCard == {Plain, "x2", "Stop", "Kleeblatt"}
TwoPlayers == {p1, p2}
ThreePlayers == {p1, p2, p3}
OneDraw == {d1}
TwoDraws == {d1, d2}
MCTokens == 1..5
FewTokens == 1..4

\* Orders of one small deck.  Two draws run over its end, a chain card leads to
\* each kind of turn-ending card, and each is also dealt as an opening card.
SeatDecks == {<<Plain, "Stop">>, <<"Stop", Plain>>}
DrawDeck == {<<"x2", "Kleeblatt">>}

SeatSymmetry == Permutations(Player)
=============================================================================
