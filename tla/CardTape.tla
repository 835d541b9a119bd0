------------------------------ MODULE CardTape ------------------------------
(***************************************************************************)
(* What the room's deck promises its players.                              *)
(*                                                                         *)
(* The cards of a game are one tape.  Two cuts divide it: the first `last` *)
(* cards were dealt to the turn that has just ended, the next `now` cards  *)
(* to the turn in progress, the rest is face down.  Play only ever moves   *)
(* the cuts: a hand-over forgets the turn before the last one, a draw      *)
(* takes one more card, an undo moves the cuts back, and the cards come    *)
(* again in the order they came before.  The tape itself changes only at   *)
(* its far end, when an exhausted deck is rebuilt.                         *)
(***************************************************************************)
EXTENDS Naturals, Sequences

CONSTANT Decks      \* every order a freshly built deck can have

VARIABLES tape,     \* the cards from the start of the last turn on
          last,     \* how many of them the last turn was dealt
          now       \* how many of them the turn in progress was dealt

tapeVars == <<tape, last, now>>

\* The tapes a deal may take its card from: a fresh deck is appended only when
\* every card is face up.
Supply == IF last + now < Len(tape) THEN {tape} ELSE {tape \o deck : deck \in Decks}

TapeInit == tape = <<>> /\ last = 0 /\ now = 0

\* A game begins on a new deck.
Kickoff == /\ tape' \in Decks
           /\ last' = 0
           /\ now' = 1

\* The turn passes on: what was "now" can be undone, what was "last" cannot.
Open == /\ now > 0
        /\ \E t \in Supply : tape' = SubSeq(t, last + 1, Len(t))
        /\ last' = now
        /\ now' = 1

\* The turn in progress reveals one more card.
Draw == /\ now > 0
        /\ tape' \in Supply
        /\ last' = last
        /\ now' = now + 1

\* The last turn is undone: its opening card is in play again.
TakeBack == /\ last > 0
            /\ tape' = tape
            /\ last' = 0
            /\ now' = 1

Clear == tape' = <<>> /\ last' = 0 /\ now' = 0

TapeNext == Kickoff \/ Open \/ Draw \/ TakeBack \/ Clear

TapeSpec == TapeInit /\ [][TapeNext]_tapeVars
=============================================================================
