----------------------------- MODULE MCTurnClock -----------------------------
(* Three seats, turns of one or two seconds, a chain longer than its budget.  *)
EXTENDS TurnClock
=============================================================================
