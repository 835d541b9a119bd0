--------------------------- MODULE MCStatsSubmission ---------------------------
(* Two devices, two games: either may be host, one submits a row of its own;  *)
(* either can be away, and the room go on to a rematch while submissions and  *)
(* writes of the first game are under way.                                    *)
EXTENDS StatsSubmission

CONSTANTS d1, d2

Turns == <<d1, d2>>
OneAtATime == {{"own"}, {"global"}}
=============================================================================
