--------------------------- MODULE MCLeaderboard ---------------------------
(* Two places and one time: a reloaded board, and players that tie. *)
EXTENDS Leaderboard

CONSTANTS a, b, c

ThreePlayers == {a, b, c}
TwoScores == {1, 2}
OneTime == {0}
TwoPlaces == {2}
=============================================================================
