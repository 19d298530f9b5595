------------------------------ MODULE MCBoards ------------------------------
(***************************************************************************)
(* Three players compete for at most two places, so that places are lost,  *)
(* won back and lost to a restart with a smaller board; with two scores    *)
(* and two times every kind of tie occurs.                                 *)
(***************************************************************************)
EXTENDS Boards, TLC

CONSTANTS a, b, c

ThreePlayers == {a, b, c}
TwoScores == {1, 2}
TwoTimes == {0, 1}
TwoSizes == {1, 2}
SizesFromZero == 0 .. 2
UpToPastTheEnd == 0 .. 3
Symmetry == Permutations(ThreePlayers)
=============================================================================
