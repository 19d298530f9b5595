------------------------------- MODULE Boards -------------------------------
(***************************************************************************)
(* A program keeps one board, of any of the three classes, in a file.  The *)
(* variables of a board it does not use stay as they are.                  *)
(***************************************************************************)
EXTENDS Leaderboard, TimedBoards

CONSTANT Indices    \* the indices that queries are called with

ASSUME IndexAssumption == Indices \subseteq Nat

AnyOf(sizes) == CHOOSE size \in sizes : TRUE

BoardInit ==
    /\ Init
    /\ \/ /\ kind = "leaderboard"
          /\ N!Init /\ t_max_size = AnyOf(Capacities) /\ submitted = 0
       \/ TimedInit /\ max_size = AnyOf(MaxSizes)

BoardNext ==
    \/ kind = "leaderboard" /\ Next /\ UNCHANGED timedVars
    \/ TimedNext /\ UNCHANGED vars

BoardSpec == BoardInit /\ [][BoardNext]_<<vars, timedVars>>

\* Pages fit together: of two consecutive ranges, counted from either end, the
\* second starts where the first one stops, up to a range past the end; the
\* ranges from 0 are what the queries for the first and the last entries return,
\* and a long enough one is the whole board.
PagesCoverBoard ==
    CASE kind = "leaderboard" -> PagesCover(Indices)
      [] kind = "nameboard" -> N!PagesCover(Indices)
      [] kind = "score_stream" -> D!PagesCover(Indices)
=============================================================================
