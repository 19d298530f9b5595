---------------------------- MODULE TimedBoards ----------------------------
(***************************************************************************)
(* A program keeps one of the boards that are in the order of time, a      *)
(* nameboard or a score_stream, in a file.                                 *)
(***************************************************************************)
CONSTANTS
    Names,
    Clock,            \* what system_clock may show
    Capacities,       \* the max_size a process may construct the board with
    MaxEntries        \* bound of the model on the entries of one process

VARIABLES
    kind,             \* the class of the board
    t_phase, t_file, t_tmp, t_saved,
    t_entries, t_ranking, t_next_id, t_max_size, t_returned,
    added, submitted

N == INSTANCE Nameboard
     WITH Times <- Clock, MaxSizes <- Capacities, MaxId <- MaxEntries,
          phase <- t_phase, file <- t_file, tmp <- t_tmp, saved <- t_saved,
          entries <- t_entries, ranking <- t_ranking, next_id <- t_next_id,
          max_size <- t_max_size, returned <- t_returned

D == INSTANCE ScoreStream
     WITH Times <- Clock, MaxSizes <- Capacities, MaxSubmissions <- MaxEntries,
          phase <- t_phase, file <- t_file, tmp <- t_tmp, saved <- t_saved,
          entries <- t_entries, next_id <- t_next_id, max_size <- t_max_size

ASSUME TimedAssumption == N!WellTyped /\ D!WellTyped

timedVars ==
    <<kind, t_phase, t_file, t_tmp, t_saved, t_entries, t_ranking, t_next_id,
      t_max_size, t_returned, added, submitted>>

TimedInit ==
    \/ kind = "nameboard" /\ N!Init /\ submitted = 0
    \/ /\ kind = "score_stream" /\ D!Init
       /\ t_ranking = <<>> /\ t_returned = N!Nobody /\ added = {}

TimedNext ==
    /\ \/ kind = "nameboard" /\ N!Next /\ UNCHANGED submitted
       \/ kind = "score_stream" /\ D!Next /\ UNCHANGED <<t_ranking, t_returned, added>>
    /\ UNCHANGED kind

TimedSpec == TimedInit /\ [][TimedNext]_timedVars

-----------------------------------------------------------------------------
(* What the two modules state of their boards. *)

\* The list and the multiset of a nameboard agree through evictions.
ListMatchesRanking == kind = "nameboard" => N!ListMatchesRanking

\* A nameboard shows the latest of the names it has had.
LatestNamesKept == kind = "nameboard" => N!LatestNamesKept

\* A nameboard constructed on the file lists the names of the last save() that
\* replaced it, in the same order.
ReloadRestoresNames == [][kind = "nameboard" => N!ReloadRestoresNames]_timedVars

\* A score_stream constructed on the file has the scores of the last save() that
\* replaced it, the newest first.
ReloadRestoresStream == [][kind = "score_stream" => D!ReloadRestoresStream]_timedVars
=============================================================================
