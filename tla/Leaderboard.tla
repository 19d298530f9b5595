---------------------------- MODULE Leaderboard ----------------------------
(***************************************************************************)
(* leaderboard<T>: the entries a board owns, the multiset of pointers that *)
(* ranks them, and the file save() replaces and the constructor loads.     *)
(*                                                                         *)
(* A pointer of `ranking` is the name of the entry it points to.           *)
(* submit_score() stamps an entry with system_clock in seconds: any time,  *)
(* since that clock can be set back.  A later process may open the same    *)
(* file with another max_size.                                             *)
(***************************************************************************)
EXTENDS PersistentBoard

CONSTANTS
    Players,
    Scores,           \* a set of integers
    Times,            \* what system_clock may show
    MaxSizes,         \* the max_size a process may construct the board with,
                      \* which is not 0: the first submission would take
                      \* std::prev(end()) of an empty multiset (line 117)
    HighestFirst,     \* the constructor's highest_first
    MaxId             \* bound of the model on next_id

\* What the types of the constructor's and submit_score()'s parameters say.
ASSUME LeaderboardAssumption ==
    /\ Scores \subseteq Int /\ Times \subseteq Int
    /\ MaxSizes \subseteq Nat \ {0}
    /\ HighestFirst \in BOOLEAN /\ MaxId \in Nat

VARIABLES
    entries,        \* the entry of each player on the board
    ranking,        \* the players, in the multiset's order
    highest_first,  \* the direction in the multiset's comparator
    next_id, max_size,
    returned,       \* the player last placed, and the position reported
    best            \* best score each player has submitted to this board

board == <<entries, ranking, highest_first, next_id, max_size>>
vars == <<board, phase, disk, returned, best>>

Nobody == [player |-> <<>>, placement |-> 0]

Init ==
    /\ DiskInit
    /\ entries = <<>> /\ ranking = <<>> /\ highest_first = HighestFirst
    /\ next_id = 0 /\ max_size \in MaxSizes
    /\ returned = Nobody /\ best = <<>>

-----------------------------------------------------------------------------
(* The order. *)

Better(hf, s, t) == IF hf THEN s > t ELSE s < t

leaderboard_entry_comparator(hf, x, y) ==
    \/ Better(hf, x.score, y.score)
    \/ /\ x.score = y.score
       /\ \/ x.timestamp < y.timestamp
          \/ x.timestamp = y.timestamp /\ x.id < y.id

rank(hf, E, r, p) ==
    insert(r, p, {q \in Range(r) : leaderboard_entry_comparator(hf, E[p], E[q])})

-----------------------------------------------------------------------------
(* submit_score. *)

Running == phase = "idle" /\ next_id < MaxId

NewEntry(score, now) == [score |-> score, timestamp |-> now, id |-> next_id]

\* The comparison with the stored entry: the candidate's timestamp and id are
\* not initialised, so between equal scores the answer is arbitrary.
CandidateBefore(score, p) ==
    IF score = entries[p].score THEN BOOLEAN
    ELSE {Better(highest_first, score, entries[p].score)}

\* An entry of p is stored, and its place is what submit_score returns.
Stored(p, E, r, placement) ==
    /\ entries' = E
    /\ ranking' = r
    /\ next_id' = next_id + 1
    /\ returned' = [player |-> p, placement |-> placement]

\* Fault: the entry gets its new score but keeps its place in the multiset.
Reranked_InPlace(E, p) == ranking

\* The pointer is erased and, with the new score in the entry, inserted.
Reranked(E, p) == rank(highest_first, E, erase(ranking, p), p)

UpdateExisting(p, score, now) ==
    LET E == [entries EXCEPT ![p] = NewEntry(score, now)]
        r == Reranked(E, p)
    IN  /\ p \in DOMAIN entries
        /\ TRUE \in CandidateBefore(score, p)
        /\ Stored(p, E, r, get_index(r, p))

KeepExisting(p, score) ==
    /\ p \in DOMAIN entries
    /\ FALSE \in CandidateBefore(score, p)
    /\ returned' = Nobody
    /\ UNCHANGED <<entries, ranking, next_id>>

RefusedWhenFull(e) ==
    /\ Len(ranking) >= max_size
    /\ ~ leaderboard_entry_comparator(highest_first, e, entries[ranking[Len(ranking)]])

remove_last(r) == IF Len(r) > max_size THEN SubSeq(r, 1, Len(r) - 1) ELSE r

\* The newcomer is ranked, its place noted, and then the last one removed.
AddPlayer(p, score, now) ==
    LET E == emplace(entries, p, NewEntry(score, now))
        r == rank(highest_first, E, ranking, p)
        kept == remove_last(r)
    IN  /\ p \notin DOMAIN entries
        /\ ~ RefusedWhenFull(NewEntry(score, now))
        /\ Stored(p, Restrict(E, Range(kept)), kept, get_index(r, p))

\* A refused newcomer has used up an id.
RefusePlayer(p, score, now) ==
    /\ p \notin DOMAIN entries
    /\ RefusedWhenFull(NewEntry(score, now))
    /\ next_id' = next_id + 1
    /\ returned' = Nobody
    /\ UNCHANGED <<entries, ranking>>

submit_score(p, score, now) ==
    /\ Running
    /\ \/ UpdateExisting(p, score, now)
       \/ KeepExisting(p, score)
       \/ AddPlayer(p, score, now)
       \/ RefusePlayer(p, score, now)
    /\ best' = IF p \in DOMAIN best /\ ~ Better(HighestFirst, score, best[p])
               THEN best ELSE emplace(best, p, score)
    /\ UNCHANGED <<highest_first, max_size, phase, disk>>

-----------------------------------------------------------------------------
(* save and load. *)

Items(r) ==
    [i \in DOMAIN r |-> [name |-> r[i], score |-> entries[r[i]].score,
                         timestamp |-> entries[r[i]].timestamp]]

save == Save(Items(ranking)) /\ UNCHANGED <<board, returned, best>>

Gone ==
    /\ Dies
    /\ entries' = <<>> /\ ranking' = <<>>
    /\ highest_first' = HighestFirst /\ next_id' = 0
    /\ returned' = Nobody /\ best' = <<>>
    /\ UNCHANGED max_size

\* load() ranks the items it reads in a default-constructed multiset, whose
\* comparator moves into `ranking` with its contents.
load(size) ==
    LET items == Loaded(size)
        at == [i \in DOMAIN items |-> items[i].name]
        E == [p \in Range(at) |->
                LET i == Position(at, p)
                IN  [score |-> items[i].score, timestamp |-> items[i].timestamp,
                     id |-> i - 1]]
        ranked[i \in 0 .. Len(at)] ==
            IF i = 0 THEN <<>> ELSE rank(TRUE, E, ranked[i - 1], at[i])
    IN  /\ entries' = E
        /\ ranking' = ranked[Len(at)]
        /\ highest_first' = TRUE
        /\ next_id' = Len(items)

Construct(size) ==
    /\ phase = "down"
    /\ phase' = "idle"
    /\ max_size' = size
    /\ IF file.state = "complete"
       THEN load(size)
       ELSE UNCHANGED <<entries, ranking, highest_first, next_id>>
    /\ best' = [p \in {file.items[i].name : i \in DOMAIN file.items} |->
                  (CHOOSE x \in Range(file.items) : x.name = p).score]
    /\ UNCHANGED <<disk, returned>>

Next ==
    \/ \E p \in Players, score \in Scores, now \in Times : submit_score(p, score, now)
    \/ save \/ Gone
    \/ \E size \in MaxSizes : Construct(size)

Spec == Init /\ [][Next]_vars

-----------------------------------------------------------------------------
(* The queries. *)

get_top_scores(count) == FirstOf(ranking, count)
get_bottom_scores(count) == FirstOf(Reversed(ranking), count)

get_range_from_top(start, end) == Between(ranking, start, end)
get_range_from_bottom(start, end) == Between(Reversed(ranking), start, end)

-----------------------------------------------------------------------------
(* Properties. *)

\* The multiset holds one pointer to each entry the map owns and none to an
\* entry that is gone, in the order of its comparator, although scores change
\* under it: what every iterator kept in ranking_position relies on.  The
\* board never has more than max_size players.
RankingMatchesEntries ==
    /\ IsInjective(ranking) /\ Len(ranking) <= max_size
    /\ Range(ranking) = DOMAIN entries
    /\ \A i, j \in DOMAIN ranking : i < j =>
          leaderboard_entry_comparator(highest_first, entries[ranking[i]], entries[ranking[j]])

\* submit_score returns the position the player has once the call is over,
\* also when placing the player pushed another one off the board.
PlacementReported ==
    returned # Nobody => /\ returned.placement < Len(ranking)
                         /\ ranking[returned.placement + 1] = returned.player

\* The board shows each player's best score, and a player is missing only from
\* a full board on which nobody is worse: through updates, evictions, clocks
\* set back, and restarts with a smaller board.
BestScoresKept ==
    phase # "down" =>
        \A p \in DOMAIN best :
            \/ p \in DOMAIN entries /\ entries[p].score = best[p]
            \/ /\ p \notin DOMAIN entries
               /\ Len(ranking) = max_size
               /\ \A q \in DOMAIN entries :
                     ~ Better(HighestFirst, best[p], entries[q].score)

\* A board constructed on the file starts with the ranking of the last save()
\* that replaced it, ties included, cut to its max_size: whatever save() the
\* process died in or failed at in between.
ReloadRestoresRanking ==
    [][phase = "down" => Items(ranking)' = FirstOf(saved, max_size')]_vars

\* The queries by index, from either end: consecutive pages fit together, and a
\* long enough one is the whole board.
PagesCover(Indices) ==
    /\ PagesFit(get_range_from_top, get_top_scores, Indices)
    /\ PagesFit(get_range_from_bottom, get_bottom_scores, Indices)
    /\ \A n \in Indices : n >= Len(ranking) => get_top_scores(n) = ranking

\* The constructor's comment: "@param highest_first Sort direction."  The board
\* lists scores in the direction it was constructed with.
SortDirection ==
    \A i, j \in DOMAIN ranking : i < j =>
        ~ Better(HighestFirst, entries[ranking[j]].score, entries[ranking[i]].score)

\* The class comment: "Existing players are updated only when the new score
\* improves their ranking."  No update moves the player down.
UpdatesImproveRanking ==
    [][\A p \in DOMAIN entries \cap DOMAIN entries' :
        entries'[p] # entries[p] => get_index(ranking', p) <= get_index(ranking, p)]_vars
=============================================================================
