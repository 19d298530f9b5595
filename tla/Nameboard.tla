----------------------------- MODULE Nameboard -----------------------------
(***************************************************************************)
(* nameboard: a list of unique names, ranked by the time they were added.  *)
(* A pointer of `ranking` is the name of the entry it points to.           *)
(* add_name() stamps an entry with system_clock in seconds: any time,      *)
(* since that clock can be set back.                                       *)
(***************************************************************************)
EXTENDS PersistentBoard

CONSTANTS
    Names,
    Times,      \* what system_clock may show
    MaxSizes,   \* the max_size a process may construct the board with
    MaxId       \* bound of the model on next_id

\* What the types of the constructor's parameter and of the clock say.
WellTyped == Times \subseteq Int /\ MaxSizes \subseteq Nat /\ MaxId \in Nat

VARIABLES
    entries,    \* the entry of each name on the board
    ranking,    \* the names, in the multiset's order
    next_id, max_size,
    returned,   \* the name last placed, and the position reported
    added       \* every entry the board has had since it was constructed

board == <<entries, ranking, next_id, max_size>>
vars == <<board, phase, disk, returned, added>>

Nobody == [name |-> <<>>, index |-> 0]

Init ==
    /\ DiskInit
    /\ entries = <<>> /\ ranking = <<>> /\ next_id = 0 /\ max_size \in MaxSizes
    /\ returned = Nobody /\ added = {}

entry_ptr_comparator(x, y) ==
    \/ x.timestamp < y.timestamp
    \/ x.timestamp = y.timestamp /\ x.id < y.id

rank(E, r, n) == insert(r, n, {q \in Range(r) : entry_ptr_comparator(E[n], E[q])})

\* What the board has of a name.
Shown(E, n) == [name |-> n, timestamp |-> E[n].timestamp, id |-> E[n].id]

-----------------------------------------------------------------------------
(* add_name. *)

KnownName(n) ==
    /\ n \in DOMAIN entries
    /\ returned' = Nobody
    /\ UNCHANGED <<entries, ranking, next_id, added>>

\* Fault: the first entry of the list goes, not the first of the ranking.
Oldest_FirstAdded(E, r) ==
    CHOOSE n \in Range(r) : \A q \in Range(r) : E[n].id <= E[q].id

Oldest(E, r) == Head(r)

\* Fault: the evicted entry stays in the list.
Owned_All(E, oldest) == E

\* The entries left in the list.
Owned(E, oldest) == Restrict(E, DOMAIN E \ {oldest})

\* The new entry is ranked and its index noted, and then the oldest removed,
\* which may be the new one; it has a place to report only if it is not.
NewName(n, now) ==
    LET e == [timestamp |-> now, id |-> next_id]
        E == emplace(entries, n, e)
        r == rank(E, ranking, n)
        oldest == Oldest(E, r)
        placed == [name |-> n, index |-> get_index(r, n)]
    IN  /\ n \notin DOMAIN entries
        /\ IF Len(r) > max_size
           THEN /\ entries' = Owned(E, oldest)
                /\ ranking' = erase(r, oldest)
                /\ returned' = IF oldest = n THEN Nobody ELSE placed
           ELSE entries' = E /\ ranking' = r /\ returned' = placed
        /\ next_id' = next_id + 1
        /\ added' = added \cup {Shown(E, n)}

add_name(n, now) ==
    /\ phase = "idle" /\ next_id < MaxId
    /\ KnownName(n) \/ NewName(n, now)
    /\ UNCHANGED <<max_size, phase, disk>>

-----------------------------------------------------------------------------
(* save and load. *)

Items(r) == [i \in DOMAIN r |-> [name |-> r[i], timestamp |-> entries[r[i]].timestamp]]

save == Save(Items(ranking)) /\ UNCHANGED <<board, returned, added>>

Gone ==
    /\ Dies
    /\ entries' = <<>> /\ ranking' = <<>> /\ next_id' = 0
    /\ returned' = Nobody /\ added' = {}
    /\ UNCHANGED max_size

load(size) ==
    LET items == Loaded(size)
        at == [i \in DOMAIN items |-> items[i].name]
        E == [n \in Range(at) |-> [timestamp |-> items[Position(at, n)].timestamp,
                                   id |-> get_index(at, n)]]
        ranked[i \in 0 .. Len(at)] ==
            IF i = 0 THEN <<>> ELSE rank(E, ranked[i - 1], at[i])
    IN  /\ entries' = E
        /\ ranking' = ranked[Len(at)]
        /\ next_id' = Len(items)
        /\ added' = {Shown(E, n) : n \in DOMAIN E}

Construct(size) ==
    /\ phase = "down"
    /\ phase' = "idle"
    /\ max_size' = size
    /\ IF file.state = "complete"
       THEN load(size)
       ELSE UNCHANGED <<entries, ranking, next_id, added>>
    /\ UNCHANGED <<disk, returned>>

Next ==
    \/ \E n \in Names, now \in Times : add_name(n, now)
    \/ save \/ Gone
    \/ \E size \in MaxSizes : Construct(size)

Spec == Init /\ [][Next]_vars

-----------------------------------------------------------------------------
(* The queries. *)

get_all == ranking
get_from_first(amount) == FirstOf(ranking, amount)
get_from_last(amount) == FirstOf(Reversed(ranking), amount)

get_in_range_from_top(start, end) == Between(ranking, start, end)
get_in_range_from_bottom(start, end) == Between(Reversed(ranking), start, end)

-----------------------------------------------------------------------------
(* Properties. *)

\* The multiset holds one pointer to each entry of the list and none to an
\* entry that is gone, in the order of its comparator, so that contains(), which
\* reads the list, and the queries, which read the multiset, agree; and the
\* board never has more than max_size names.
ListMatchesRanking ==
    /\ IsInjective(ranking) /\ Len(ranking) <= max_size
    /\ Range(ranking) = DOMAIN entries
    /\ \A i, j \in DOMAIN ranking : i < j =>
          entry_ptr_comparator(entries[ranking[i]], entries[ranking[j]])

\* Of all the entries it has had, the board shows the latest by their time, and
\* all of them unless it is full: through evictions, names added again, and a
\* clock that is set back.  "New unique names are appended at the end" then does
\* not hold: a full board drops the new name at once, for which add_name returns
\* nullopt as for a name it has, and one with room lists it where its time puts
\* it.
LatestNamesKept ==
    LET shown == {Shown(entries, n) : n \in DOMAIN entries}
    IN  /\ shown \subseteq added
        /\ shown = added \/ Len(ranking) = max_size
        /\ \A x \in added \ shown, y \in shown : entry_ptr_comparator(x, y)

\* A board constructed on the file lists the names of the last save() that
\* replaced it in the same order, whatever save() the process died in or failed
\* at in between.  A board smaller than the one that saved them keeps the first
\* max_size of them, which are the oldest.
ReloadRestoresNames ==
    phase = "down" =>
        Items(ranking)' = FirstOf(saved, max_size')

\* The queries by index, from either end: consecutive pages fit together, and a
\* long enough one is the whole board.
PagesCover(Indices) ==
    /\ PagesFit(get_in_range_from_top, get_from_first, Indices)
    /\ PagesFit(get_in_range_from_bottom, get_from_last, Indices)
    /\ \A n \in Indices : n >= Len(ranking) => get_from_first(n) = get_all

\* add_name()'s comment: "@return Ranking position".  The position is the one
\* the name has when the call is over.
PositionReported ==
    returned # Nobody => get_index(ranking, returned.name) = returned.index
=============================================================================
