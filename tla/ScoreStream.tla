---------------------------- MODULE ScoreStream ----------------------------
(***************************************************************************)
(* score_stream<T>: the latest max_size scores, the newest first.  A score *)
(* is left as it is between submit_score(), the file and the queries, so   *)
(* an entry is its name, its time and its id.                              *)
(***************************************************************************)
EXTENDS PersistentBoard

CONSTANTS
    Names,
    Times,            \* what system_clock may show
    MaxSizes,         \* the max_size a process may construct the stream with
    MaxSubmissions    \* bound of the model on the scores of one process

\* What the types of the constructor's parameter and of the clock say.
WellTyped == Times \subseteq Int /\ MaxSizes \subseteq Nat /\ MaxSubmissions \in Nat

VARIABLES
    entries,
    next_id, max_size,
    submitted         \* the scores submitted since the stream was constructed

stream == <<entries, next_id, max_size>>
vars == <<stream, phase, disk, submitted>>

Init ==
    /\ DiskInit
    /\ entries = <<>> /\ next_id = 0 /\ max_size \in MaxSizes
    /\ submitted = 0

\* pop_back() while there are more than max_size entries.
Popped(s) == FirstOf(s, max_size)

\* next_id stays as it is: the entries of one process share their id.
submit_score(n, now) ==
    /\ phase = "idle" /\ submitted < MaxSubmissions
    /\ entries' = Popped(<<[name |-> n, timestamp |-> now, id |-> next_id]>> \o entries)
    /\ submitted' = submitted + 1
    /\ UNCHANGED <<next_id, max_size, phase, disk>>

-----------------------------------------------------------------------------
(* save and load. *)

Listed(s) == [i \in DOMAIN s |-> [name |-> s[i].name, timestamp |-> s[i].timestamp]]

\* The file lists the entries from the oldest to the newest.
save == Save(Reversed(Listed(entries))) /\ UNCHANGED <<stream, submitted>>

Gone ==
    /\ Dies
    /\ entries' = <<>> /\ next_id' = 0 /\ submitted' = 0
    /\ UNCHANGED max_size

\* Fault: push_back for push_front.
load_PushesBack(size) ==
    LET items == Loaded(size)
    IN  /\ entries' = [i \in DOMAIN items |->
                         [name |-> items[i].name, timestamp |-> items[i].timestamp, id |-> i - 1]]
        /\ next_id' = Len(items)

\* push_front() of each item that is read.
load(size) ==
    LET items == Loaded(size)
    IN  /\ entries' = Reversed([i \in DOMAIN items |->
                         [name |-> items[i].name, timestamp |-> items[i].timestamp, id |-> i - 1]])
        /\ next_id' = Len(items)

Construct(size) ==
    /\ phase = "down"
    /\ phase' = "idle"
    /\ max_size' = size
    /\ IF file.state = "complete" THEN load(size) ELSE UNCHANGED <<entries, next_id>>
    /\ UNCHANGED <<disk, submitted>>

Next ==
    \/ \E n \in Names, now \in Times : submit_score(n, now)
    \/ save \/ Gone
    \/ \E size \in MaxSizes : Construct(size)

Spec == Init /\ [][Next]_vars

-----------------------------------------------------------------------------
(* The queries.  A range from the bottom is in stream order, too. *)

get_all == entries
get_from_first(amount) ==
    IF amount < Len(get_all) THEN SubSeq(get_all, 1, amount) ELSE get_all

get_in_range_from_top(start, end) == Between(entries, start, end)

\* The indices from the bottom are converted to indices from the top.
get_in_range_from_bottom(start, end) ==
    LET size == Len(entries)
        bottom_start == size - Least(end, size)
        bottom_end == size - start
    IN  IF start >= size \/ start >= end THEN <<>>
        ELSE SubSeq(entries, bottom_start + 1, bottom_end)

-----------------------------------------------------------------------------
(* Properties. *)

\* A stream constructed on the file has the scores of the last save() that
\* replaced it, the newest first, and of these the oldest max_size: whatever
\* save() the process died in or failed at in between.  A stream that is smaller
\* than the one that saved the file so leaves out the most recent scores.
ReloadRestoresStream ==
    phase = "down" =>
        Listed(entries)' = Reversed(FirstOf(saved, max_size'))

\* The queries by index, from either end: consecutive pages fit together, those
\* from the bottom from right to left, and a long enough one is the whole stream.
PagesCover(Indices) ==
    /\ PagesFit(get_in_range_from_top, get_from_first, Indices)
    /\ \A from, to \in Indices : \A mid \in from .. to :
          get_in_range_from_bottom(mid, to) \o get_in_range_from_bottom(from, mid)
          = get_in_range_from_bottom(from, to)
    /\ \A n \in Indices : n >= Len(entries) => get_from_first(n) = get_all
=============================================================================
