--------------------------- MODULE PersistentBoard ---------------------------
(***************************************************************************)
(* What leaderboard, nameboard and score_stream have in common: the file   *)
(* that save() replaces and the constructor loads.                         *)
(*                                                                         *)
(* A board has no lock and is used by one thread at a time, so the steps   *)
(* of save() interleave only with the death of the process.                *)
(***************************************************************************)
EXTENDS BoardSequences

VARIABLES
    phase,          \* "down", "idle", or how far save() has got
    file, tmp,      \* file_path and file_path.tmp
    saved           \* the items at the last rename

disk == <<file, tmp, saved>>

NoFile == [state |-> "absent", items |-> <<>>]
Truncated == [state |-> "partial", items |-> <<>>]

DiskInit == phase = "down" /\ file = NoFile /\ tmp = NoFile /\ saved = <<>>

-----------------------------------------------------------------------------
(* save(): the given items are put into the file. *)

\* The std::ofstream is opened with trunc; save() returns false if it cannot be.
SaveOpen ==
    /\ phase = "idle"
    /\ phase' = "opened"
    /\ tmp' = Truncated
    /\ UNCHANGED <<file, saved>>

SaveWrite(items) ==
    /\ phase = "opened"
    /\ phase' = "written"
    /\ tmp' = [state |-> "complete", items |-> items]
    /\ UNCHANGED <<file, saved>>

\* dump() throws and the temporary file is removed, or flush() fails and it is
\* left behind; false is returned either way.
SaveWriteFails ==
    /\ phase = "opened"
    /\ phase' = "idle"
    /\ tmp' \in {NoFile, tmp}
    /\ UNCHANGED <<file, saved>>

\* Fault: rename before the data is in the temporary file.
SaveRename_BeforeWrite(items) ==
    /\ phase = "opened"
    /\ phase' = "idle"
    /\ file' = tmp
    /\ tmp' = NoFile
    /\ saved' = items

SaveRename(items) ==
    /\ phase = "written"
    /\ phase' = "idle"
    /\ file' = tmp
    /\ tmp' = NoFile
    /\ saved' = items

\* rename() throws: the temporary file is removed, if it can be.
SaveRenameFails ==
    /\ phase = "written"
    /\ phase' = "idle"
    /\ tmp' \in {NoFile, tmp}
    /\ UNCHANGED <<file, saved>>

Save(items) ==
    \/ SaveOpen \/ SaveWrite(items) \/ SaveWriteFails
    \/ SaveRename(items) \/ SaveRenameFails

\* The board is destroyed, or its process dies; nothing is saved then.
Dies ==
    /\ phase # "down"
    /\ phase' = "down"
    /\ UNCHANGED disk

\* Fault: the items are read from the end of the file.
Loaded_Last(size) ==
    LET n == Len(file.items) IN SubSeq(file.items, n - Least(size, n) + 1, n)

\* The items load() keeps: it stops reading after max_size of them.
Loaded(size) == FirstOf(file.items, size)
=============================================================================
