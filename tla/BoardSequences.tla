--------------------------- MODULE BoardSequences ---------------------------
(***************************************************************************)
(* The multiset of pointers that orders the entries of a leaderboard or a  *)
(* nameboard, as the sequence it iterates over, and the queries by which   *)
(* all boards are read.                                                    *)
(***************************************************************************)
EXTENDS Integers, Sequences, Functions

\* std::min.
Least(m, n) == IF m <= n THEN m ELSE n

\* The first n elements, or all of them if they are fewer.
FirstOf(s, n) == SubSeq(s, 1, Least(n, Len(s)))

\* The number of elements up to the first that is in `after`.
upper_bound(r, after) ==
    CHOOSE n \in 0 .. Len(r) :
        /\ \A i \in 1 .. n : r[i] \notin after
        /\ n < Len(r) => r[n + 1] \in after

\* std::multiset::insert: at the first of the elements that p is before.
insert(r, p, after) ==
    LET n == upper_bound(r, after)
    IN  SubSeq(r, 1, n) \o <<p>> \o SubSeq(r, n + 1, Len(r))

Position(r, p) == CHOOSE i \in DOMAIN r : r[i] = p

\* std::multiset::erase of the iterator at p.
erase(r, p) ==
    LET i == Position(r, p) IN SubSeq(r, 1, i - 1) \o SubSeq(r, i + 1, Len(r))

\* The element e becomes the one that f has for p.
emplace(f, p, e) == [q \in DOMAIN f \cup {p} |-> IF q = p THEN e ELSE f[q]]

\* From rbegin() to rend().
Reversed(s) == [i \in 1 .. Len(s) |-> s[Len(s) - i + 1]]

\* Fault: positions counted from one.
get_index_FromOne(r, p) == Position(r, p)

get_index(r, p) == Position(r, p) - 1

\* Fault: the end of the range is taken for its last index.
Between_Inclusive(r, start, end) ==
    IF start >= Len(r) \/ start > end THEN <<>>
    ELSE SubSeq(r, start + 1, Least(end + 1, Len(r)))

\* The elements with the indices from start up to end, exclusive.
Between(r, start, end) ==
    IF start >= Len(r) \/ start > end THEN <<>>
    ELSE SubSeq(r, start + 1, Least(end, Len(r)))

\* Of two consecutive pages the second starts where the first one stops, up to
\* a page past the end, and the pages from 0 are those of the other query.
PagesFit(Page(_, _), FromStart(_), Indices) ==
    /\ \A from, to \in Indices : \A mid \in from .. to :
          Page(from, mid) \o Page(mid, to) = Page(from, to)
    /\ \A n \in Indices : FromStart(n) = Page(0, n)
=============================================================================
