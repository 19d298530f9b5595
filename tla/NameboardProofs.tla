-------------------------- MODULE NameboardProofs --------------------------
(***************************************************************************)
(* Proofs about nameboard and, as the file is the same, score_stream, for  *)
(* any names, times and sizes: the multiset and the list of a nameboard    *)
(* agree, it shows the latest of the names it was given, and either class  *)
(* is restored from its file, through evictions, failed saves and          *)
(* restarts.                                                               *)
(***************************************************************************)
EXTENDS TimedBoards, SequenceLemmas

-----------------------------------------------------------------------------
(* The order of the multiset, as a set of pairs. *)

Order(E, X) == {d \in X \X X : N!entry_ptr_comparator(E[d[1]], E[d[2]])}

Entry == [timestamp : Int, id : Nat]

\* E is the list of the entries of the names X, whose ids are different.
Owns(E, X) ==
    /\ X \subseteq Names /\ E \in [X -> Entry]
    /\ \A p, q \in X : E[p].id = E[q].id => p = q

(***************************************************************************)
(* The times and ids that entry_ptr_comparator compares are integers.      *)
(***************************************************************************)
LEMMA EntryTypes ==
    ASSUME NEW e \in Entry
    PROVE  e.timestamp \in Int /\ e.id \in Int
BY DEF Entry

(***************************************************************************)
(* entry_ptr_comparator is a strict order, and total on entries with       *)
(* different ids.                                                          *)
(***************************************************************************)
LEMMA ComparatorOrders ==
    ASSUME NEW x \in Entry, NEW y \in Entry, NEW z \in Entry
    PROVE  /\ ~ N!entry_ptr_comparator(x, x)
           /\ N!entry_ptr_comparator(x, y) /\ N!entry_ptr_comparator(y, z)
              => N!entry_ptr_comparator(x, z)
           /\ x.id # y.id => \/ N!entry_ptr_comparator(x, y)
                             \/ N!entry_ptr_comparator(y, x)
<1>1. x.timestamp \in Int /\ x.id \in Int
  BY EntryTypes
<1>2. y.timestamp \in Int /\ y.id \in Int
  BY EntryTypes
<1>3. z.timestamp \in Int /\ z.id \in Int
  BY EntryTypes
<1>4. N!entry_ptr_comparator(x, y) /\ N!entry_ptr_comparator(y, z)
      => N!entry_ptr_comparator(x, z)
  BY <1>1, <1>2, <1>3 DEF N!entry_ptr_comparator
<1>5. x.id # y.id => \/ N!entry_ptr_comparator(x, y)
                     \/ N!entry_ptr_comparator(y, x)
  BY <1>1, <1>2 DEF N!entry_ptr_comparator
<1>6. ~ N!entry_ptr_comparator(x, x)
  BY <1>1 DEF N!entry_ptr_comparator
<1> QED BY <1>4, <1>5, <1>6

(***************************************************************************)
(* So the multiset of a nameboard has a strict total order.                *)
(***************************************************************************)
LEMMA OrderIsOrder ==
    ASSUME NEW X, NEW E, Owns(E, X)
    PROVE  IsOrder(Order(E, X), X)
<1>1. \A x, y \in X : <<x, y>> \in Order(E, X)
                        <=> N!entry_ptr_comparator(E[x], E[y])
  BY DEF Order
<1>2. \A x \in X : E[x] \in Entry
  BY DEF Owns
<1>3. \A x, y \in X : x # y => E[x].id # E[y].id
  BY DEF Owns
<1>4. \A x \in X : <<x, x>> \notin Order(E, X)
  BY <1>1, <1>2, ComparatorOrders
<1>5. ASSUME NEW x \in X, NEW y \in X, NEW z \in X,
             <<x, y>> \in Order(E, X), <<y, z>> \in Order(E, X)
      PROVE  <<x, z>> \in Order(E, X)
  BY <1>1, <1>2, <1>5, ComparatorOrders
<1>6. ASSUME NEW x \in X, NEW y \in X, x # y
      PROVE  <<x, y>> \in Order(E, X) \/ <<y, x>> \in Order(E, X)
  BY <1>1, <1>2, <1>3, <1>6, ComparatorOrders
<1> QED BY <1>4, <1>5, <1>6 DEF IsOrder

(***************************************************************************)
(* An order depends on the entries of the elements only.                   *)
(***************************************************************************)
LEMMA SortedTransfer ==
    ASSUME NEW E, NEW X, NEW F, NEW W, NEW Z, Z \subseteq W,
           \A z \in Z : F[z] = E[z],
           NEW r \in Seq(Z), Sorted(r, Order(E, X))
    PROVE  Sorted(r, Order(F, W))
<1>1. \A i \in 1 .. Len(r) : r[i] \in Z
  BY ElementOfSeq
<1> SUFFICES ASSUME NEW i \in 1 .. Len(r), NEW j \in 1 .. Len(r), i < j
             PROVE  <<r[i], r[j]>> \in Order(F, W)
  BY DEF Sorted
<1>2. <<r[i], r[j]>> \in Order(E, X)
  BY DEF Sorted
<1>3. N!entry_ptr_comparator(E[r[i]], E[r[j]])
  BY <1>2 DEF Order
<1>4. r[i] \in W /\ r[j] \in W /\ F[r[i]] = E[r[i]] /\ F[r[j]] = E[r[j]]
  BY <1>1
<1> QED BY <1>3, <1>4 DEF Order

(***************************************************************************)
(* A nameboard has the multiset and the queries of BoardSequences.         *)
(***************************************************************************)
LEMMA SameSequences ==
    ASSUME NEW r, NEW p, NEW x, NEW n, NEW m
    PROVE  /\ N!insert(r, p, x) = insert(r, p, x) /\ N!erase(r, p) = erase(r, p)
           /\ N!Position(r, p) = Position(r, p) /\ N!get_index(r, p) = get_index(r, p)
           /\ N!emplace(r, p, x) = emplace(r, p, x) /\ N!Range(r) = Range(r)
           /\ N!FirstOf(r, n) = FirstOf(r, n) /\ N!Reversed(r) = Reversed(r)
           /\ N!Between(r, n, m) = Between(r, n, m)
BY DEF insert, N!insert, upper_bound, N!upper_bound, erase, N!erase, Position, N!Position,
       get_index, N!get_index, emplace, N!emplace, Range, N!Range, FirstOf, N!FirstOf,
       Least, N!Least, Reversed, N!Reversed, Between, N!Between

(***************************************************************************)
(* ranking.insert() of a nameboard.                                        *)
(***************************************************************************)
LEMMA RankPlaces ==
    ASSUME NEW E, NEW X, NEW r \in Seq(X), NEW p \in X
    PROVE  N!rank(E, r, p) = Placed(r, p, Order(E, X))
<1> DEFINE after == {q \in Range(r) : N!entry_ptr_comparator(E[p], E[q])}
           Lt == Order(E, X)
<1>1. /\ DOMAIN r = 1 .. Len(r)
      /\ \A i \in 1 .. Len(r) : r[i] \in X
  BY LenProperties, ElementOfSeq
<1>2. \A i \in 1 .. Len(r) : r[i] \in after <=> <<p, r[i]>> \in Lt
  BY <1>1 DEF Order, Range
<1>3. N!rank(E, r, p) = insert(r, p, after)
  BY SameSequences DEF N!rank
<1> HIDE DEF after, Lt
<1>4. insert(r, p, after) = Placed(r, p, Lt)
  BY <1>2, InsertIsPlaced
<1> QED BY <1>3, <1>4 DEF Lt

\* The rounds of the loop of nameboard::load.
Rounds(E, at) ==
    CHOOSE g : g = [i \in 0 .. Len(at) |->
                      IF i = 0 THEN <<>> ELSE N!rank(E, g[i - 1], at[i])]

(***************************************************************************)
(* The loop of nameboard::load, which inserts the entries of `at`.         *)
(***************************************************************************)
LEMMA RoundsRank ==
    ASSUME NEW E, NEW X, Owns(E, X), NEW at, Lists(at, X),
           NEW f, f = Rounds(E, at)
    PROVE  Sorts(f[Len(at)], at, X, Order(E, X))
<1> DEFINE Lt == Order(E, X)
           n == Len(at)
           Round(g) == [i \in 0 .. n |->
                          IF i = 0 THEN <<>> ELSE N!rank(E, g[i - 1], at[i])]
<1>0. n \in Nat /\ \A i \in 1 .. n : at[i] \in X
  BY LenProperties, ElementOfSeq DEF Lists
<1>1. IsOrder(Lt, X)
  BY OrderIsOrder
<1>2. PICK h : IsLoad(h, at, X, Lt)
  <2> HIDE DEF Lt
  <2> QED BY <1>1, LoadExists
<1>3. /\ h \in [0 .. n -> Seq(X)] /\ h[0] = <<>>
      /\ \A i \in 1 .. n : h[i] = Placed(h[i - 1], at[i], Lt)
  <2> HIDE DEF Lt
  <2> QED BY <1>2 DEF IsLoad
<1>4. ASSUME NEW i \in 1 .. n PROVE h[i] = N!rank(E, h[i - 1], at[i])
  <2>0. i - 1 \in 0 .. n
    BY <1>0
  <2>1. h[i - 1] \in Seq(X) /\ at[i] \in X
    BY <1>0, <1>3, <2>0
  <2>2. h[i] = Placed(h[i - 1], at[i], Lt)
    BY <1>3
  <2>3. N!rank(E, h[i - 1], at[i]) = Placed(h[i - 1], at[i], Lt)
    BY <2>1, RankPlaces
  <2> QED BY <2>2, <2>3
<1>5. h = Round(h)
  <2> HIDE DEF n
  <2>1. \A i \in 0 .. n : h[i] = IF i = 0 THEN <<>> ELSE N!rank(E, h[i - 1], at[i])
    <3> SUFFICES ASSUME NEW i \in 0 .. n
                 PROVE  h[i] = IF i = 0 THEN <<>> ELSE N!rank(E, h[i - 1], at[i])
      OBVIOUS
    <3>1. CASE i = 0
      BY <1>3, <3>1
    <3>2. CASE i # 0
      <4>1. i \in 1 .. n
        BY <1>0, <3>2
      <4> QED BY <1>4, <3>2, <4>1
    <3> QED BY <3>1, <3>2
  <2> QED BY <1>3, <2>1
<1>6. f = Round(f)
  <2>1. f = CHOOSE g : g = Round(g)
    BY DEF Rounds
  <2> HIDE DEF Round
  <2> QED BY <1>5, <2>1
<1>7. \A i \in 0 .. n : f[i] = IF i = 0 THEN <<>> ELSE N!rank(E, f[i - 1], at[i])
  <2>1. \A i \in 0 .. n :
           Round(f)[i] = IF i = 0 THEN <<>> ELSE N!rank(E, f[i - 1], at[i])
    OBVIOUS
  <2> HIDE DEF Round
  <2> QED BY <1>6, <2>1
<1>8. f[0] = <<>>
  <2>1. 0 \in 0 .. n
    BY <1>0
  <2>2. f[0] = IF 0 = 0 THEN <<>> ELSE N!rank(E, f[0 - 1], at[0])
    BY <1>7, <2>1, Zenon
  <2> QED BY <2>2
<1>9. ASSUME NEW i \in 1 .. n, f[i - 1] \in Seq(X)
      PROVE  f[i] = Placed(f[i - 1], at[i], Lt)
  <2>1. i \in 0 .. n /\ i # 0 /\ at[i] \in X
    BY <1>0
  <2>2. f[i] = N!rank(E, f[i - 1], at[i])
    BY <1>7, <2>1
  <2> QED BY <1>9, <2>1, <2>2, RankPlaces
<1> HIDE DEF Lt
<1>10. Sorts(f[Len(at)], at, X, Lt)
  BY <1>1, <1>8, <1>9, RoundsSort
<1> QED BY <1>10 DEF Lt

-----------------------------------------------------------------------------
(* The file of a nameboard. *)

Item == [name : Names, timestamp : Int]

\* What save() may have written: no name is there twice, and the oldest is first.
ItemSeq(s) ==
    /\ s \in Seq(Item)
    /\ \A i, j \in 1 .. Len(s) : s[i].name = s[j].name => i = j

InOrder(s) == \A i, j \in 1 .. Len(s) : i < j => s[i].timestamp <= s[j].timestamp

(***************************************************************************)
(* The items that load() keeps.                                            *)
(***************************************************************************)
LEMMA FirstItems ==
    ASSUME NEW s, ItemSeq(s), InOrder(s), NEW n \in Nat
    PROVE  ItemSeq(FirstOf(s, n)) /\ InOrder(FirstOf(s, n))
<1> DEFINE k == Least(n, Len(s))
           f == FirstOf(s, n)
<1>1. s \in Seq(Item) /\ Len(s) \in Nat
  BY LenProperties DEF ItemSeq
<1>2. /\ k \in 0 .. Len(s) /\ f \in Seq(Item) /\ Len(f) = k
      /\ \A i \in 1 .. k : f[i] = s[i]
  <2>1. k = Least(n, Len(s))
    OBVIOUS
  <2> HIDE DEF k
  <2>2. k \in 0 .. Len(s) /\ f \in Seq(Item) /\ Starts(f, s, k)
    BY <1>1, <2>1, First
  <2> QED BY <2>2 DEF Starts
<1> HIDE DEF k, f
<1>3. \A i \in 1 .. k : i \in 1 .. Len(s) /\ f[i] = s[i]
  BY <1>1, <1>2
<1>4. ItemSeq(f)
  BY <1>2, <1>3 DEF ItemSeq
<1>5. InOrder(f)
  <2> SUFFICES ASSUME NEW i \in 1 .. k, NEW j \in 1 .. k, i < j
               PROVE  f[i].timestamp <= f[j].timestamp
    BY <1>2 DEF InOrder
  <2> QED BY <1>3 DEF InOrder
<1> QED BY <1>4, <1>5 DEF f

\* The names in the file, and the entries made from them.
NamesOf(items) == [i \in DOMAIN items |-> items[i].name]

LoadedEntries(items) ==
    [p \in Range(NamesOf(items)) |->
        [timestamp |-> items[Position(NamesOf(items), p)].timestamp,
         id |-> get_index(NamesOf(items), p)]]

\* E and at have the entries of the items, for the names X.
ReadBack(items, at, E, X) ==
    /\ Lists(at, X) /\ Len(at) = Len(items)
    /\ \A i \in 1 .. Len(items) :
          /\ at[i] = items[i].name
          /\ E[at[i]] = [timestamp |-> items[i].timestamp, id |-> i - 1]
    /\ DOMAIN E = X /\ Owns(E, X)
    /\ \A p \in X : E[p].id < Len(items)
    /\ Sorted(at, Order(E, X))

(***************************************************************************)
(* The entries have different ids, and are in the order of the file.       *)
(***************************************************************************)
LEMMA LoadedItems ==
    ASSUME NEW items, ItemSeq(items), InOrder(items),
           NEW at, at = NamesOf(items), NEW E, E = LoadedEntries(items),
           NEW X, X = Range(at)
    PROVE  ReadBack(items, at, E, X)
<1>1. /\ items \in Seq(Item) /\ Len(items) \in Nat /\ DOMAIN items = 1 .. Len(items)
      /\ \A i \in 1 .. Len(items) : items[i] \in Item
  BY LenProperties, ElementOfSeq DEF ItemSeq
<1>2. \A i \in 1 .. Len(items) : items[i].name \in Names /\ items[i].timestamp \in Int
  BY <1>1 DEF Item
<1>3. /\ at = [i \in 1 .. Len(items) |-> items[i].name]
      /\ \A i \in 1 .. Len(items) : at[i] = items[i].name
  BY <1>1 DEF NamesOf
<1>4. X = {at[i] : i \in 1 .. Len(items)}
  BY <1>3 DEF Range
<1>5. at \in Seq(X) /\ Len(at) = Len(items)
  <2>1. \A i \in 1 .. Len(items) : items[i].name \in X
    BY <1>3, <1>4
  <2> QED BY <1>1, <1>3, <2>1, IsASeq, LenProperties
<1>6. Lists(at, X)
  BY <1>3, <1>4, <1>5 DEF Lists, ItemSeq
<1>7. ASSUME NEW i \in 1 .. Len(items)
      PROVE  E[at[i]] = [timestamp |-> items[i].timestamp, id |-> i - 1]
  <2>1. Position(at, at[i]) = i
    BY <1>5, <1>6, ThePosition
  <2>2. at[i] \in X
    BY <1>4
  <2> QED BY <2>1, <2>2 DEF LoadedEntries, get_index
<1>8. DOMAIN E = X
  BY DEF LoadedEntries
<1>9. ASSUME NEW p \in X
      PROVE  \E i \in 1 .. Len(items) : p = at[i] /\ E[p] \in Entry /\ E[p].id = i - 1
  <2>1. PICK i \in 1 .. Len(items) : p = at[i]
    BY <1>4
  <2>2. E[p] = [timestamp |-> items[i].timestamp, id |-> i - 1]
    BY <1>7, <2>1
  <2>3. i - 1 \in Nat /\ items[i].timestamp \in Int
    BY <1>2
  <2> QED BY <2>1, <2>2, <2>3 DEF Entry
<1>10. Owns(E, X)
  <2>1. X \subseteq Names
    BY <1>2, <1>3, <1>4
  <2>2. E \in [X -> Entry]
    <3>1. E = [p \in X |-> E[p]]
      BY DEF LoadedEntries
    <3> QED BY <1>9, <3>1
  <2>3. ASSUME NEW p \in X, NEW q \in X, E[p].id = E[q].id PROVE p = q
    BY <1>9, <2>3
  <2> QED BY <2>1, <2>2, <2>3 DEF Owns
<1>11. \A p \in X : E[p].id < Len(items)
  BY <1>1, <1>9
<1>12. Sorted(at, Order(E, X))
  <2> SUFFICES ASSUME NEW i \in 1 .. Len(items), NEW j \in 1 .. Len(items), i < j
               PROVE  N!entry_ptr_comparator(E[at[i]], E[at[j]])
    BY <1>4, <1>5 DEF Sorted, Order
  <2> DEFINE x == E[at[i]]
             y == E[at[j]]
  <2>1. x = [timestamp |-> items[i].timestamp, id |-> i - 1]
    BY <1>7
  <2>2. y = [timestamp |-> items[j].timestamp, id |-> j - 1]
    BY <1>7
  <2>3. items[i].timestamp <= items[j].timestamp
    BY DEF InOrder
  <2>4. items[i].timestamp \in Int /\ items[j].timestamp \in Int
    BY <1>2
  <2> HIDE DEF x, y
  <2>5. /\ x.timestamp = items[i].timestamp /\ x.id = i - 1
        /\ y.timestamp = items[j].timestamp /\ y.id = j - 1
    BY <2>1, <2>2
  <2>6. N!entry_ptr_comparator(x, y)
    BY <2>3, <2>4, <2>5 DEF N!entry_ptr_comparator
  <2> QED BY <2>6 DEF x, y
<1> QED BY <1>3, <1>5, <1>6, <1>7, <1>8, <1>10, <1>11, <1>12, Zenon DEF ReadBack

-----------------------------------------------------------------------------
(* The board of a nameboard. *)

Board(E, r) == Owns(E, DOMAIN E) /\ Lists(r, DOMAIN E) /\ Sorted(r, Order(E, DOMAIN E))

(***************************************************************************)
(* What Board says of an element.                                          *)
(***************************************************************************)
LEMMA BoardElements ==
    ASSUME NEW E, NEW r, Board(E, r)
    PROVE  /\ Len(r) \in Nat /\ DOMAIN r = 1 .. Len(r)
           /\ \A i \in 1 .. Len(r) :
                 r[i] \in DOMAIN E /\ r[i] \in Names /\ E[r[i]] \in Entry
           /\ \A p \in DOMAIN E : \E i \in 1 .. Len(r) : r[i] = p
           /\ \A i, j \in 1 .. Len(r) : i < j => N!entry_ptr_comparator(E[r[i]], E[r[j]])
<1>1. Len(r) \in Nat /\ DOMAIN r = 1 .. Len(r) /\ \A i \in 1 .. Len(r) : r[i] \in DOMAIN E
  BY LenProperties, ElementOfSeq DEF Board, Lists
<1>2. \A p \in DOMAIN E : p \in Names /\ E[p] \in Entry
  BY DEF Board, Owns
<1>3. \A p \in DOMAIN E : \E i \in 1 .. Len(r) : r[i] = p
  BY DEF Board, Lists
<1>4. ASSUME NEW i \in 1 .. Len(r), NEW j \in 1 .. Len(r), i < j
      PROVE  N!entry_ptr_comparator(E[r[i]], E[r[j]])
  <2>1. <<r[i], r[j]>> \in Order(E, DOMAIN E)
    BY <1>4 DEF Board, Sorted
  <2> QED BY <2>1 DEF Order
<1> QED BY <1>1, <1>2, <1>3, <1>4

\* F and s are a board with the entry e of p in addition to those of E and r.
Extended(E, r, p, e, F, s) ==
    /\ Board(F, s) /\ Len(s) = Len(r) + 1
    /\ DOMAIN F = DOMAIN E \cup {p} /\ F[p] = e /\ \A q \in DOMAIN E : F[q] = E[q]

(***************************************************************************)
(* The entry of a new name is stored and ranked.                           *)
(***************************************************************************)
LEMMA NewcomerRanked ==
    ASSUME NEW E, NEW r, Board(E, r),
           NEW p \in Names, p \notin DOMAIN E,
           NEW e \in Entry, \A q \in DOMAIN E : E[q].id # e.id,
           NEW F, F = emplace(E, p, e),
           NEW s, s = N!rank(F, r, p)
    PROVE  Extended(E, r, p, e, F, s)
<1> DEFINE X == DOMAIN E \cup {p}
<1>1. /\ F = [x \in X |-> IF x = p THEN e ELSE E[x]]
      /\ DOMAIN F = X /\ F[p] = e /\ \A x \in DOMAIN E : F[x] = E[x]
  BY DEF emplace
<1>2. Owns(F, X)
  <2>1. /\ DOMAIN E \subseteq Names /\ E \in [DOMAIN E -> Entry]
        /\ \A x, y \in DOMAIN E : E[x].id = E[y].id => x = y
    BY DEF Board, Owns
  <2>2. F \in [X -> Entry]
    <3>1. \A x \in X : (IF x = p THEN e ELSE E[x]) \in Entry
      BY <2>1
    <3> QED BY <1>1, <3>1
  <2>3. \A x, y \in X : F[x].id = F[y].id => x = y
    BY <1>1, <2>1
  <2> QED BY <2>1, <2>2, <2>3 DEF Owns
<1>3. Lists(r, X \ {p})
  <2>1. X \ {p} = DOMAIN E
    OBVIOUS
  <2> QED BY <2>1 DEF Board
<1>4. Sorted(r, Order(F, X))
  <2>1. r \in Seq(DOMAIN E) /\ DOMAIN E \subseteq X /\ Sorted(r, Order(E, DOMAIN E))
    BY DEF Board, Lists
  <2> QED BY <1>1, <2>1, SortedTransfer
<1>5. Lists(s, X) /\ Sorted(s, Order(F, X)) /\ Len(s) = Len(r) + 1
  <2>1. p \in X /\ r \in Seq(X)
    BY <1>3 DEF Lists
  <2> HIDE DEF X
  <2>2. s = Placed(r, p, Order(F, X))
    BY <2>1, RankPlaces
  <2>3. IsOrder(Order(F, X), X)
    BY <1>2, OrderIsOrder
  <2>4. Gained(s, r, p, X, Order(F, X))
    BY <1>3, <1>4, <2>1, <2>2, <2>3, PlacedAmong
  <2> QED BY <2>4 DEF Gained
<1>6. Board(F, s)
  BY <1>1, <1>2, <1>5 DEF Board
<1> QED BY <1>1, <1>5, <1>6 DEF Extended

\* F and kept are the board E and r without its entry h, which is before the others.
Reduced(E, r, h, F, kept) ==
    /\ Board(F, kept) /\ Len(kept) = Len(r) - 1
    /\ h \in DOMAIN E /\ DOMAIN F = DOMAIN E \ {h} /\ \A q \in DOMAIN F : F[q] = E[q]
    /\ \A q \in DOMAIN F : N!entry_ptr_comparator(E[h], E[q])

(***************************************************************************)
(* The first of the ranking is removed.                                    *)
(***************************************************************************)
LEMMA FirstRemoved ==
    ASSUME NEW E, NEW r, Board(E, r), Len(r) > 0,
           NEW h, h = r[1],
           NEW F, F = N!Owned(E, h), NEW kept, kept = erase(r, h)
    PROVE  Reduced(E, r, h, F, kept)
<1> DEFINE X == DOMAIN E
           Y == X \ {h}
<1>1. /\ Len(r) \in Nat /\ 1 \in 1 .. Len(r)
      /\ h \in X
      /\ \A i, j \in 1 .. Len(r) : i < j => N!entry_ptr_comparator(E[r[i]], E[r[j]])
  <2>1. Len(r) \in Nat /\ \A i \in 1 .. Len(r) : r[i] \in X
    BY BoardElements
  <2>2. \A i, j \in 1 .. Len(r) : i < j => N!entry_ptr_comparator(E[r[i]], E[r[j]])
    BY BoardElements
  <2> QED BY <2>1, <2>2
<1>2. kept = erase(r, h)
  OBVIOUS
<1>3. Lists(r, X) /\ Sorted(r, Order(E, X)) /\ Owns(E, X)
  BY DEF Board
<1>4. Lists(kept, Y) /\ Sorted(kept, Order(E, X)) /\ Len(kept) = Len(r) - 1
  <2>1. h \in X /\ Lists(r, X) /\ Sorted(r, Order(E, X))
    BY <1>1, <1>3
  <2> HIDE DEF X
  <2>2. /\ Lists(erase(r, h), X \ {h}) /\ Sorted(erase(r, h), Order(E, X))
        /\ Len(erase(r, h)) = Len(r) - 1
    BY <2>1, ErasedFrom, Zenon
  <2> QED BY <1>2, <2>2
<1>5. F = [q \in Y |-> E[q]] /\ DOMAIN F = Y /\ \A q \in Y : F[q] = E[q]
  BY DEF N!Owned, N!Restrict
<1>6. Owns(F, Y)
  BY <1>3, <1>5 DEF Owns
<1>7. Sorted(kept, Order(F, Y))
  <2>1. kept \in Seq(Y) /\ Y \subseteq Y /\ \A q \in Y : F[q] = E[q]
    BY <1>4, <1>5 DEF Lists
  <2> HIDE DEF X, Y
  <2> QED BY <1>4, <2>1, SortedTransfer
<1>8. Board(F, kept)
  BY <1>4, <1>5, <1>6, <1>7 DEF Board
<1>9. ASSUME NEW q \in Y PROVE N!entry_ptr_comparator(E[h], E[q])
  <2>1. PICK i \in 1 .. Len(r) : r[i] = q
    BY <1>3 DEF Lists
  <2>2. i # 1 /\ 1 < i
    BY <1>1, <2>1
  <2> QED BY <1>1, <2>1, <2>2
<1> QED BY <1>1, <1>4, <1>5, <1>8, <1>9 DEF Reduced

(***************************************************************************)
(* The items that save() writes.                                           *)
(***************************************************************************)
LEMMA SavedItems ==
    ASSUME Board(t_entries, t_ranking)
    PROVE  ItemSeq(N!Items(t_ranking)) /\ InOrder(N!Items(t_ranking))
<1> DEFINE s == N!Items(t_ranking)
           n == Len(t_ranking)
<1>1. /\ n \in Nat /\ DOMAIN t_ranking = 1 .. n
      /\ \A i \in 1 .. n : t_ranking[i] \in Names /\ t_entries[t_ranking[i]] \in Entry
      /\ \A i, j \in 1 .. n : i < j =>
            N!entry_ptr_comparator(t_entries[t_ranking[i]], t_entries[t_ranking[j]])
  BY BoardElements
<1>2. s = [i \in 1 .. n |-> [name |-> t_ranking[i],
                             timestamp |-> t_entries[t_ranking[i]].timestamp]]
  BY <1>1 DEF N!Items
<1> HIDE DEF s
<1>3. \A i \in 1 .. n : /\ s[i].name = t_ranking[i]
                        /\ s[i].timestamp = t_entries[t_ranking[i]].timestamp
  BY <1>2
<1>4. \A i \in 1 .. n : s[i] \in Item
  <2>1. \A x \in Entry : x.timestamp \in Int
    BY DEF Entry
  <2>2. \A i \in 1 .. n : t_entries[t_ranking[i]].timestamp \in Int
    BY <1>1, <2>1
  <2> QED BY <1>1, <1>2, <2>2 DEF Item
<1>5. s \in Seq(Item) /\ Len(s) = n
  <2>1. s = [i \in 1 .. n |-> s[i]]
    BY <1>2
  <2> QED BY <1>1, <1>4, <2>1, IsASeq, LenProperties
<1>6. ItemSeq(s)
  <2>1. \A i, j \in 1 .. n : t_ranking[i] = t_ranking[j] => i = j
    BY DEF Board, Lists
  <2> QED BY <1>3, <1>5, <2>1 DEF ItemSeq
<1>7. InOrder(s)
  <2> SUFFICES ASSUME NEW i \in 1 .. n, NEW j \in 1 .. n, i < j
               PROVE  s[i].timestamp <= s[j].timestamp
    BY <1>5 DEF InOrder
  <2> DEFINE x == t_entries[t_ranking[i]]
             y == t_entries[t_ranking[j]]
  <2>1. x \in Entry /\ y \in Entry /\ N!entry_ptr_comparator(x, y)
    BY <1>1
  <2>2. s[i].timestamp = x.timestamp /\ s[j].timestamp = y.timestamp
    BY <1>3
  <2> HIDE DEF x, y
  <2>3. x.timestamp \in Int /\ y.timestamp \in Int
    BY <2>1, EntryTypes
  <2>4. x.timestamp <= y.timestamp
    BY <2>1, <2>3 DEF N!entry_ptr_comparator
  <2> QED BY <2>2, <2>4
<1> QED BY <1>6, <1>7 DEF s

-----------------------------------------------------------------------------
(* The inductive invariant of a nameboard, and its steps. *)

\* Only a finished save() is in the file; items is what a running one writes.
Disk(ph, f, t, last, items) ==
    /\ ph \in {"down", "idle", "opened", "written"}
    /\ f.state \in {"absent", "complete"} /\ f.items = last
    /\ f.state = "absent" => last = <<>>
    /\ ph = "written" => t = [state |-> "complete", items |-> items]

(***************************************************************************)
(* A step of save(): the file is replaced by what save() has written       *)
(* completely, or not at all.                                              *)
(***************************************************************************)
LEMMA SaveStep ==
    ASSUME NEW items, Disk(t_phase, t_file, t_tmp, t_saved, items), N!Save(items)
    PROVE  /\ Disk(t_phase', t_file', t_tmp', t_saved', items)
           /\ t_saved' \in {t_saved, items}
           /\ t_phase # "down" /\ t_phase' # "down"
BY DEF Disk, N!Save, N!SaveOpen, N!SaveWrite, N!SaveWriteFails, N!SaveRename,
       N!SaveRenameFails

Record == [name : Names, timestamp : Int, id : Nat]

Ok ==
    /\ t_next_id \in Nat /\ t_max_size \in Nat
    /\ Board(t_entries, t_ranking) /\ Len(t_ranking) <= t_max_size
    /\ \A p \in DOMAIN t_entries : t_entries[p].id < t_next_id

ShownBy(E) == {N!Shown(E, n) : n \in DOMAIN E}

Inv ==
    /\ Disk(t_phase, t_file, t_tmp, t_saved, N!Items(t_ranking))
    /\ ItemSeq(t_saved) /\ InOrder(t_saved)
    /\ Ok
    /\ t_phase = "down" => t_entries = <<>> /\ t_ranking = <<>> /\ added = {}
    /\ added \subseteq Record
    /\ N!LatestNamesKept

\* The board F and s with the new entry, and what is left of it.
AddedTo(n, now, F, s) ==
    /\ Extended(t_entries, t_ranking, n, [timestamp |-> now, id |-> t_next_id], F, s)
    /\ IF Len(t_ranking) = t_max_size THEN Reduced(F, s, s[1], t_entries', t_ranking')
       ELSE t_entries' = F /\ t_ranking' = s
    /\ t_next_id' = t_next_id + 1
    /\ added' = added \cup {N!Shown(F, n)}

(***************************************************************************)
(* add_name of a new name: the entry is ranked, and the first of the       *)
(* ranking goes if the board was full.                                     *)
(***************************************************************************)
LEMMA AddStep ==
    ASSUME Ok, NEW n \in Names, NEW now \in Int, N!NewName(n, now)
    PROVE  \E F, s : AddedTo(n, now, F, s)
<1> DEFINE e == [timestamp |-> now, id |-> t_next_id]
           F == emplace(t_entries, n, e)
           s == N!rank(F, t_ranking, n)
           h == s[1]
<1>0. F = N!emplace(t_entries, n, e) /\ erase(s, h) = N!erase(s, h) /\ h = Head(s)
  BY SameSequences
<1>1. /\ n \notin DOMAIN t_entries /\ t_next_id' = t_next_id + 1
      /\ added' = added \cup {N!Shown(F, n)}
      /\ IF Len(s) > t_max_size
         THEN t_entries' = N!Owned(F, h) /\ t_ranking' = erase(s, h)
         ELSE t_entries' = F /\ t_ranking' = s
  BY <1>0 DEF N!NewName, N!Oldest
<1>2. e \in Entry /\ e.id = t_next_id /\ t_next_id \in Nat
  BY DEF Entry, Ok
<1>3. \A q \in DOMAIN t_entries : t_entries[q].id # e.id
  <2>1. \A q \in DOMAIN t_entries : t_entries[q] \in Entry /\ t_entries[q].id < t_next_id
    BY DEF Ok, Board, Owns
  <2>2. \A q \in DOMAIN t_entries : t_entries[q].id \in Int
    BY <2>1, EntryTypes
  <2> QED BY <1>2, <2>1, <2>2
<1>4. /\ Board(t_entries, t_ranking)
      /\ Len(t_ranking) \in Nat
      /\ t_max_size \in Nat
      /\ Len(t_ranking) <= t_max_size
  <2>1. Board(t_entries, t_ranking)
    BY DEF Ok
  <2> QED BY <2>1, BoardElements DEF Ok
<1>5. Extended(t_entries, t_ranking, n, e, F, s)
  <2>1. F = emplace(t_entries, n, e) /\ s = N!rank(F, t_ranking, n)
    OBVIOUS
  <2> HIDE DEF e, F, s
  <2> QED BY <1>1, <1>2, <1>3, <1>4, <2>1, NewcomerRanked
<1> HIDE DEF F, s
<1>6. Board(F, s) /\ Len(s) = Len(t_ranking) + 1
  BY <1>5 DEF Extended
<1>7. CASE Len(t_ranking) = t_max_size
  <2>1. t_entries' = N!Owned(F, h) /\ t_ranking' = erase(s, h) /\ Len(s) > 0
    BY <1>1, <1>4, <1>6, <1>7
  <2>2. h = s[1]
    OBVIOUS
  <2> HIDE DEF h
  <2>3. Reduced(F, s, h, t_entries', t_ranking')
    BY <1>6, <2>1, <2>2, FirstRemoved
  <2> QED BY <1>1, <1>5, <1>7, <2>2, <2>3 DEF AddedTo
<1>8. CASE Len(t_ranking) # t_max_size
  <2>1. t_entries' = F /\ t_ranking' = s
    BY <1>1, <1>4, <1>6, <1>8
  <2> QED BY <1>1, <1>5, <1>8, <2>1 DEF AddedTo
<1> QED BY <1>7, <1>8

(***************************************************************************)
(* The board after add_name is one, with ids below next_id.                *)
(***************************************************************************)
LEMMA AddKeepsOk ==
    ASSUME Ok, NEW n \in Names, NEW now \in Int, NEW F, NEW s, AddedTo(n, now, F, s),
           t_max_size' = t_max_size
    PROVE  Ok'
<1> DEFINE e == [timestamp |-> now, id |-> t_next_id]
<1>1. /\ Board(F, s) /\ Len(s) = Len(t_ranking) + 1
      /\ DOMAIN F = DOMAIN t_entries \cup {n} /\ F[n] = e
      /\ \A q \in DOMAIN t_entries : F[q] = t_entries[q]
  BY DEF AddedTo, Extended
<1>2. /\ Board(t_entries, t_ranking)
      /\ Len(t_ranking) \in Nat
      /\ t_max_size \in Nat
      /\ Len(t_ranking) <= t_max_size
  <2>1. Board(t_entries, t_ranking)
    BY DEF Ok
  <2> QED BY <2>1, BoardElements DEF Ok
<1>3. t_next_id \in Nat /\ t_next_id' = t_next_id + 1 /\ e.id = t_next_id
  BY DEF Ok, AddedTo
<1>4. \A q \in DOMAIN F : F[q].id < t_next_id'
  <2>1. \A q \in DOMAIN t_entries : t_entries[q] \in Entry /\ t_entries[q].id < t_next_id
    BY DEF Ok, Board, Owns
  <2>2. \A q \in DOMAIN t_entries : t_entries[q].id \in Int
    BY <2>1, EntryTypes
  <2> HIDE DEF e
  <2> QED BY <1>1, <1>3, <2>1, <2>2
<1>5. CASE Len(t_ranking) = t_max_size
  <2>1. /\ Board(t_entries', t_ranking') /\ Len(t_ranking') = Len(s) - 1
        /\ DOMAIN t_entries' = DOMAIN F \ {s[1]}
        /\ \A q \in DOMAIN t_entries' : t_entries'[q] = F[q]
    BY <1>5 DEF AddedTo, Reduced
  <2> QED BY <1>1, <1>2, <1>3, <1>4, <2>1 DEF Ok
<1>6. CASE Len(t_ranking) # t_max_size
  <2>1. t_entries' = F /\ t_ranking' = s
    BY <1>6 DEF AddedTo
  <2> QED BY <1>1, <1>2, <1>3, <1>4, <1>6, <2>1 DEF Ok
<1> QED BY <1>5, <1>6

(***************************************************************************)
(* The order of entries is the one of what is shown of them.               *)
(***************************************************************************)
LEMMA ShownFields ==
    ASSUME NEW E, NEW X, Owns(E, X), NEW p \in X
    PROVE  /\ N!Shown(E, p) \in Record
           /\ N!Shown(E, p).timestamp = E[p].timestamp /\ N!Shown(E, p).id = E[p].id
           /\ N!Shown(E, p).name = p
<1>1. p \in Names /\ E[p] \in Entry
  BY DEF Owns
<1>2. E[p].timestamp \in Int /\ E[p].id \in Nat
  BY <1>1 DEF Entry
<1> QED BY <1>1, <1>2 DEF N!Shown, Record

(***************************************************************************)
(* The comparator is transitive on what has been shown.                    *)
(***************************************************************************)
LEMMA BeforeIsTransitive ==
    ASSUME NEW x \in Record, NEW y \in Record, NEW z \in Record,
           N!entry_ptr_comparator(x, y), N!entry_ptr_comparator(y, z)
    PROVE  N!entry_ptr_comparator(x, z)
<1>1. /\ x.timestamp \in Int /\ y.timestamp \in Int /\ z.timestamp \in Int
      /\ x.id \in Nat /\ y.id \in Nat /\ z.id \in Nat
  BY DEF Record
<1> QED BY <1>1 DEF N!entry_ptr_comparator

(***************************************************************************)
(* The latest names are kept: what goes is before all that stays, and so   *)
(* is, through it, all that went before.                                   *)
(***************************************************************************)
LEMMA LatestStay ==
    ASSUME Ok, added \subseteq Record, N!LatestNamesKept,
           NEW n \in Names, NEW now \in Int, NEW F, NEW s, AddedTo(n, now, F, s),
           t_max_size' = t_max_size
    PROVE  added' \subseteq Record /\ N!LatestNamesKept'
<1> DEFINE z == N!Shown(F, n)
<1>1. /\ Board(F, s) /\ Len(s) = Len(t_ranking) + 1
      /\ DOMAIN F = DOMAIN t_entries \cup {n}
      /\ \A q \in DOMAIN t_entries : F[q] = t_entries[q]
      /\ added' = added \cup {z}
  BY DEF AddedTo, Extended
<1>2. /\ Board(t_entries, t_ranking)
      /\ Len(t_ranking) \in Nat
      /\ t_max_size \in Nat
      /\ Len(t_ranking) <= t_max_size
  <2>1. Board(t_entries, t_ranking)
    BY DEF Ok
  <2> QED BY <2>1, BoardElements DEF Ok
<1>3. /\ ShownBy(t_entries) \subseteq added
      /\ ShownBy(t_entries) = added \/ Len(t_ranking) = t_max_size
      /\ \A x \in added \ ShownBy(t_entries), y \in ShownBy(t_entries) :
            N!entry_ptr_comparator(x, y)
  BY DEF N!LatestNamesKept, ShownBy
<1>4. \A q \in DOMAIN t_entries : N!Shown(F, q) = N!Shown(t_entries, q)
  BY <1>1 DEF N!Shown
<1>5. ShownBy(F) = ShownBy(t_entries) \cup {z}
  BY <1>1, <1>4 DEF ShownBy
<1>6. \A q \in DOMAIN F : /\ N!Shown(F, q) \in Record /\ N!Shown(F, q).name = q
                          /\ N!Shown(F, q).timestamp = F[q].timestamp
                          /\ N!Shown(F, q).id = F[q].id
  BY <1>1, ShownFields DEF Board
<1>7. added' \subseteq Record
  BY <1>1, <1>6
<1> HIDE DEF z
<1>8. SUFFICES /\ ShownBy(t_entries') \subseteq added'
               /\ ShownBy(t_entries') = added' \/ Len(t_ranking') = t_max_size
               /\ \A x \in added' \ ShownBy(t_entries'), y \in ShownBy(t_entries') :
                     N!entry_ptr_comparator(x, y)
  BY <1>7 DEF N!LatestNamesKept, ShownBy
<1>9. CASE Len(t_ranking) # t_max_size
  <2>1. t_entries' = F
    BY <1>9 DEF AddedTo
  <2>2. ShownBy(t_entries') = added'
    BY <1>1, <1>3, <1>5, <1>9, <2>1
  <2> QED BY <2>2
<1>10. CASE Len(t_ranking) = t_max_size
  <2> DEFINE h == s[1]
  <2>1. /\ Len(t_ranking') = Len(s) - 1 /\ h \in DOMAIN F
        /\ DOMAIN t_entries' = DOMAIN F \ {h}
        /\ \A q \in DOMAIN t_entries' : t_entries'[q] = F[q]
        /\ \A q \in DOMAIN t_entries' : N!entry_ptr_comparator(F[h], F[q])
    BY <1>10 DEF AddedTo, Reduced
  <2> HIDE DEF h
  <2>2. Len(t_ranking') = t_max_size
    BY <1>1, <1>2, <1>10, <2>1
  <2>3. \A q \in DOMAIN t_entries' : N!Shown(t_entries', q) = N!Shown(F, q)
    BY <2>1 DEF N!Shown
  <2>4. ShownBy(t_entries') = {N!Shown(F, q) : q \in DOMAIN F \ {h}}
    BY <2>1, <2>3 DEF ShownBy
  <2>5. ShownBy(t_entries') \subseteq added'
    BY <1>1, <1>3, <1>5, <2>4, Zenon DEF ShownBy
  <2>6. ASSUME NEW q \in DOMAIN F \ {h}
        PROVE  N!entry_ptr_comparator(N!Shown(F, h), N!Shown(F, q))
    <3>1. N!entry_ptr_comparator(F[h], F[q])
      BY <2>1
    <3>2. /\ N!Shown(F, h).timestamp = F[h].timestamp /\ N!Shown(F, h).id = F[h].id
          /\ N!Shown(F, q).timestamp = F[q].timestamp /\ N!Shown(F, q).id = F[q].id
      BY <1>6, <2>1
    <3> QED BY <3>1, <3>2 DEF N!entry_ptr_comparator
  <2>7. ASSUME NEW x \in added' \ ShownBy(t_entries'), NEW y \in ShownBy(t_entries')
        PROVE  N!entry_ptr_comparator(x, y)
    <3>1. PICK q \in DOMAIN F \ {h} : y = N!Shown(F, q)
      BY <2>4
    <3>2. CASE x = N!Shown(F, h)
      BY <2>6, <3>1, <3>2
    <3>3. CASE x # N!Shown(F, h)
      <4>1. x \notin ShownBy(F)
        BY <2>4, <3>3 DEF ShownBy
      <4>2. x \in added \ ShownBy(t_entries)
        BY <1>1, <1>5, <4>1
      <4>3. CASE q \in DOMAIN t_entries
        <5>1. y \in ShownBy(t_entries)
          BY <1>4, <3>1, <4>3 DEF ShownBy
        <5> QED BY <1>3, <4>2, <5>1
      <4>4. CASE q \notin DOMAIN t_entries
        <5>1. q = n /\ h \in DOMAIN t_entries
          BY <1>1, <2>1, <4>4
        <5>2. N!Shown(F, h) \in ShownBy(t_entries)
          BY <1>4, <5>1 DEF ShownBy
        <5>3. N!entry_ptr_comparator(x, N!Shown(F, h))
          BY <1>3, <4>2, <5>2
        <5>4. N!entry_ptr_comparator(N!Shown(F, h), y)
          BY <2>6, <3>1
        <5>5. x \in Record /\ y \in Record /\ N!Shown(F, h) \in Record
          BY <1>6, <2>1, <3>1, <4>2
        <5> QED BY <5>3, <5>4, <5>5, BeforeIsTransitive
      <4> QED BY <4>3, <4>4
    <3> QED BY <3>2, <3>3
  <2> QED BY <2>2, <2>5, <2>7
<1> QED BY <1>9, <1>10

(***************************************************************************)
(* nameboard::load.                                                        *)
(***************************************************************************)
LEMMA LoadStep ==
    ASSUME ItemSeq(t_file.items), InOrder(t_file.items), NEW size \in Nat, N!load(size)
    PROVE  /\ Board(t_entries', t_ranking')
           /\ t_next_id' \in Nat
           /\ \A p \in DOMAIN t_entries' : t_entries'[p].id < t_next_id'
           /\ Len(t_ranking') = Least(size, Len(t_file.items)) /\ Len(t_ranking') <= size
           /\ \A i \in 1 .. Len(t_ranking') :
                 /\ t_ranking'[i] = t_file.items[i].name
                 /\ t_entries'[t_ranking'[i]].timestamp = t_file.items[i].timestamp
           /\ added' = ShownBy(t_entries')
<1> DEFINE items == FirstOf(t_file.items, size)
           at == NamesOf(items)
           E == LoadedEntries(items)
           X == Range(at)
           f == Rounds(E, at)
           k == Least(size, Len(t_file.items))
<1>0. items = FirstOf(t_file.items, size)
  OBVIOUS
<1>1. /\ t_entries' = E /\ t_ranking' = f[Len(at)] /\ t_next_id' = Len(items)
      /\ added' = ShownBy(E)
  BY Zenon DEF N!load, N!Loaded, NamesOf, LoadedEntries, Rounds, ShownBy, Range, N!Range,
               Position, N!Position, get_index, N!get_index, FirstOf, N!FirstOf, Least,
               N!Least
<1>2. ItemSeq(items) /\ InOrder(items)
  BY <1>0, FirstItems
<1>3. /\ k \in 0 .. Len(t_file.items) /\ k <= size /\ Len(items) = k
      /\ \A i \in 1 .. k : items[i] = t_file.items[i]
  <2>1. t_file.items \in Seq(Item) /\ k = Least(size, Len(t_file.items))
    BY DEF ItemSeq
  <2> HIDE DEF k, items
  <2>2. k \in 0 .. Len(t_file.items) /\ k <= size /\ Starts(items, t_file.items, k)
    BY <1>0, <2>1, First
  <2> QED BY <2>2 DEF Starts
<1>4. /\ at = NamesOf(items)
      /\ E = LoadedEntries(items)
      /\ X = Range(at)
      /\ f = Rounds(E, at)
  OBVIOUS
<1> HIDE DEF items, at, E, X, f, k
<1>5. /\ Lists(at, X) /\ Len(at) = Len(items)
      /\ \A i \in 1 .. Len(items) :
            /\ at[i] = items[i].name
            /\ E[at[i]] = [timestamp |-> items[i].timestamp, id |-> i - 1]
      /\ DOMAIN E = X /\ Owns(E, X)
      /\ \A p \in X : E[p].id < Len(items)
      /\ Sorted(at, Order(E, X))
  <2>1. ReadBack(items, at, E, X)
    BY <1>2, <1>4, LoadedItems
  <2> QED BY <2>1 DEF ReadBack
<1>6. f[Len(at)] = at
  <2>1. Owns(E, X) /\ Lists(at, X)
    BY <1>5
  <2>2. Sorts(f[Len(at)], at, X, Order(E, X))
    BY <1>4, <2>1, RoundsRank
  <2> QED BY <1>5, <2>2 DEF Sorts
<1>7. Board(t_entries', t_ranking')
  BY <1>1, <1>5, <1>6 DEF Board
<1>8. Len(t_ranking') = k /\ k \in Nat
  BY <1>1, <1>3, <1>5, <1>6
<1>9. ASSUME NEW i \in 1 .. Len(t_ranking')
      PROVE  /\ t_ranking'[i] = t_file.items[i].name
             /\ t_entries'[t_ranking'[i]].timestamp = t_file.items[i].timestamp
  <2>1. t_ranking' = at
    BY <1>1, <1>6
  <2>2. i \in 1 .. Len(items) /\ items[i] = t_file.items[i]
    BY <1>3, <1>8
  <2>3. /\ at[i] = items[i].name
        /\ E[at[i]] = [timestamp |-> items[i].timestamp, id |-> i - 1]
    BY <1>5, <2>2
  <2>4. E[at[i]].timestamp = items[i].timestamp
    BY <2>3
  <2> QED BY <1>1, <2>1, <2>2, <2>3, <2>4
<1>10. t_next_id' \in Nat /\ \A p \in DOMAIN t_entries' : t_entries'[p].id < t_next_id'
  BY <1>1, <1>3, <1>5, <1>8
<1> QED BY <1>1, <1>3, <1>7, <1>8, <1>9, <1>10 DEF k

(***************************************************************************)
(* A board without names.                                                  *)
(***************************************************************************)
LEMMA EmptyBoard ==
    /\ Board(<<>>, <<>>) /\ ItemSeq(<<>>) /\ InOrder(<<>>) /\ DOMAIN <<>> = {}
    /\ Len(<<>>) = 0 /\ ShownBy(<<>>) = {}
<1>1. DOMAIN <<>> = {} /\ <<>> = [p \in {} |-> p] /\ Len(<<>>) = 0
  OBVIOUS
<1>2. Owns(<<>>, {})
  BY <1>1 DEF Owns
<1>3. <<>> \in Seq({}) /\ <<>> \in Seq(Item)
  OBVIOUS
<1>4. Lists(<<>>, {}) /\ Sorted(<<>>, Order(<<>>, {}))
  BY <1>1, <1>3 DEF Lists, Sorted
<1>5. ItemSeq(<<>>) /\ InOrder(<<>>)
  BY <1>1, <1>3 DEF ItemSeq, InOrder
<1>6. ShownBy(<<>>) = {}
  BY <1>1 DEF ShownBy
<1> QED BY <1>1, <1>2, <1>4, <1>5, <1>6 DEF Board

(***************************************************************************)
(* The constructor's board, before the file is read.                       *)
(***************************************************************************)
LEMMA Initially ==
    ASSUME N!Init
    PROVE  Inv
<1>1. /\ t_phase = "down" /\ t_file = N!NoFile /\ t_tmp = N!NoFile /\ t_saved = <<>>
      /\ t_entries = <<>>
      /\ t_ranking = <<>>
      /\ t_next_id = 0
      /\ t_max_size \in Capacities
      /\ added = {}
  BY DEF N!Init, N!DiskInit
<1>2. Disk(t_phase, t_file, t_tmp, t_saved, N!Items(t_ranking))
  BY <1>1 DEF Disk, N!NoFile
<1>3. t_max_size \in Nat
  BY <1>1, TimedAssumption DEF N!WellTyped
<1>4. Ok
  BY <1>1, <1>3, EmptyBoard DEF Ok
<1>5. N!LatestNamesKept
  BY <1>1, EmptyBoard DEF N!LatestNamesKept, ShownBy
<1> QED BY <1>1, <1>2, <1>4, <1>5, EmptyBoard DEF Inv

(***************************************************************************)
(* add_name keeps the board in order, and the latest names on it.          *)
(***************************************************************************)
LEMMA AddNameStep ==
    ASSUME Inv, NEW n \in Names, NEW now \in Int, N!add_name(n, now)
    PROVE  Inv'
<1>1. /\ t_phase = "idle" /\ t_phase' = "idle" /\ t_max_size' = t_max_size
      /\ t_file' = t_file /\ t_tmp' = t_tmp /\ t_saved' = t_saved
  BY DEF N!add_name, N!disk
<1>2. Disk(t_phase', t_file', t_tmp', t_saved', N!Items(t_ranking)')
  BY <1>1 DEF Inv, Disk
<1>3. Ok /\ added \subseteq Record /\ N!LatestNamesKept
  BY DEF Inv
<1>4. Ok' /\ added' \subseteq Record /\ N!LatestNamesKept'
  <2>1. CASE N!KnownName(n)
    <3>1. /\ t_entries' = t_entries
          /\ t_ranking' = t_ranking
          /\ t_next_id' = t_next_id
          /\ added' = added
      BY <2>1 DEF N!KnownName
    <3> QED BY <1>1, <1>3, <3>1 DEF Ok, N!LatestNamesKept
  <2>2. CASE N!NewName(n, now)
    <3>1. PICK F, s : AddedTo(n, now, F, s)
      BY <1>3, <2>2, AddStep
    <3>2. Ok'
      BY <1>1, <1>3, <3>1, AddKeepsOk
    <3> QED BY <1>1, <1>3, <3>1, <3>2, LatestStay
  <2> QED BY <2>1, <2>2 DEF N!add_name
<1>5. ItemSeq(t_saved') /\ InOrder(t_saved')
  BY <1>1 DEF Inv
<1> QED BY <1>1, <1>2, <1>4, <1>5 DEF Inv

(***************************************************************************)
(* The constructor, which reads the file, if there is one.                 *)
(***************************************************************************)
LEMMA ConstructStep ==
    ASSUME Inv, NEW size \in Nat, N!Construct(size)
    PROVE  /\ t_max_size' = size /\ size \in Nat /\ Len(t_saved) \in Nat
           /\ Board(t_entries', t_ranking')
           /\ Len(t_ranking') = Least(size, Len(t_saved))
           /\ \A i \in 1 .. Len(t_ranking') :
                 /\ t_ranking'[i] = t_saved[i].name
                 /\ t_entries'[t_ranking'[i]].timestamp = t_saved[i].timestamp
           /\ Inv'
<1>1. /\ t_phase = "down" /\ t_phase' = "idle" /\ t_max_size' = size
      /\ t_file' = t_file /\ t_tmp' = t_tmp /\ t_saved' = t_saved
      /\ IF t_file.state = "complete" THEN N!load(size)
         ELSE /\ t_entries' = t_entries /\ t_ranking' = t_ranking
              /\ t_next_id' = t_next_id /\ added' = added
  BY DEF N!Construct, N!disk
<1>2. /\ size \in Nat
      /\ t_file.items = t_saved /\ t_file.state \in {"absent", "complete"}
      /\ t_file.state = "absent" => t_saved = <<>>
      /\ ItemSeq(t_saved) /\ InOrder(t_saved)
      /\ t_entries = <<>> /\ t_ranking = <<>> /\ added = {} /\ Ok
  BY <1>1 DEF Inv, Disk
<1>3. Len(t_saved) \in Nat
  BY <1>2, LenProperties DEF ItemSeq
<1>4. /\ Board(t_entries', t_ranking')
      /\ t_next_id' \in Nat /\ \A p \in DOMAIN t_entries' : t_entries'[p].id < t_next_id'
      /\ Len(t_ranking') = Least(size, Len(t_saved)) /\ Len(t_ranking') <= size
      /\ \A i \in 1 .. Len(t_ranking') :
            /\ t_ranking'[i] = t_saved[i].name
            /\ t_entries'[t_ranking'[i]].timestamp = t_saved[i].timestamp
      /\ added' = ShownBy(t_entries')
  <2>1. CASE t_file.state = "complete"
    <3>1. N!load(size)
      BY <1>1, <2>1
    <3>2. ItemSeq(t_file.items) /\ InOrder(t_file.items)
      BY <1>2
    <3>3. /\ Board(t_entries', t_ranking')
          /\ t_next_id' \in Nat
          /\ \A p \in DOMAIN t_entries' : t_entries'[p].id < t_next_id'
          /\ Len(t_ranking') = Least(size, Len(t_file.items)) /\ Len(t_ranking') <= size
          /\ \A i \in 1 .. Len(t_ranking') :
                /\ t_ranking'[i] = t_file.items[i].name
                /\ t_entries'[t_ranking'[i]].timestamp = t_file.items[i].timestamp
          /\ added' = ShownBy(t_entries')
      BY <1>2, <3>1, <3>2, LoadStep
    <3> QED BY <1>2, <3>3
  <2>2. CASE t_file.state = "absent"
    <3>1. /\ t_entries' = <<>> /\ t_ranking' = <<>> /\ t_saved = <<>>
          /\ t_next_id' = t_next_id /\ added' = {}
      BY <1>1, <1>2, <2>2
    <3>2. Len(t_ranking') = Least(size, Len(t_saved)) /\ Len(t_ranking') <= size
      BY <1>2, <3>1, EmptyBoard DEF Least
    <3> QED BY <1>2, <3>1, <3>2, EmptyBoard DEF Ok
  <2> QED BY <1>2, <2>1, <2>2
<1>5. Ok'
  BY <1>1, <1>2, <1>4 DEF Ok
<1>6. Disk(t_phase', t_file', t_tmp', t_saved', N!Items(t_ranking)')
  BY <1>1, <1>2 DEF Disk
<1>7. added' \subseteq Record
  <2>1. \A q \in DOMAIN t_entries' : N!Shown(t_entries', q) \in Record
    BY <1>4, ShownFields DEF Board
  <2> QED BY <1>4, <2>1 DEF ShownBy
<1>8. N!LatestNamesKept'
  BY <1>4 DEF N!LatestNamesKept, ShownBy
<1>9. Inv'
  BY <1>1, <1>2, <1>5, <1>6, <1>7, <1>8 DEF Inv
<1> QED BY <1>1, <1>2, <1>3, <1>4, <1>9

(***************************************************************************)
(* Inv is inductive.                                                       *)
(***************************************************************************)
LEMMA Inductive ==
    ASSUME Inv, N!Next
    PROVE  Inv'
<1>1. CASE \E n \in Names, now \in Clock : N!add_name(n, now)
  BY <1>1, AddNameStep, TimedAssumption DEF N!WellTyped
<1>2. CASE N!save
  <2> DEFINE items == N!Items(t_ranking)
  <2>1. /\ N!Save(items) /\ t_entries' = t_entries /\ t_ranking' = t_ranking
        /\ t_next_id' = t_next_id /\ t_max_size' = t_max_size /\ added' = added
    BY <1>2 DEF N!save, N!board
  <2>2. items' = items
    BY <2>1 DEF N!Items
  <2>3. Disk(t_phase, t_file, t_tmp, t_saved, items) /\ Ok /\ Board(t_entries, t_ranking)
    BY DEF Inv, Ok
  <2>4. /\ Disk(t_phase', t_file', t_tmp', t_saved', items)
        /\ t_saved' \in {t_saved, items}
        /\ t_phase # "down" /\ t_phase' # "down"
    <3> HIDE DEF items
    <3> QED BY <2>1, <2>3, SaveStep
  <2>5. ItemSeq(items) /\ InOrder(items)
    BY <2>3, SavedItems
  <2> HIDE DEF items
  <2>6. ItemSeq(t_saved') /\ InOrder(t_saved')
    BY <2>4, <2>5 DEF Inv
  <2>7. Ok' /\ N!LatestNamesKept' /\ added' \subseteq Record
    BY <2>1 DEF Inv, Ok, N!LatestNamesKept
  <2>8. Disk(t_phase', t_file', t_tmp', t_saved', N!Items(t_ranking)')
    BY <2>2, <2>4 DEF items
  <2> QED BY <2>4, <2>6, <2>7, <2>8 DEF Inv
<1>3. CASE N!Gone
  <2>1. /\ t_phase' = "down" /\ t_file' = t_file /\ t_saved' = t_saved
        /\ t_entries' = <<>> /\ t_ranking' = <<>> /\ t_next_id' = 0
        /\ added' = {} /\ t_max_size' = t_max_size
    BY <1>3 DEF N!Gone, N!Dies, N!disk
  <2>2. t_max_size \in Nat
    BY DEF Inv, Ok
  <2>3. Ok'
    BY <2>1, <2>2, EmptyBoard DEF Ok
  <2>4. Disk(t_phase', t_file', t_tmp', t_saved', N!Items(t_ranking)')
    BY <2>1 DEF Inv, Disk
  <2>5. N!LatestNamesKept'
    BY <2>1, EmptyBoard DEF N!LatestNamesKept, ShownBy
  <2>6. ItemSeq(t_saved') /\ InOrder(t_saved')
    BY <2>1 DEF Inv
  <2> QED BY <2>1, <2>3, <2>4, <2>5, <2>6 DEF Inv
<1>4. CASE \E size \in Capacities : N!Construct(size)
  BY <1>4, ConstructStep, TimedAssumption DEF N!WellTyped
<1> QED BY <1>1, <1>2, <1>3, <1>4 DEF N!Next

(***************************************************************************)
(* Inv as ListMatchesRanking states it.                                    *)
(***************************************************************************)
LEMMA Matches ==
    ASSUME Inv
    PROVE  N!ListMatchesRanking
<1>1. Board(t_entries, t_ranking) /\ Len(t_ranking) <= t_max_size
  BY DEF Inv, Ok
<1>2. /\ DOMAIN t_ranking = 1 .. Len(t_ranking)
      /\ \A i \in 1 .. Len(t_ranking) : t_ranking[i] \in DOMAIN t_entries
      /\ \A p \in DOMAIN t_entries : \E i \in 1 .. Len(t_ranking) : t_ranking[i] = p
      /\ \A i, j \in 1 .. Len(t_ranking) : i < j =>
            N!entry_ptr_comparator(t_entries[t_ranking[i]], t_entries[t_ranking[j]])
  BY <1>1, BoardElements
<1>3. \A i, j \in 1 .. Len(t_ranking) : t_ranking[i] = t_ranking[j] => i = j
  BY <1>1 DEF Board, Lists
<1>4. N!IsInjective(t_ranking)
  BY <1>2, <1>3 DEF N!IsInjective
<1>5. N!Range(t_ranking) = DOMAIN t_entries
  BY <1>2 DEF N!Range
<1> QED BY <1>1, <1>2, <1>4, <1>5 DEF N!ListMatchesRanking

(***************************************************************************)
(* The board that the constructor makes from the file.                     *)
(***************************************************************************)
LEMMA Reload ==
    ASSUME Inv, NEW size \in Nat, N!Construct(size)
    PROVE  N!Items(t_ranking)' = FirstOf(t_saved, t_max_size')
<1> DEFINE k == Least(size, Len(t_saved))
           f == FirstOf(t_saved, size)
           g == N!Items(t_ranking)'
<1>1. /\ t_max_size' = size /\ size \in Nat /\ Len(t_saved) \in Nat
      /\ Board(t_entries', t_ranking') /\ Len(t_ranking') = k
      /\ \A i \in 1 .. Len(t_ranking') :
            /\ t_ranking'[i] = t_saved[i].name
            /\ t_entries'[t_ranking'[i]].timestamp = t_saved[i].timestamp
  BY ConstructStep
<1>2. DOMAIN t_ranking' = 1 .. k
  BY <1>1, BoardElements
<1>3. /\ t_saved \in Seq(Item) /\ k = Least(size, Len(t_saved))
  BY DEF Inv, ItemSeq
<1>4. k \in 0 .. Len(t_saved) /\ f \in Seq(Item) /\ Starts(f, t_saved, k)
  <2> HIDE DEF k
  <2> QED BY <1>1, <1>3, First
<1>5. g = [i \in 1 .. k |-> [name |-> t_ranking'[i],
                             timestamp |-> t_entries'[t_ranking'[i]].timestamp]]
  BY <1>2 DEF N!Items
<1>6. DOMAIN f = 1 .. k /\ \A i \in 1 .. k : f[i] = t_saved[i]
  BY <1>4, LenProperties DEF Starts
<1>0. FirstOf(t_saved, t_max_size') = f
  BY <1>1
<1> HIDE DEF k, f, g
<1>7. ASSUME NEW i \in 1 .. k PROVE g[i] = f[i]
  <2>1. t_saved[i] \in Item
    <3>1. i \in 1 .. Len(t_saved)
      BY <1>1, <1>4
    <3> QED BY <1>3, <3>1, ElementOfSeq
  <2>2. t_saved[i] = [name |-> t_saved[i].name, timestamp |-> t_saved[i].timestamp]
    BY <2>1 DEF Item
  <2>3. g[i] = [name |-> t_ranking'[i], timestamp |-> t_entries'[t_ranking'[i]].timestamp]
    BY <1>5
  <2>4. /\ t_ranking'[i] = t_saved[i].name
        /\ t_entries'[t_ranking'[i]].timestamp = t_saved[i].timestamp
    BY <1>1
  <2> QED BY <1>6, <2>2, <2>3, <2>4
<1>8. f = [i \in 1 .. k |-> f[i]]
  BY <1>4, <1>6
<1>9. g = f
  BY <1>5, <1>7, <1>8
<1> QED BY <1>0, <1>9 DEF g

-----------------------------------------------------------------------------
(* The score_stream, whose file and entries have the same types. *)

(***************************************************************************)
(* A stream reads its file, and answers a query, as a board does.          *)
(***************************************************************************)
LEMMA SameQueries ==
    ASSUME NEW s, NEW n, NEW m
    PROVE  /\ D!FirstOf(s, n) = FirstOf(s, n) /\ D!Reversed(s) = Reversed(s)
           /\ D!Between(s, n, m) = Between(s, n, m)
BY DEF FirstOf, D!FirstOf, Least, D!Least, Reversed, D!Reversed, Between, D!Between

(***************************************************************************)
(* A stream is saved in the same steps.                                    *)
(***************************************************************************)
LEMMA SameSave ==
    ASSUME NEW items, D!Save(items)
    PROVE  N!Save(items)
BY DEF D!Save, D!SaveOpen, D!SaveWrite, D!SaveWriteFails, D!SaveRename, D!SaveRenameFails,
       N!Save, N!SaveOpen, N!SaveWrite, N!SaveWriteFails, N!SaveRename, N!SaveRenameFails,
       D!NoFile, N!NoFile, D!Truncated, N!Truncated

StreamEntry == [name : Names, timestamp : Int, id : Nat]

StreamInv ==
    /\ Disk(t_phase, t_file, t_tmp, t_saved, D!Reversed(D!Listed(t_entries)))
    /\ t_saved \in Seq(Item)
    /\ t_next_id \in Nat /\ t_max_size \in Nat
    /\ t_entries \in Seq(StreamEntry) /\ Len(t_entries) <= t_max_size
    /\ t_phase = "down" => t_entries = <<>>

(***************************************************************************)
(* The names and times of the entries.                                     *)
(***************************************************************************)
LEMMA ListedItems ==
    ASSUME NEW s \in Seq(StreamEntry)
    PROVE  D!Listed(s) \in Seq(Item) /\ D!Reversed(D!Listed(s)) \in Seq(Item)
<1>1. /\ Len(s) \in Nat /\ DOMAIN s = 1 .. Len(s)
      /\ \A i \in 1 .. Len(s) : s[i] \in StreamEntry
  BY LenProperties, ElementOfSeq
<1>2. \A i \in 1 .. Len(s) : [name |-> s[i].name, timestamp |-> s[i].timestamp] \in Item
  BY <1>1 DEF StreamEntry, Item
<1>3. D!Listed(s) = [i \in 1 .. Len(s) |->
                       [name |-> s[i].name, timestamp |-> s[i].timestamp]]
  BY <1>1 DEF D!Listed
<1>4. D!Listed(s) \in Seq(Item)
  BY <1>1, <1>2, <1>3, IsASeq
<1>5. D!Reversed(D!Listed(s)) = Reversed(D!Listed(s))
  BY SameQueries
<1> QED BY <1>4, <1>5, Reverse

(***************************************************************************)
(* submit_score puts the score in front and drops what is too much.        *)
(***************************************************************************)
LEMMA StreamSubmit ==
    ASSUME StreamInv, NEW n \in Names, NEW now \in Int, D!submit_score(n, now)
    PROVE  StreamInv'
<1> DEFINE e == [name |-> n, timestamp |-> now, id |-> t_next_id]
           s == <<e>> \o t_entries
<1>1. /\ t_phase = "idle"
      /\ t_phase' = "idle"
      /\ t_max_size' = t_max_size
      /\ t_next_id' = t_next_id
      /\ t_file' = t_file /\ t_saved' = t_saved
      /\ t_entries' = D!FirstOf(s, t_max_size)
  BY DEF D!submit_score, D!Popped, D!disk
<1>2. t_next_id \in Nat /\ t_max_size \in Nat /\ t_entries \in Seq(StreamEntry)
  BY DEF StreamInv
<1>3. e \in StreamEntry
  BY <1>2 DEF StreamEntry
<1>4. s \in Seq(StreamEntry)
  <2> HIDE DEF e
  <2>1. <<e>> \in Seq(StreamEntry)
    BY <1>3
  <2> QED BY <1>2, <2>1, ConcatProperties
<1> HIDE DEF s
<1>5. t_entries' = FirstOf(s, t_max_size)
  BY <1>1, SameQueries
<1> DEFINE k == Least(t_max_size, Len(s))
<1>6. k = Least(t_max_size, Len(s))
  OBVIOUS
<1> HIDE DEF k
<1>7. /\ k <= t_max_size
      /\ FirstOf(s, t_max_size) \in Seq(StreamEntry)
      /\ Starts(FirstOf(s, t_max_size), s, k)
  BY <1>2, <1>4, <1>6, First
<1>8. t_entries' \in Seq(StreamEntry) /\ Len(t_entries') <= t_max_size
  BY <1>5, <1>7 DEF Starts
<1>9. Disk(t_phase', t_file', t_tmp', t_saved', D!Reversed(D!Listed(t_entries))')
  BY <1>1 DEF StreamInv, Disk
<1> QED BY <1>1, <1>2, <1>8, <1>9 DEF StreamInv

(***************************************************************************)
(* The constructor pushes each item it reads to the front, and so reverses *)
(* the file.                                                               *)
(***************************************************************************)
LEMMA StreamConstruct ==
    ASSUME StreamInv, NEW size \in Nat, D!Construct(size)
    PROVE  /\ StreamInv'
           /\ D!Listed(t_entries)' = D!Reversed(D!FirstOf(t_saved, t_max_size'))
<1> DEFINE items == D!FirstOf(t_file.items, size)
           pushed == [i \in DOMAIN items |->
                        [name |-> items[i].name, timestamp |-> items[i].timestamp,
                         id |-> i - 1]]
           k == Least(size, Len(t_saved))
<1>1. /\ t_phase = "down" /\ t_phase' = "idle" /\ t_max_size' = size
      /\ t_file' = t_file /\ t_tmp' = t_tmp /\ t_saved' = t_saved
      /\ IF t_file.state = "complete"
         THEN t_entries' = D!Reversed(pushed) /\ t_next_id' = Len(items)
         ELSE t_entries' = t_entries /\ t_next_id' = t_next_id
  BY DEF D!Construct, D!load, D!Loaded, D!disk
<1>2. /\ size \in Nat
      /\ t_file.items = t_saved /\ t_file.state \in {"absent", "complete"}
      /\ t_file.state = "absent" => t_saved = <<>>
      /\ t_saved \in Seq(Item) /\ t_entries = <<>> /\ t_next_id \in Nat
  BY <1>1 DEF StreamInv, Disk
<1>3. items = FirstOf(t_saved, size) /\ D!FirstOf(t_saved, t_max_size') = items
  BY <1>1, <1>2, SameQueries, Zenon
<1>4. k \in 0 .. Len(t_saved) /\ k <= size /\ items \in Seq(Item) /\ Len(items) = k
  <2>1. k = Least(size, Len(t_saved))
    OBVIOUS
  <2> HIDE DEF k, items
  <2>2. /\ k \in 0 .. Len(t_saved)
        /\ k <= size
        /\ items \in Seq(Item)
        /\ Starts(items, t_saved, k)
    BY <1>2, <1>3, <2>1, First
  <2> QED BY <2>2 DEF Starts
<1>5. /\ k \in Nat /\ DOMAIN items = 1 .. k
      /\ \A i \in 1 .. k : items[i] \in Item
  BY <1>4, LenProperties, ElementOfSeq
<1>6. /\ pushed = [i \in 1 .. k |-> [name |-> items[i].name, timestamp |-> items[i].timestamp,
                                     id |-> i - 1]]
      /\ \A i \in 1 .. k : /\ pushed[i] \in StreamEntry /\ pushed[i].name = items[i].name
                           /\ pushed[i].timestamp = items[i].timestamp
  <2>1. \A i \in 1 .. k : /\ i - 1 \in Nat /\ items[i].name \in Names
                          /\ items[i].timestamp \in Int
    BY <1>5 DEF Item
  <2> QED BY <1>5, <2>1 DEF StreamEntry
<1> HIDE DEF items, pushed, k
<1>7. pushed \in Seq(StreamEntry) /\ Len(pushed) = k
  <2>1. pushed = [i \in 1 .. k |-> pushed[i]]
    BY <1>6
  <2> QED BY <1>5, <1>6, <2>1, IsASeq, LenProperties
<1> DEFINE r == D!Reversed(pushed)
           q == D!Reversed(items)
<1>8. /\ r \in Seq(StreamEntry) /\ Len(r) = k /\ DOMAIN r = 1 .. k
      /\ \A i \in 1 .. k : r[i] = pushed[k - i + 1]
  <2>1. r = Reversed(pushed)
    BY SameQueries
  <2> QED BY <1>7, <2>1, Reverse
<1>9. q \in Seq(Item) /\ DOMAIN q = 1 .. k /\ \A i \in 1 .. k : q[i] = items[k - i + 1]
  <2>1. q = Reversed(items)
    BY SameQueries
  <2> QED BY <1>4, <2>1, Reverse
<1> HIDE DEF r, q
<1>10. D!Listed(r) = q
  <2>1. D!Listed(r) = [i \in 1 .. k |->
                         [name |-> r[i].name, timestamp |-> r[i].timestamp]]
    BY <1>8 DEF D!Listed
  <2>2. ASSUME NEW i \in 1 .. k
        PROVE  [name |-> r[i].name, timestamp |-> r[i].timestamp] = q[i]
    <3> DEFINE j == k - i + 1
    <3>1. j \in 1 .. k
      BY <1>5
    <3>2. r[i] = pushed[j] /\ q[i] = items[j]
      BY <1>8, <1>9
    <3> HIDE DEF j
    <3>3. items[j] = [name |-> items[j].name, timestamp |-> items[j].timestamp]
      BY <1>5, <3>1 DEF Item
    <3> QED BY <1>6, <3>1, <3>2, <3>3
  <2>3. q = [i \in 1 .. k |-> q[i]]
    BY <1>9
  <2> QED BY <2>1, <2>2, <2>3
<1>11. Disk(t_phase', t_file', t_tmp', t_saved', D!Reversed(D!Listed(t_entries))')
  BY <1>1, <1>2 DEF Disk
<1>12. CASE t_file.state = "complete"
  <2>1. t_entries' = r /\ t_next_id' = Len(items)
    BY <1>1, <1>12 DEF r
  <2>2. D!Listed(t_entries)' = q
    BY <1>10, <2>1 DEF D!Listed
  <2>3. /\ t_entries' \in Seq(StreamEntry)
        /\ Len(t_entries') <= t_max_size'
        /\ t_next_id' \in Nat
    BY <1>1, <1>4, <1>5, <1>8, <2>1
  <2>4. StreamInv'
    BY <1>1, <1>2, <1>11, <2>3 DEF StreamInv
  <2> QED BY <1>3, <2>2, <2>4 DEF q
<1>13. CASE t_file.state = "absent"
  <2>1. t_entries' = <<>> /\ t_next_id' = t_next_id /\ t_saved = <<>>
    BY <1>1, <1>2, <1>13
  <2>2. Len(<<>>) = 0 /\ DOMAIN <<>> = {} /\ <<>> \in Seq(StreamEntry)
    OBVIOUS
  <2>3. k = 0
    <3>1. Len(t_saved) = 0
      BY <2>1
    <3> QED BY <1>4, <3>1
  <2>4. D!Listed(<<>>) = [i \in {} |-> q[i]]
    BY <2>2 DEF D!Listed
  <2>5. q = [i \in {} |-> q[i]]
    <3>1. DOMAIN q = {}
      BY <1>5, <1>9, <2>3
    <3>2. q = [i \in DOMAIN q |-> q[i]]
      BY <1>9
    <3> QED BY <3>1, <3>2
  <2>6. D!Listed(t_entries)' = q
    BY <2>1, <2>4, <2>5 DEF D!Listed
  <2>7. StreamInv'
    BY <1>1, <1>2, <1>11, <2>1, <2>2 DEF StreamInv
  <2> QED BY <1>3, <2>6, <2>7 DEF q
<1> QED BY <1>2, <1>12, <1>13

(***************************************************************************)
(* StreamInv holds of a new stream.                                        *)
(***************************************************************************)
LEMMA StreamInitially ==
    ASSUME D!Init
    PROVE  StreamInv
<1>1. /\ t_phase = "down" /\ t_file = D!NoFile /\ t_tmp = D!NoFile /\ t_saved = <<>>
      /\ t_entries = <<>> /\ t_next_id = 0 /\ t_max_size \in Capacities
  BY DEF D!Init, D!DiskInit
<1>2. Disk(t_phase, t_file, t_tmp, t_saved, D!Reversed(D!Listed(t_entries)))
  BY <1>1 DEF Disk, D!NoFile
<1>3. t_max_size \in Nat
  BY <1>1, TimedAssumption DEF D!WellTyped
<1>4. <<>> \in Seq(Item) /\ <<>> \in Seq(StreamEntry) /\ Len(<<>>) = 0
  OBVIOUS
<1> QED BY <1>1, <1>2, <1>3, <1>4 DEF StreamInv

(***************************************************************************)
(* StreamInv is inductive.                                                 *)
(***************************************************************************)
LEMMA StreamInductive ==
    ASSUME StreamInv, D!Next
    PROVE  StreamInv'
<1>1. CASE \E n \in Names, now \in Clock : D!submit_score(n, now)
  BY <1>1, StreamSubmit, TimedAssumption DEF D!WellTyped
<1>2. CASE D!save
  <2> DEFINE items == D!Reversed(D!Listed(t_entries))
  <2>1. /\ D!Save(items)
        /\ t_entries' = t_entries
        /\ t_next_id' = t_next_id
        /\ t_max_size' = t_max_size
    BY <1>2 DEF D!save, D!stream
  <2>2. items' = items
    BY <2>1 DEF D!Reversed, D!Listed
  <2>3. Disk(t_phase, t_file, t_tmp, t_saved, items) /\ t_entries \in Seq(StreamEntry)
    BY DEF StreamInv
  <2>4. items \in Seq(Item)
    BY <2>3, ListedItems
  <2> HIDE DEF items
  <2>5. /\ Disk(t_phase', t_file', t_tmp', t_saved', items)
        /\ t_saved' \in {t_saved, items}
        /\ t_phase # "down" /\ t_phase' # "down"
    <3>1. N!Save(items)
      BY <2>1, SameSave
    <3> QED BY <2>3, <3>1, SaveStep
  <2>6. Disk(t_phase', t_file', t_tmp', t_saved', D!Reversed(D!Listed(t_entries))')
    BY <2>2, <2>5 DEF items
  <2> QED BY <2>1, <2>4, <2>5, <2>6 DEF StreamInv
<1>3. CASE D!Gone
  <2>1. /\ t_phase' = "down" /\ t_file' = t_file /\ t_saved' = t_saved
        /\ t_entries' = <<>> /\ t_next_id' = 0 /\ t_max_size' = t_max_size
    BY <1>3 DEF D!Gone, D!Dies, D!disk
  <2>2. Disk(t_phase', t_file', t_tmp', t_saved', D!Reversed(D!Listed(t_entries))')
    BY <2>1 DEF StreamInv, Disk
  <2>3. <<>> \in Seq(StreamEntry) /\ Len(<<>>) = 0
    OBVIOUS
  <2>4. t_max_size \in Nat /\ t_saved \in Seq(Item)
    BY DEF StreamInv
  <2> QED BY <2>1, <2>2, <2>3, <2>4 DEF StreamInv
<1>4. CASE \E size \in Capacities : D!Construct(size)
  BY <1>4, StreamConstruct, TimedAssumption DEF D!WellTyped
<1> QED BY <1>1, <1>2, <1>3, <1>4 DEF D!Next

-----------------------------------------------------------------------------
(* The program, with either board. *)

TimedInv ==
    /\ kind \in {"nameboard", "score_stream"}
    /\ kind = "nameboard" => Inv
    /\ kind = "score_stream" => StreamInv

(***************************************************************************)
(* Inv, or StreamInv, holds of every state of the program: the file has    *)
(* only what a finished save() has put there, and the board is in order    *)
(* and never too large.                                                    *)
(***************************************************************************)
THEOREM Invariance == TimedSpec => []TimedInv
<1>1. TimedInit => TimedInv
  <2> SUFFICES ASSUME TimedInit PROVE TimedInv
    OBVIOUS
  <2>1. CASE kind = "nameboard" /\ N!Init
    BY <2>1, Initially DEF TimedInv
  <2>2. CASE kind = "score_stream" /\ D!Init
    BY <2>2, StreamInitially DEF TimedInv
  <2> QED BY <2>1, <2>2 DEF TimedInit
<1>2. TimedInv /\ [TimedNext]_timedVars => TimedInv'
  <2> SUFFICES ASSUME TimedInv, [TimedNext]_timedVars PROVE TimedInv'
    OBVIOUS
  <2>1. CASE kind = "nameboard" /\ N!Next /\ kind' = kind
    <3>1. Inv'
      BY <2>1, Inductive DEF TimedInv
    <3> QED BY <2>1, <3>1 DEF TimedInv
  <2>2. CASE kind = "score_stream" /\ D!Next /\ kind' = kind
    <3>1. StreamInv'
      BY <2>2, StreamInductive DEF TimedInv
    <3> QED BY <2>2, <3>1 DEF TimedInv
  <2>3. CASE UNCHANGED timedVars
    <3>1. /\ t_phase' = t_phase
          /\ t_file' = t_file
          /\ t_tmp' = t_tmp
          /\ t_saved' = t_saved
          /\ t_entries' = t_entries /\ t_ranking' = t_ranking /\ t_next_id' = t_next_id
          /\ t_max_size' = t_max_size /\ added' = added /\ kind' = kind
      BY <2>3 DEF timedVars
    <3>2. CASE kind = "nameboard"
      <4>1. N!Items(t_ranking)' = N!Items(t_ranking)
        BY <3>1 DEF N!Items
      <4>2. Ok'
        BY <3>1, <3>2 DEF TimedInv, Inv, Ok
      <4>3. N!LatestNamesKept'
        BY <3>1, <3>2 DEF TimedInv, Inv, N!LatestNamesKept
      <4>4. Inv'
        BY <3>1, <3>2, <4>1, <4>2, <4>3 DEF TimedInv, Inv
      <4> QED BY <3>1, <3>2, <4>4 DEF TimedInv
    <3>3. CASE kind = "score_stream"
      <4>1. StreamInv'
        BY <3>1, <3>3 DEF TimedInv, StreamInv, D!Listed, D!Reversed
      <4> QED BY <3>1, <3>3, <4>1 DEF TimedInv
    <3> QED BY <3>2, <3>3 DEF TimedInv
  <2> QED BY <2>1, <2>2, <2>3 DEF TimedNext
<1> QED BY <1>1, <1>2, PTL DEF TimedSpec

(***************************************************************************)
(* The list and the multiset of a nameboard agree, are in the order of the *)
(* comparator, and have no more than max_size names.                       *)
(***************************************************************************)
THEOREM ListInOrder == TimedSpec => []ListMatchesRanking
<1>1. TimedInv => ListMatchesRanking
  BY Matches DEF TimedInv, ListMatchesRanking
<1> QED BY <1>1, Invariance, PTL

(***************************************************************************)
(* What add_name drops is older than all that is shown, also when the      *)
(* clock is set back, and only a full board drops a name.                  *)
(***************************************************************************)
THEOREM LatestKept == TimedSpec => []LatestNamesKept
<1>1. TimedInv => LatestNamesKept
  BY DEF TimedInv, Inv, LatestNamesKept
<1> QED BY <1>1, Invariance, PTL

(***************************************************************************)
(* The constructor of a nameboard restores the names of the last save()    *)
(* that replaced the file.                                                 *)
(***************************************************************************)
THEOREM NamesRestored == TimedSpec => ReloadRestoresNames
<1>1. ASSUME TimedInv, [TimedNext]_timedVars
      PROVE  [kind = "nameboard" => N!ReloadRestoresNames]_timedVars
  <2> SUFFICES ASSUME TimedNext, kind = "nameboard", t_phase = "down"
               PROVE  N!Items(t_ranking)' = N!FirstOf(t_saved, t_max_size')
    BY <1>1 DEF N!ReloadRestoresNames
  <2>1. Inv /\ N!Next
    BY <1>1 DEF TimedInv, TimedNext
  <2>2. ~ N!save
    <3>1. Disk(t_phase, t_file, t_tmp, t_saved, N!Items(t_ranking))
      BY <2>1 DEF Inv
    <3> QED BY <3>1, SaveStep DEF N!save
  <2>3. \E size \in Capacities : N!Construct(size)
    BY <2>1, <2>2 DEF N!Next, N!add_name, N!Gone, N!Dies
  <2>4. N!Items(t_ranking)' = FirstOf(t_saved, t_max_size')
    BY <2>1, <2>3, Reload, TimedAssumption DEF N!WellTyped
  <2> QED BY <2>4, SameSequences
<1> QED BY <1>1, Invariance, PTL DEF TimedSpec, ReloadRestoresNames

(***************************************************************************)
(* The constructor of a score_stream restores the scores of the last       *)
(* save() that replaced the file, the newest first.                        *)
(***************************************************************************)
THEOREM StreamRestored == TimedSpec => ReloadRestoresStream
<1>1. ASSUME TimedInv, [TimedNext]_timedVars
      PROVE  [kind = "score_stream" => D!ReloadRestoresStream]_timedVars
  <2> SUFFICES ASSUME TimedNext, kind = "score_stream", t_phase = "down"
               PROVE  D!Listed(t_entries)' = D!Reversed(D!FirstOf(t_saved, t_max_size'))
    BY <1>1 DEF D!ReloadRestoresStream
  <2>1. StreamInv /\ D!Next
    BY <1>1 DEF TimedInv, TimedNext
  <2>2. ~ D!save
    <3>1. Disk(t_phase, t_file, t_tmp, t_saved, D!Reversed(D!Listed(t_entries)))
      BY <2>1 DEF StreamInv
    <3> QED BY <3>1, SaveStep, SameSave DEF D!save
  <2>3. \E size \in Capacities : D!Construct(size)
    BY <2>1, <2>2 DEF D!Next, D!submit_score, D!Gone, D!Dies
  <2> QED BY <2>1, <2>3, StreamConstruct, TimedAssumption DEF D!WellTyped
<1> QED BY <1>1, Invariance, PTL DEF TimedSpec, ReloadRestoresStream

(***************************************************************************)
(* The queries of a nameboard, whatever is on it and whatever the indices: *)
(* consecutive pages make up the range they divide, from either end, the   *)
(* pages from 0 are what the queries for the first and the last names      *)
(* return, and a page that is long enough is the whole board.              *)
(***************************************************************************)
THEOREM NamePagesFit == TimedSpec => [](kind = "nameboard" => N!PagesCover(Nat))
<1>1. ASSUME Inv PROVE N!PagesCover(Nat)
  <2>1. t_ranking \in Seq(DOMAIN t_entries)
    BY <1>1 DEF Inv, Ok, Board, Lists
  <2> DEFINE back == Reversed(t_ranking)
  <2>2. PagesOf(t_ranking) /\ PagesOf(back)
    BY <2>1, PagesOfAny, Reverse
  <2>3. /\ \A m, n : N!get_in_range_from_top(m, n) = Between(t_ranking, m, n)
        /\ \A m, n : N!get_in_range_from_bottom(m, n) = Between(back, m, n)
        /\ \A n : N!get_from_first(n) = FirstOf(t_ranking, n)
        /\ \A n : N!get_from_last(n) = FirstOf(back, n)
    BY SameSequences DEF N!get_in_range_from_top, N!get_in_range_from_bottom,
                         N!get_from_first, N!get_from_last
  <2> HIDE DEF back
  <2> QED BY <2>2, <2>3, Zenon DEF N!PagesCover, N!PagesFit, PagesOf, N!get_all
<1>2. TimedInv => (kind = "nameboard" => N!PagesCover(Nat))
  BY <1>1 DEF TimedInv
<1> QED BY <1>2, Invariance, PTL

(***************************************************************************)
(* The queries of a score_stream: pages from the top as on a board; those  *)
(* from the bottom are in stream order and fit together from right to      *)
(* left.                                                                   *)
(***************************************************************************)
THEOREM StreamPagesFit == TimedSpec => [](kind = "score_stream" => D!PagesCover(Nat))
<1>1. ASSUME StreamInv PROVE D!PagesCover(Nat)
  <2>1. t_entries \in Seq(StreamEntry)
    BY <1>1 DEF StreamInv
  <2> DEFINE back == Reversed(t_entries)
  <2>2. PagesOf(t_entries) /\ PagesOf(back) /\ back \in Seq(StreamEntry)
    BY <2>1, PagesOfAny, Reverse
  <2>3. \A n \in Nat : D!get_from_first(n) = FirstOf(t_entries, n)
    <3>1. Len(t_entries) \in Nat
      BY <2>1, LenProperties
    <3>2. SubSeq(t_entries, 1, Len(t_entries)) = t_entries
      BY <2>1, SubSeqFull
    <3> QED BY <3>1, <3>2 DEF D!get_from_first, D!get_all, FirstOf, Least
  <2>4. \A m, n : D!get_in_range_from_top(m, n) = Between(t_entries, m, n)
    BY SameQueries DEF D!get_in_range_from_top
  <2>5. \A from, to \in Nat : \A mid \in from .. to :
           D!get_in_range_from_top(from, mid) \o D!get_in_range_from_top(mid, to)
           = D!get_in_range_from_top(from, to)
    BY <2>2, <2>4, Zenon DEF PagesOf
  <2>6. \A n \in Nat : D!get_from_first(n) = D!get_in_range_from_top(0, n)
    BY <2>2, <2>3, <2>4 DEF PagesOf
  <2>7. ASSUME NEW from \in Nat, NEW to \in Nat, NEW mid \in from .. to
        PROVE  D!get_in_range_from_bottom(mid, to) \o D!get_in_range_from_bottom(from, mid)
               = D!get_in_range_from_bottom(from, to)
    <3> DEFINE x == Between(back, from, mid)
               y == Between(back, mid, to)
    <3>1. mid \in Nat
      OBVIOUS
    <3>0. \A m, n \in Nat : D!get_in_range_from_bottom(m, n) = Reversed(Between(back, m, n))
      BY <2>1, FromBottom DEF D!get_in_range_from_bottom, D!Least, Least
    <3>2. x \in Seq(StreamEntry) /\ y \in Seq(StreamEntry)
      BY <2>2, <3>1, RangeType, Zenon
    <3>3. x \o y = Between(back, from, to)
      BY <2>2, Zenon DEF PagesOf
    <3>4. D!get_in_range_from_bottom(mid, to) = Reversed(y)
      BY <3>0, <3>1
    <3>5. D!get_in_range_from_bottom(from, mid) = Reversed(x)
      BY <3>0, <3>1
    <3>6. D!get_in_range_from_bottom(from, to) = Reversed(Between(back, from, to))
      BY <3>0
    <3> HIDE DEF x, y, back
    <3>7. Reversed(y) \o Reversed(x) = Reversed(x \o y)
      BY <3>2, ReverseJoined
    <3> QED BY <3>3, <3>4, <3>5, <3>6, <3>7
  <2>8. \A n \in Nat : n >= Len(t_entries) => D!get_from_first(n) = D!get_all
    BY <2>2, <2>3 DEF PagesOf, D!get_all
  <2> QED BY <2>5, <2>6, <2>7, <2>8, Zenon DEF D!PagesCover, D!PagesFit
<1>2. TimedInv => (kind = "score_stream" => D!PagesCover(Nat))
  BY <1>1 DEF TimedInv
<1> QED BY <1>2, Invariance, PTL
=============================================================================
