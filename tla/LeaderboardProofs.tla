------------------------- MODULE LeaderboardProofs -------------------------
(***************************************************************************)
(* Proofs about leaderboard<T>, for any players, scores, times and sizes:  *)
(* the multiset and the entries it points to agree, positions are reported *)
(* as they are, and what the board shows is the best it was given, through *)
(* evictions, failed saves and restarts.                                   *)
(***************************************************************************)
EXTENDS Leaderboard, SequenceLemmas

-----------------------------------------------------------------------------
(* The order of the multiset, as a set of pairs. *)

Order(hf, E, X) ==
    {d \in X \X X : leaderboard_entry_comparator(hf, E[d[1]], E[d[2]])}

Entry == [score : Int, timestamp : Int, id : Nat]

\* E is the map of the players X to their entries, whose ids are different.
Owns(E, X) ==
    /\ X \subseteq Players /\ E \in [X -> Entry]
    /\ \A p, q \in X : E[p].id = E[q].id => p = q

(***************************************************************************)
(* The scores, times and ids that leaderboard_entry_comparator compares    *)
(* are integers.                                                           *)
(***************************************************************************)
LEMMA EntryTypes ==
    ASSUME NEW e \in Entry
    PROVE  e.score \in Int /\ e.timestamp \in Int /\ e.id \in Int
BY DEF Entry

(***************************************************************************)
(* leaderboard_entry_comparator is a strict order, in either direction,    *)
(* and total on entries with different ids.                                *)
(***************************************************************************)
LEMMA ComparatorOrders ==
    ASSUME NEW hf \in BOOLEAN, NEW x \in Entry, NEW y \in Entry, NEW z \in Entry
    PROVE  /\ ~ leaderboard_entry_comparator(hf, x, x)
           /\ leaderboard_entry_comparator(hf, x, y) /\ leaderboard_entry_comparator(hf, y, z)
              => leaderboard_entry_comparator(hf, x, z)
           /\ x.id # y.id => \/ leaderboard_entry_comparator(hf, x, y)
                             \/ leaderboard_entry_comparator(hf, y, x)
<1>1. x.score \in Int /\ x.timestamp \in Int /\ x.id \in Int
  BY EntryTypes
<1>2. y.score \in Int /\ y.timestamp \in Int /\ y.id \in Int
  BY EntryTypes
<1>3. z.score \in Int /\ z.timestamp \in Int /\ z.id \in Int
  BY EntryTypes
<1>4. leaderboard_entry_comparator(hf, x, y) /\ leaderboard_entry_comparator(hf, y, z)
      => leaderboard_entry_comparator(hf, x, z)
  BY <1>1, <1>2, <1>3 DEF leaderboard_entry_comparator, Better
<1>5. x.id # y.id => \/ leaderboard_entry_comparator(hf, x, y)
                     \/ leaderboard_entry_comparator(hf, y, x)
  BY <1>1, <1>2 DEF leaderboard_entry_comparator, Better
<1>6. ~ leaderboard_entry_comparator(hf, x, x)
  BY <1>1 DEF leaderboard_entry_comparator, Better
<1> QED BY <1>4, <1>5, <1>6

(***************************************************************************)
(* So the multiset of a leaderboard has a strict total order.              *)
(***************************************************************************)
LEMMA OrderIsOrder ==
    ASSUME NEW hf \in BOOLEAN, NEW X, NEW E, Owns(E, X)
    PROVE  IsOrder(Order(hf, E, X), X)
<1>1. \A x, y \in X : <<x, y>> \in Order(hf, E, X)
                        <=> leaderboard_entry_comparator(hf, E[x], E[y])
  BY DEF Order
<1>2. \A x \in X : E[x] \in Entry
  BY DEF Owns
<1>3. \A x, y \in X : x # y => E[x].id # E[y].id
  BY DEF Owns
<1>4. \A x \in X : <<x, x>> \notin Order(hf, E, X)
  BY <1>1, <1>2, ComparatorOrders
<1>5. ASSUME NEW x \in X, NEW y \in X, NEW z \in X,
             <<x, y>> \in Order(hf, E, X), <<y, z>> \in Order(hf, E, X)
      PROVE  <<x, z>> \in Order(hf, E, X)
  BY <1>1, <1>2, <1>5, ComparatorOrders
<1>6. ASSUME NEW x \in X, NEW y \in X, x # y
      PROVE  <<x, y>> \in Order(hf, E, X) \/ <<y, x>> \in Order(hf, E, X)
  BY <1>1, <1>2, <1>3, <1>6, ComparatorOrders
<1> QED BY <1>4, <1>5, <1>6 DEF IsOrder

(***************************************************************************)
(* An order depends on the entries of the elements only.                   *)
(***************************************************************************)
LEMMA SortedTransfer ==
    ASSUME NEW hf, NEW E, NEW X, NEW F, NEW W, NEW Z, Z \subseteq W,
           \A z \in Z : F[z] = E[z],
           NEW r \in Seq(Z), Sorted(r, Order(hf, E, X))
    PROVE  Sorted(r, Order(hf, F, W))
<1>1. \A i \in 1 .. Len(r) : r[i] \in Z
  BY ElementOfSeq
<1> SUFFICES ASSUME NEW i \in 1 .. Len(r), NEW j \in 1 .. Len(r), i < j
             PROVE  <<r[i], r[j]>> \in Order(hf, F, W)
  BY DEF Sorted
<1>2. <<r[i], r[j]>> \in Order(hf, E, X)
  BY DEF Sorted
<1>3. leaderboard_entry_comparator(hf, E[r[i]], E[r[j]])
  BY <1>2 DEF Order
<1>4. r[i] \in W /\ r[j] \in W /\ F[r[i]] = E[r[i]] /\ F[r[j]] = E[r[j]]
  BY <1>1
<1> QED BY <1>3, <1>4 DEF Order

-----------------------------------------------------------------------------
(* The multiset. *)

(***************************************************************************)
(* ranking.insert() of a leaderboard.                                      *)
(***************************************************************************)
LEMMA RankPlaces ==
    ASSUME NEW hf, NEW E, NEW X, NEW r \in Seq(X), NEW p \in X
    PROVE  rank(hf, E, r, p) = Placed(r, p, Order(hf, E, X))
<1> DEFINE after == {q \in Range(r) : leaderboard_entry_comparator(hf, E[p], E[q])}
           Lt == Order(hf, E, X)
<1>1. /\ DOMAIN r = 1 .. Len(r)
      /\ \A i \in 1 .. Len(r) : r[i] \in X
  BY LenProperties, ElementOfSeq
<1>2. \A i \in 1 .. Len(r) : r[i] \in after <=> <<p, r[i]>> \in Lt
  BY <1>1 DEF Order, Range
<1>3. rank(hf, E, r, p) = insert(r, p, after)
  BY DEF rank
<1> HIDE DEF after, Lt
<1>4. insert(r, p, after) = Placed(r, p, Lt)
  BY <1>2, InsertIsPlaced
<1> QED BY <1>3, <1>4 DEF Lt

(***************************************************************************)
(* The player p, whose entry has been stored, is placed among the others.  *)
(***************************************************************************)
LEMMA PlacedInOrder ==
    ASSUME NEW hf \in BOOLEAN, NEW E, NEW X, Owns(E, X), NEW p \in X,
           NEW r, Lists(r, X \ {p}), Sorted(r, Order(hf, E, X)),
           NEW s, s = rank(hf, E, r, p)
    PROVE  Gained(s, r, p, X, Order(hf, E, X))
<1>1. r \in Seq(X)
  BY DEF Lists
<1>2. s = Placed(r, p, Order(hf, E, X))
  BY <1>1, RankPlaces
<1>3. IsOrder(Order(hf, E, X), X)
  BY OrderIsOrder
<1> QED BY <1>2, <1>3, PlacedAmong

\* The rounds of the loop of leaderboard::load.
Rounds(E, at) ==
    CHOOSE g : g = [i \in 0 .. Len(at) |->
                      IF i = 0 THEN <<>> ELSE rank(TRUE, E, g[i - 1], at[i])]

(***************************************************************************)
(* The loop of leaderboard::load, which inserts the entries of `at`.       *)
(***************************************************************************)
LEMMA RoundsRank ==
    ASSUME NEW E, NEW X, Owns(E, X), NEW at, Lists(at, X),
           NEW f, f = Rounds(E, at)
    PROVE  Sorts(f[Len(at)], at, X, Order(TRUE, E, X))
<1> DEFINE Lt == Order(TRUE, E, X)
           n == Len(at)
           Round(g) == [i \in 0 .. n |->
                          IF i = 0 THEN <<>> ELSE rank(TRUE, E, g[i - 1], at[i])]
<1>0. n \in Nat /\ \A i \in 1 .. n : at[i] \in X
  BY LenProperties, ElementOfSeq DEF Lists
<1>1. IsOrder(Lt, X)
  BY OrderIsOrder, Zenon
<1>2. PICK h : IsLoad(h, at, X, Lt)
  <2> HIDE DEF Lt
  <2> QED BY <1>1, LoadExists
<1>3. /\ h \in [0 .. n -> Seq(X)] /\ h[0] = <<>>
      /\ \A i \in 1 .. n : h[i] = Placed(h[i - 1], at[i], Lt)
  <2> HIDE DEF Lt
  <2> QED BY <1>2 DEF IsLoad
<1>4. ASSUME NEW i \in 1 .. n PROVE h[i] = rank(TRUE, E, h[i - 1], at[i])
  <2>0. i - 1 \in 0 .. n
    BY <1>0
  <2>1. h[i - 1] \in Seq(X) /\ at[i] \in X
    BY <1>0, <1>3, <2>0
  <2>2. h[i] = Placed(h[i - 1], at[i], Lt)
    BY <1>3
  <2>3. rank(TRUE, E, h[i - 1], at[i]) = Placed(h[i - 1], at[i], Lt)
    BY <2>1, RankPlaces, Zenon
  <2> QED BY <2>2, <2>3, Zenon
<1>5. h = Round(h)
  <2> HIDE DEF n
  <2>1. \A i \in 0 .. n : h[i] = IF i = 0 THEN <<>> ELSE rank(TRUE, E, h[i - 1], at[i])
    <3> SUFFICES ASSUME NEW i \in 0 .. n
                 PROVE  h[i] = IF i = 0 THEN <<>> ELSE rank(TRUE, E, h[i - 1], at[i])
      BY Zenon
    <3>1. CASE i = 0
      BY <1>3, <3>1
    <3>2. CASE i # 0
      <4>1. i \in 1 .. n
        BY <1>0, <3>2
      <4> QED BY <1>4, <3>2, <4>1, Zenon
    <3> QED BY <3>1, <3>2, Zenon
  <2> QED BY <1>3, <2>1, Zenon
<1>6. f = Round(f)
  <2>1. f = CHOOSE g : g = Round(g)
    BY DEF Rounds
  <2> HIDE DEF Round
  <2> QED BY <1>5, <2>1
<1>7. \A i \in 0 .. n : f[i] = IF i = 0 THEN <<>> ELSE rank(TRUE, E, f[i - 1], at[i])
  <2>1. \A i \in 0 .. n :
           Round(f)[i] = IF i = 0 THEN <<>> ELSE rank(TRUE, E, f[i - 1], at[i])
    OBVIOUS
  <2> HIDE DEF Round
  <2> QED BY <1>6, <2>1, Zenon
<1>8. f[0] = <<>>
  <2>1. 0 \in 0 .. n
    BY <1>0
  <2>2. f[0] = IF 0 = 0 THEN <<>> ELSE rank(TRUE, E, f[0 - 1], at[0])
    BY <1>7, <2>1, Zenon
  <2> QED BY <2>2
<1>9. ASSUME NEW i \in 1 .. n, f[i - 1] \in Seq(X) PROVE f[i] = Placed(f[i - 1], at[i], Lt)
  <2>1. i \in 0 .. n /\ i # 0 /\ at[i] \in X
    BY <1>0
  <2>2. f[i] = rank(TRUE, E, f[i - 1], at[i])
    BY <1>7, <2>1, Zenon
  <2> QED BY <1>9, <2>1, <2>2, RankPlaces, Zenon
<1> HIDE DEF Lt
<1>10. Sorts(f[Len(at)], at, X, Lt)
  BY <1>1, <1>8, <1>9, RoundsSort
<1> QED BY <1>10, Zenon DEF Lt

-----------------------------------------------------------------------------
(* The file of a leaderboard. *)

Item == [name : Players, score : Int, timestamp : Int]

\* What save() may have written: no player is there twice.
ItemSeq(s) ==
    /\ s \in Seq(Item)
    /\ \A i, j \in 1 .. Len(s) : s[i].name = s[j].name => i = j

\* The order of a board with the highest score first; the file has no ids.
InOrder(s) ==
    \A i, j \in 1 .. Len(s) : i < j =>
        \/ s[i].score > s[j].score
        \/ s[i].score = s[j].score /\ s[i].timestamp <= s[j].timestamp

(***************************************************************************)
(* The items that load() keeps.                                            *)
(***************************************************************************)
LEMMA FirstItems ==
    ASSUME NEW s, ItemSeq(s), NEW n \in Nat
    PROVE  /\ ItemSeq(FirstOf(s, n))
           /\ InOrder(s) => InOrder(FirstOf(s, n))
<1> DEFINE k == Least(n, Len(s))
           f == FirstOf(s, n)
<1>1. s \in Seq(Item) /\ Len(s) \in Nat
  BY LenProperties DEF ItemSeq
<1>2. /\ k \in 0 .. Len(s) /\ f \in Seq(Item) /\ Len(f) = k
      /\ \A i \in 1 .. k : f[i] = s[i]
  <2>1. k = Least(n, Len(s))
    OBVIOUS
  <2> HIDE DEF k
  <2>2. k \in 0 .. Len(s) /\ f \in Seq(Item) /\ Starts(f, s, k)
    BY <1>1, <2>1, First
  <2> QED BY <2>2 DEF Starts
<1> HIDE DEF k, f
<1>3. \A i \in 1 .. k : i \in 1 .. Len(s) /\ f[i] = s[i]
  BY <1>1, <1>2
<1>4. ItemSeq(f)
  BY <1>2, <1>3 DEF ItemSeq
<1>5. InOrder(s) => InOrder(f)
  <2> SUFFICES ASSUME InOrder(s), NEW i \in 1 .. k, NEW j \in 1 .. k, i < j
               PROVE  \/ f[i].score > f[j].score
                      \/ f[i].score = f[j].score /\ f[i].timestamp <= f[j].timestamp
    BY <1>2 DEF InOrder
  <2> QED BY <1>3 DEF InOrder
<1> QED BY <1>4, <1>5 DEF f

\* The names in the file, and the entries made from them.
NamesOf(items) == [i \in DOMAIN items |-> items[i].name]

LoadedEntries(items) ==
    [p \in Range(NamesOf(items)) |->
        LET i == Position(NamesOf(items), p)
        IN  [score |-> items[i].score, timestamp |-> items[i].timestamp, id |-> i - 1]]

\* E and at have the entries of the items, for the players X.
ReadBack(items, at, E, X) ==
    /\ Lists(at, X) /\ Len(at) = Len(items)
    /\ \A i \in 1 .. Len(items) :
          /\ at[i] = items[i].name
          /\ E[at[i]] = [score |-> items[i].score, timestamp |-> items[i].timestamp,
                         id |-> i - 1]
    /\ DOMAIN E = X /\ Owns(E, X)
    /\ \A p \in X : E[p].id < Len(items)
    /\ InOrder(items) => Sorted(at, Order(TRUE, E, X))

(***************************************************************************)
(* The entries have different ids, and those of a file in order are so.    *)
(***************************************************************************)
LEMMA LoadedItems ==
    ASSUME NEW items, ItemSeq(items),
           NEW at, at = NamesOf(items), NEW E, E = LoadedEntries(items),
           NEW X, X = Range(at)
    PROVE  ReadBack(items, at, E, X)
<1>1. /\ items \in Seq(Item) /\ Len(items) \in Nat /\ DOMAIN items = 1 .. Len(items)
      /\ \A i \in 1 .. Len(items) : items[i] \in Item
  BY LenProperties, ElementOfSeq DEF ItemSeq
<1>2. \A i \in 1 .. Len(items) :
         items[i].name \in Players /\ items[i].score \in Int /\ items[i].timestamp \in Int
  BY <1>1 DEF Item
<1>3. /\ at = [i \in 1 .. Len(items) |-> items[i].name]
      /\ \A i \in 1 .. Len(items) : at[i] = items[i].name
  BY <1>1 DEF NamesOf
<1>4. X = {at[i] : i \in 1 .. Len(items)}
  BY <1>3 DEF Range
<1>5. at \in Seq(X) /\ Len(at) = Len(items)
  <2>1. \A i \in 1 .. Len(items) : items[i].name \in X
    BY <1>3, <1>4
  <2> QED BY <1>1, <1>3, <2>1, IsASeq, LenProperties
<1>6. Lists(at, X)
  BY <1>3, <1>4, <1>5 DEF Lists, ItemSeq
<1>7. ASSUME NEW i \in 1 .. Len(items)
      PROVE  E[at[i]] = [score |-> items[i].score, timestamp |-> items[i].timestamp, id |-> i - 1]
  <2>1. Position(at, at[i]) = i
    BY <1>5, <1>6, ThePosition
  <2>2. at[i] \in X
    BY <1>4
  <2> QED BY <2>1, <2>2 DEF LoadedEntries
<1>8. DOMAIN E = X
  BY DEF LoadedEntries
<1>9. ASSUME NEW p \in X
      PROVE  \E i \in 1 .. Len(items) : p = at[i] /\ E[p] \in Entry /\ E[p].id = i - 1
  <2>1. PICK i \in 1 .. Len(items) : p = at[i]
    BY <1>4
  <2>2. E[p] = [score |-> items[i].score, timestamp |-> items[i].timestamp, id |-> i - 1]
    BY <1>7, <2>1
  <2>3. i - 1 \in Nat /\ items[i].score \in Int /\ items[i].timestamp \in Int
    BY <1>2
  <2> QED BY <2>1, <2>2, <2>3 DEF Entry
<1>10. Owns(E, X)
  <2>1. X \subseteq Players
    BY <1>2, <1>3, <1>4
  <2>2. E \in [X -> Entry]
    <3>1. E = [p \in X |-> E[p]]
      BY DEF LoadedEntries
    <3> QED BY <1>9, <3>1
  <2>3. ASSUME NEW p \in X, NEW q \in X, E[p].id = E[q].id PROVE p = q
    BY <1>9, <2>3
  <2> QED BY <2>1, <2>2, <2>3 DEF Owns
<1>11. \A p \in X : E[p].id < Len(items)
  BY <1>1, <1>9
<1>12. ASSUME InOrder(items) PROVE Sorted(at, Order(TRUE, E, X))
  <2> SUFFICES ASSUME NEW i \in 1 .. Len(items), NEW j \in 1 .. Len(items), i < j
               PROVE  leaderboard_entry_comparator(TRUE, E[at[i]], E[at[j]])
    BY <1>4, <1>5, Zenon DEF Sorted, Order
  <2> DEFINE x == E[at[i]]
             y == E[at[j]]
  <2>1. x = [score |-> items[i].score, timestamp |-> items[i].timestamp, id |-> i - 1]
    BY <1>7
  <2>2. y = [score |-> items[j].score, timestamp |-> items[j].timestamp, id |-> j - 1]
    BY <1>7
  <2>3. \/ items[i].score > items[j].score
        \/ items[i].score = items[j].score /\ items[i].timestamp <= items[j].timestamp
    BY <1>12 DEF InOrder
  <2>4. /\ items[i].score \in Int /\ items[j].score \in Int
        /\ items[i].timestamp \in Int /\ items[j].timestamp \in Int
    BY <1>2
  <2> HIDE DEF x, y
  <2>a. x.score = items[i].score /\ x.timestamp = items[i].timestamp /\ x.id = i - 1
    BY <2>1
  <2>b. y.score = items[j].score /\ y.timestamp = items[j].timestamp /\ y.id = j - 1
    BY <2>2
  <2>5. leaderboard_entry_comparator(TRUE, x, y)
    BY <2>a, <2>b, <2>3, <2>4 DEF leaderboard_entry_comparator, Better
  <2> QED BY <2>5, Zenon DEF x, y
<1> QED BY <1>3, <1>5, <1>6, <1>7, <1>8, <1>10, <1>11, <1>12, Zenon DEF ReadBack

-----------------------------------------------------------------------------
(* The board of a leaderboard. *)

Board(hf, E, r) ==
    /\ Owns(E, DOMAIN E) /\ Lists(r, DOMAIN E) /\ Sorted(r, Order(hf, E, DOMAIN E))

\* p is at the index n of r.
At(r, p, n) == n \in 0 .. Len(r) - 1 /\ r[n + 1] = p

(***************************************************************************)
(* What Board says of an element.                                          *)
(***************************************************************************)
LEMMA BoardElements ==
    ASSUME NEW hf, NEW E, NEW r, Board(hf, E, r)
    PROVE  /\ Len(r) \in Nat /\ DOMAIN r = 1 .. Len(r)
           /\ \A i \in 1 .. Len(r) : r[i] \in DOMAIN E /\ r[i] \in Players /\ E[r[i]] \in Entry
           /\ \A p \in DOMAIN E : \E i \in 1 .. Len(r) : r[i] = p
           /\ \A i, j \in 1 .. Len(r) : i < j =>
                 leaderboard_entry_comparator(hf, E[r[i]], E[r[j]])
<1>1. Len(r) \in Nat /\ DOMAIN r = 1 .. Len(r) /\ \A i \in 1 .. Len(r) : r[i] \in DOMAIN E
  BY LenProperties, ElementOfSeq DEF Board, Lists
<1>2. \A p \in DOMAIN E : p \in Players /\ E[p] \in Entry
  BY DEF Board, Owns
<1>3. \A p \in DOMAIN E : \E i \in 1 .. Len(r) : r[i] = p
  BY DEF Board, Lists
<1>4. ASSUME NEW i \in 1 .. Len(r), NEW j \in 1 .. Len(r), i < j
      PROVE  leaderboard_entry_comparator(hf, E[r[i]], E[r[j]])
  <2>1. <<r[i], r[j]>> \in Order(hf, E, DOMAIN E)
    BY <1>4 DEF Board, Sorted
  <2> QED BY <2>1 DEF Order
<1> QED BY <1>1, <1>2, <1>3, <1>4

(***************************************************************************)
(* An entry gets a new score, and its pointer is erased and inserted.      *)
(***************************************************************************)
LEMMA UpdatedBoard ==
    ASSUME NEW hf \in BOOLEAN, NEW E, NEW r, Board(hf, E, r), NEW p \in DOMAIN E,
           NEW e \in Entry, \A q \in DOMAIN E : E[q].id # e.id,
           NEW F \in [DOMAIN E -> Entry], F[p] = e, \A q \in DOMAIN E \ {p} : F[q] = E[q],
           NEW s, s = rank(hf, F, erase(r, p), p)
    PROVE  Board(hf, F, s) /\ Len(s) = Len(r) /\ At(s, p, get_index(s, p))
<1> DEFINE X == DOMAIN E
           q == erase(r, p)
<1>1. DOMAIN F = X /\ F[p] = e /\ \A x \in X \ {p} : F[x] = E[x]
  OBVIOUS
<1>2. Owns(F, X)
  <2>1. X \subseteq Players /\ E \in [X -> Entry] /\ \A x, y \in X : E[x].id = E[y].id => x = y
    BY DEF Board, Owns
  <2>2. F \in [X -> Entry]
    OBVIOUS
  <2>3. \A x, y \in X : F[x].id = F[y].id => x = y
    BY <1>1, <2>1
  <2> QED BY <2>1, <2>2, <2>3 DEF Owns
<1>3. Lists(q, X \ {p}) /\ Sorted(q, Order(hf, E, X)) /\ Len(q) = Len(r) - 1
  BY ErasedFrom DEF Board
<1>4. Sorted(q, Order(hf, F, X))
  <2>1. q \in Seq(X \ {p}) /\ X \ {p} \subseteq X
    BY <1>3 DEF Lists
  <2> HIDE DEF q
  <2> QED BY <1>1, <1>3, <2>1, SortedTransfer
<1>5. /\ Lists(s, X) /\ Sorted(s, Order(hf, F, X)) /\ Len(s) = Len(q) + 1
      /\ \E n : /\ Fits(q, n, p, Order(hf, F, X)) /\ IsInserted(s, q, n, p)
                /\ get_index(s, p) = n
  <2>1. s = rank(hf, F, q, p)
    OBVIOUS
  <2>2. p \in X /\ Lists(q, X \ {p})
    BY <1>3
  <2> HIDE DEF q, X
  <2>3. Gained(s, q, p, X, Order(hf, F, X))
    BY <1>2, <1>4, <2>1, <2>2, PlacedInOrder
  <2> QED BY <2>3 DEF Gained
<1>6. Len(q) \in Nat /\ Len(r) \in Nat
  BY <1>3, LenProperties DEF Lists, Board
<1>7. PICK n : /\ Fits(q, n, p, Order(hf, F, X)) /\ IsInserted(s, q, n, p)
               /\ get_index(s, p) = n
  BY <1>5
<1>8. At(s, p, n) /\ Len(s) = Len(r)
  <2> HIDE DEF q
  <2> QED BY <1>3, <1>5, <1>6, <1>7 DEF At, Fits, IsInserted
<1>9. Board(hf, F, s)
  BY <1>1, <1>2, <1>5 DEF Board
<1> QED BY <1>7, <1>8, <1>9

\* F and s are a board with the entry e of p in addition to those of E and r.
Extended(hf, E, r, p, e, F, s) ==
    /\ Board(hf, F, s) /\ Len(s) = Len(r) + 1 /\ At(s, p, get_index(s, p))
    /\ DOMAIN F = DOMAIN E \cup {p} /\ F[p] = e /\ \A q \in DOMAIN E : F[q] = E[q]
    /\ \A i \in 1 .. Len(r) :
          leaderboard_entry_comparator(hf, e, E[r[i]]) => get_index(s, p) < i
    /\ Len(r) > 0 /\ leaderboard_entry_comparator(hf, e, E[r[Len(r)]])
          => s[Len(s)] = r[Len(r)]

(***************************************************************************)
(* The entry of a new player is stored and ranked.                         *)
(***************************************************************************)
LEMMA NewcomerRanked ==
    ASSUME NEW hf \in BOOLEAN, NEW E, NEW r, Board(hf, E, r),
           NEW p \in Players, p \notin DOMAIN E,
           NEW e \in Entry, \A q \in DOMAIN E : E[q].id # e.id,
           NEW F, F = emplace(E, p, e),
           NEW s, s = rank(hf, F, r, p)
    PROVE  Extended(hf, E, r, p, e, F, s)
<1> DEFINE X == DOMAIN E \cup {p}
<1>1. /\ F = [x \in X |-> IF x = p THEN e ELSE E[x]]
      /\ DOMAIN F = X /\ F[p] = e /\ \A x \in DOMAIN E : F[x] = E[x]
  BY DEF emplace
<1>2. Owns(F, X)
  <2>1. /\ DOMAIN E \subseteq Players /\ E \in [DOMAIN E -> Entry]
        /\ \A x, y \in DOMAIN E : E[x].id = E[y].id => x = y
    BY DEF Board, Owns
  <2>2. F \in [X -> Entry]
    <3>1. \A x \in X : (IF x = p THEN e ELSE E[x]) \in Entry
      BY <2>1
    <3> QED BY <1>1, <3>1
  <2>3. \A x, y \in X : F[x].id = F[y].id => x = y
    BY <1>1, <2>1
  <2> QED BY <2>1, <2>2, <2>3 DEF Owns
<1>3. Lists(r, X \ {p})
  <2>1. X \ {p} = DOMAIN E
    OBVIOUS
  <2> QED BY <2>1 DEF Board
<1>4. Sorted(r, Order(hf, F, X))
  <2>1. r \in Seq(DOMAIN E) /\ DOMAIN E \subseteq X /\ Sorted(r, Order(hf, E, DOMAIN E))
    BY DEF Board, Lists
  <2> QED BY <1>1, <2>1, SortedTransfer
<1>5. /\ Lists(s, X) /\ Sorted(s, Order(hf, F, X)) /\ Len(s) = Len(r) + 1
      /\ \E n : /\ Fits(r, n, p, Order(hf, F, X)) /\ IsInserted(s, r, n, p)
                /\ get_index(s, p) = n
  <2>1. p \in X
    OBVIOUS
  <2> HIDE DEF X
  <2>2. Gained(s, r, p, X, Order(hf, F, X))
    BY <1>2, <1>3, <1>4, <2>1, PlacedInOrder
  <2> QED BY <2>2 DEF Gained
<1>6. Len(r) \in Nat /\ \A i \in 1 .. Len(r) : r[i] \in DOMAIN E
  BY BoardElements
<1>7. PICK n : /\ Fits(r, n, p, Order(hf, F, X)) /\ IsInserted(s, r, n, p)
               /\ get_index(s, p) = n
  BY <1>5
<1>8. At(s, p, n) /\ n \in 0 .. Len(r)
  BY <1>5, <1>6, <1>7 DEF At, Fits, IsInserted
<1>9. ASSUME NEW i \in 1 .. Len(r), leaderboard_entry_comparator(hf, e, E[r[i]])
      PROVE  n < i
  <2>1. r[i] \in X /\ F[r[i]] = E[r[i]] /\ F[p] = e /\ p \in X
    BY <1>1, <1>6
  <2>2. <<p, r[i]>> \in Order(hf, F, X)
    BY <1>9, <2>1 DEF Order
  <2>3. ~ (i <= n)
    BY <1>7, <2>2 DEF Fits
  <2> QED BY <1>6, <1>8, <2>3
<1>10. ASSUME Len(r) > 0, leaderboard_entry_comparator(hf, e, E[r[Len(r)]])
       PROVE  s[Len(s)] = r[Len(r)]
  <2>1. Len(r) \in 1 .. Len(r)
    BY <1>6, <1>10
  <2>2. n < Len(r)
    BY <1>9, <1>10, <2>1
  <2>3. Len(s) \in n + 2 .. Len(r) + 1 /\ Len(s) - 1 = Len(r)
    BY <1>5, <1>6, <1>8, <2>2
  <2> QED BY <1>7, <2>3 DEF IsInserted
<1>11. Board(hf, F, s)
  BY <1>1, <1>2, <1>5 DEF Board
<1> QED BY <1>1, <1>5, <1>7, <1>8, <1>9, <1>10, <1>11 DEF Extended

\* F and kept are the board E and r without its last entry.
Reduced(hf, E, r, F, kept) ==
    /\ Board(hf, F, kept)
    /\ DOMAIN F = DOMAIN E \ {r[Len(r)]} /\ \A q \in DOMAIN F : F[q] = E[q]

(***************************************************************************)
(* remove_last: the entries that stay.                                     *)
(***************************************************************************)
LEMMA LastRemoved ==
    ASSUME NEW hf \in BOOLEAN, NEW E, NEW r, Board(hf, E, r), Len(r) > 0,
           NEW kept \in Seq(DOMAIN E), Len(kept) = Len(r) - 1,
           \A i \in 1 .. Len(r) - 1 : kept[i] = r[i],
           NEW F, F = Restrict(E, Range(kept))
    PROVE  Reduced(hf, E, r, F, kept)
<1> DEFINE n == Len(r)
           X == DOMAIN E
           Y == X \ {r[n]}
<1>1. /\ n \in Nat /\ n \in 1 .. Len(r) /\ r \in Seq(X) /\ Lists(r, X)
      /\ Sorted(r, Order(hf, E, X)) /\ Owns(E, X)
  BY BoardElements DEF Board, Lists
<1>2. /\ kept \in Seq(X) /\ Len(kept) = n - 1
      /\ \A i \in 1 .. n - 1 : kept[i] = r[i]
  OBVIOUS
<1>3. Lists(kept, Y)
  <2>0. \A i \in 1 .. n - 1 : i \in 1 .. n /\ i # n /\ kept[i] = r[i]
    BY <1>1, <1>2
  <2>1. \A i \in 1 .. n - 1 : kept[i] \in Y
    <3>1. \A i \in 1 .. n : r[i] \in X
      BY <1>1, ElementOfSeq
    <3> QED BY <1>1, <2>0, <3>1, Zenon DEF Lists
  <2>2. kept \in Seq(Y)
    <3> DEFINE m == n - 1
    <3>1. kept = [i \in 1 .. m |-> kept[i]]
      BY <1>2, LenProperties
    <3>2. m \in Nat /\ \A i \in 1 .. m : kept[i] \in Y
      BY <1>1, <2>1
    <3> HIDE DEF Y, m
    <3>3. [i \in 1 .. m |-> kept[i]] \in Seq(Y)
      BY <3>2, IsASeq
    <3> QED BY <3>1, <3>3, ZenonT(30)
  <2>3. \A i, j \in 1 .. n - 1 : kept[i] = kept[j] => i = j
    BY <1>1, <2>0 DEF Lists
  <2>4. ASSUME NEW y \in Y PROVE \E i \in 1 .. n - 1 : kept[i] = y
    <3>1. PICK i \in 1 .. n : r[i] = y
      BY <1>1 DEF Lists
    <3>2. i \in 1 .. n - 1
      BY <1>1, <3>1
    <3> QED BY <2>0, <3>1, <3>2
  <2> QED BY <1>2, <2>2, <2>3, <2>4 DEF Lists
<1>4. Range(kept) = Y
  <2>1. DOMAIN kept = 1 .. Len(kept) /\ \A i \in 1 .. Len(kept) : kept[i] \in Y
    BY <1>3, LenProperties, ElementOfSeq DEF Lists
  <2>2. \A y \in Y : \E i \in 1 .. Len(kept) : kept[i] = y
    BY <1>3 DEF Lists
  <2> HIDE DEF Y
  <2> QED BY <2>1, <2>2 DEF Range
<1>5. F = [q \in Y |-> E[q]] /\ DOMAIN F = Y /\ \A q \in Y : F[q] = E[q]
  BY <1>4 DEF Restrict
<1>6. Owns(F, Y)
  BY <1>1, <1>5 DEF Owns
<1>7. Sorted(kept, Order(hf, E, X))
  <2> SUFFICES ASSUME NEW i \in 1 .. n - 1, NEW j \in 1 .. n - 1, i < j
               PROVE  <<kept[i], kept[j]>> \in Order(hf, E, X)
    BY <1>2 DEF Sorted
  <2>1. i \in 1 .. n /\ j \in 1 .. n /\ kept[i] = r[i] /\ kept[j] = r[j]
    BY <1>1, <1>2
  <2> QED BY <1>1, <2>1 DEF Sorted
<1>8. Sorted(kept, Order(hf, F, Y))
  <2>1. kept \in Seq(Y) /\ Y \subseteq Y /\ \A q \in Y : F[q] = E[q]
    BY <1>3, <1>5 DEF Lists
  <2> HIDE DEF X, Y
  <2> QED BY <1>7, <2>1, SortedTransfer
<1>9. Board(hf, F, kept)
  BY <1>3, <1>5, <1>6, <1>8 DEF Board
<1> QED BY <1>5, <1>9 DEF Reduced

(***************************************************************************)
(* The items that save() writes.                                           *)
(***************************************************************************)
LEMMA SavedItems ==
    ASSUME Board(highest_first, entries, ranking)
    PROVE  /\ ItemSeq(Items(ranking))
           /\ highest_first => InOrder(Items(ranking))
<1> DEFINE s == Items(ranking)
           n == Len(ranking)
<1>1. /\ n \in Nat /\ DOMAIN ranking = 1 .. n
      /\ \A i \in 1 .. n : ranking[i] \in Players /\ entries[ranking[i]] \in Entry
      /\ \A i, j \in 1 .. n : i < j =>
            leaderboard_entry_comparator(highest_first, entries[ranking[i]], entries[ranking[j]])
  BY BoardElements
<1>2. s = [i \in 1 .. n |-> [name |-> ranking[i], score |-> entries[ranking[i]].score,
                             timestamp |-> entries[ranking[i]].timestamp]]
  BY <1>1 DEF Items
<1> HIDE DEF s
<1>3. \A i \in 1 .. n : /\ s[i].name = ranking[i] /\ s[i].score = entries[ranking[i]].score
                        /\ s[i].timestamp = entries[ranking[i]].timestamp
  BY <1>2
<1>4. \A i \in 1 .. n : s[i] \in Item
  <2>1. \A x \in Entry : x.score \in Int /\ x.timestamp \in Int
    BY DEF Entry
  <2>2. \A i \in 1 .. n : entries[ranking[i]].score \in Int /\ entries[ranking[i]].timestamp \in Int
    BY <1>1, <2>1
  <2> QED BY <1>1, <1>2, <2>2 DEF Item
<1>5. s \in Seq(Item) /\ Len(s) = n
  <2>1. s = [i \in 1 .. n |-> s[i]]
    BY <1>2
  <2> QED BY <1>1, <1>4, <2>1, IsASeq, LenProperties
<1>6. ItemSeq(s)
  <2>1. \A i, j \in 1 .. n : ranking[i] = ranking[j] => i = j
    BY Zenon DEF Board, Lists
  <2> QED BY <1>3, <1>5, <2>1 DEF ItemSeq
<1>7. ASSUME highest_first PROVE InOrder(s)
  <2> SUFFICES ASSUME NEW i \in 1 .. n, NEW j \in 1 .. n, i < j
               PROVE  \/ s[i].score > s[j].score
                      \/ s[i].score = s[j].score /\ s[i].timestamp <= s[j].timestamp
    BY <1>5 DEF InOrder
  <2> DEFINE x == entries[ranking[i]]
             y == entries[ranking[j]]
  <2>1. x \in Entry /\ y \in Entry /\ leaderboard_entry_comparator(highest_first, x, y)
    BY <1>1
  <2>2. /\ s[i].score = x.score /\ s[i].timestamp = x.timestamp
        /\ s[j].score = y.score /\ s[j].timestamp = y.timestamp
    BY <1>3
  <2> HIDE DEF x, y
  <2>3. x.score \in Int /\ x.timestamp \in Int /\ y.score \in Int /\ y.timestamp \in Int
    BY <2>1, EntryTypes
  <2>4. \/ x.score > y.score
        \/ x.score = y.score /\ x.timestamp <= y.timestamp
    BY <1>7, <2>1, <2>3 DEF leaderboard_entry_comparator, Better
  <2> QED BY <2>2, <2>4
<1> QED BY <1>6, <1>7 DEF s

-----------------------------------------------------------------------------
(* The inductive invariant of a leaderboard. *)

\* Only a finished save() is in the file; items is what a running one writes.
Disk(ph, f, t, last, items) ==
    /\ ph \in {"down", "idle", "opened", "written"}
    /\ f.state \in {"absent", "complete"} /\ f.items = last
    /\ f.state = "absent" => last = <<>>
    /\ ph = "written" => t = [state |-> "complete", items |-> items]

Ok ==
    /\ highest_first \in BOOLEAN /\ next_id \in Nat /\ max_size \in Nat \ {0}
    /\ Board(highest_first, entries, ranking) /\ Len(ranking) <= max_size
    /\ \A p \in DOMAIN entries : entries[p].id < next_id

Inv ==
    /\ Disk(phase, file, tmp, saved, Items(ranking))
    /\ ItemSeq(saved)
    /\ HighestFirst => InOrder(saved) /\ highest_first
    /\ Ok
    /\ phase = "down" => entries = <<>> /\ ranking = <<>> /\ returned = Nobody
    /\ PlacementReported

(***************************************************************************)
(* The entry submit_score makes has an id of its own.                      *)
(***************************************************************************)
LEMMA FreshEntry ==
    ASSUME Ok, NEW score \in Int, NEW now \in Int
    PROVE  /\ NewEntry(score, now) \in Entry
           /\ NewEntry(score, now).score = score
           /\ NewEntry(score, now).id = next_id
           /\ \A q \in DOMAIN entries : entries[q].id # next_id
<1>1. NewEntry(score, now) \in Entry
  BY DEF NewEntry, Entry, Ok
<1>2. NewEntry(score, now).score = score /\ NewEntry(score, now).id = next_id
  BY DEF NewEntry
<1>3. ASSUME NEW q \in DOMAIN entries PROVE entries[q].id # next_id
  <2>1. entries[q] \in Entry /\ entries[q].id < next_id /\ next_id \in Nat
    BY DEF Ok, Board, Owns
  <2>2. entries[q].id \in Int
    BY <2>1, EntryTypes
  <2> QED BY <2>1, <2>2
<1> QED BY <1>1, <1>2, <1>3

(***************************************************************************)
(* submit_score of a player on the board with a score that is an           *)
(* improvement, or may be.                                                 *)
(***************************************************************************)
LEMMA UpdateStep ==
    ASSUME Ok, NEW p \in Players, NEW score \in Int, NEW now \in Int,
           UpdateExisting(p, score, now)
    PROVE  /\ Board(highest_first, entries', ranking') /\ Len(ranking') = Len(ranking)
           /\ DOMAIN entries' = DOMAIN entries /\ p \in DOMAIN entries
           /\ entries'[p] = NewEntry(score, now)
           /\ \A q \in DOMAIN entries \ {p} : entries'[q] = entries[q]
           /\ next_id' = next_id + 1
           /\ returned'.player = p /\ At(ranking', p, returned'.placement)
           /\ TRUE \in CandidateBefore(score, p)
<1> DEFINE e == NewEntry(score, now)
           F == [entries EXCEPT ![p] = e]
           s == rank(highest_first, F, erase(ranking, p), p)
<1>1. /\ p \in DOMAIN entries /\ TRUE \in CandidateBefore(score, p)
      /\ entries' = F /\ ranking' = s /\ next_id' = next_id + 1
      /\ returned' = [player |-> p, placement |-> get_index(s, p)]
  BY Zenon DEF UpdateExisting, Stored, Reranked
<1>2. /\ e \in Entry /\ \A q \in DOMAIN entries : entries[q].id # e.id
  BY FreshEntry, Zenon
<1>3. /\ F \in [DOMAIN entries -> Entry] /\ F[p] = e
      /\ \A q \in DOMAIN entries \ {p} : F[q] = entries[q]
  <2>1. entries \in [DOMAIN entries -> Entry]
    BY DEF Ok, Board, Owns
  <2> HIDE DEF e
  <2> QED BY <1>1, <1>2, <2>1
<1>4. highest_first \in BOOLEAN /\ Board(highest_first, entries, ranking)
  BY DEF Ok
<1> HIDE DEF e, F
<1>5. s = rank(highest_first, F, erase(ranking, p), p)
  OBVIOUS
<1> HIDE DEF s
<1>6. Board(highest_first, F, s) /\ Len(s) = Len(ranking) /\ At(s, p, get_index(s, p))
  BY <1>1, <1>2, <1>3, <1>4, <1>5, UpdatedBoard
<1>7. DOMAIN F = DOMAIN entries
  BY <1>3
<1>8. returned'.player = p /\ returned'.placement = get_index(s, p)
  BY <1>1
<1> QED BY <1>1, <1>3, <1>6, <1>7, <1>8, Zenon DEF e

Full == Len(ranking) = max_size

(***************************************************************************)
(* submit_score of a new player, with the eviction of the last one: the    *)
(* newcomer is not the one evicted.                                        *)
(***************************************************************************)
LEMMA AddStep ==
    ASSUME Ok, NEW p \in Players, NEW score \in Int, NEW now \in Int,
           AddPlayer(p, score, now),
           NEW last, last = ranking[Len(ranking)]
    PROVE  /\ Board(highest_first, entries', ranking')
           /\ Len(ranking') = IF Full THEN Len(ranking) ELSE Len(ranking) + 1
           /\ DOMAIN entries' = IF Full THEN (DOMAIN entries \cup {p}) \ {last}
                                        ELSE DOMAIN entries \cup {p}
           /\ p \notin DOMAIN entries
           /\ Full => /\ last \in DOMAIN entries /\ Len(ranking) > 0
                      /\ leaderboard_entry_comparator(highest_first, NewEntry(score, now),
                                                        entries[last])
           /\ entries'[p] = NewEntry(score, now)
           /\ \A q \in DOMAIN entries' \ {p} : entries'[q] = entries[q]
           /\ next_id' = next_id + 1
           /\ returned'.player = p /\ At(ranking', p, returned'.placement)
<1> DEFINE e == NewEntry(score, now)
           F == emplace(entries, p, e)
           s == rank(highest_first, F, ranking, p)
           kept == remove_last(s)
           G == Restrict(F, Range(kept))
           m == Len(ranking)
<1>1. /\ p \notin DOMAIN entries /\ ~ RefusedWhenFull(e)
      /\ entries' = G /\ ranking' = kept /\ next_id' = next_id + 1
      /\ returned' = [player |-> p, placement |-> get_index(s, p)]
  BY DEF AddPlayer, Stored
<1>2. /\ e \in Entry /\ \A q \in DOMAIN entries : entries[q].id # e.id
  BY FreshEntry
<1>3. highest_first \in BOOLEAN /\ Board(highest_first, entries, ranking)
  BY DEF Ok
<1>4. /\ m \in Nat /\ max_size \in Nat /\ max_size > 0 /\ m <= max_size
      /\ m > 0 => last \in DOMAIN entries
  <2>1. m \in Nat /\ \A i \in 1 .. m : ranking[i] \in DOMAIN entries
    BY <1>3, BoardElements
  <2> QED BY <2>1 DEF Ok
<1>5. ASSUME Full
      PROVE  m > 0 /\ leaderboard_entry_comparator(highest_first, e, entries[last])
  BY <1>1, <1>4, <1>5 DEF Full, RefusedWhenFull
<1> DEFINE n == get_index(s, p)
<1>6. /\ Board(highest_first, F, s) /\ Len(s) = m + 1 /\ At(s, p, n)
      /\ DOMAIN F = DOMAIN entries \cup {p} /\ F[p] = e
      /\ \A q \in DOMAIN entries : F[q] = entries[q]
      /\ \A i \in 1 .. m : leaderboard_entry_comparator(highest_first, e, entries[ranking[i]])
                             => n < i
      /\ m > 0 /\ leaderboard_entry_comparator(highest_first, e, entries[last])
           => s[Len(s)] = last
  <2>1. F = emplace(entries, p, e) /\ s = rank(highest_first, F, ranking, p)
    OBVIOUS
  <2> HIDE DEF e, F, s
  <2>2. Extended(highest_first, entries, ranking, p, e, F, s)
    BY <1>1, <1>2, <1>3, <2>1, NewcomerRanked
  <2> QED BY <2>2 DEF Extended
<1>7. returned'.player = p /\ returned'.placement = n
  BY <1>1
<1> HIDE DEF e, F, s, n
<1>8. CASE Full
  <2>1. kept = SubSeq(s, 1, Len(s) - 1)
    BY <1>4, <1>6, <1>8 DEF Full, remove_last
  <2>2. s \in Seq(DOMAIN F) /\ Len(s) > 0
    BY <1>4, <1>6 DEF Board, Lists
  <2>3. /\ kept \in Seq(DOMAIN F) /\ Len(kept) = Len(s) - 1
        /\ \A i \in 1 .. Len(s) - 1 : kept[i] = s[i]
    BY <2>1, <2>2, AllButLast
  <2>4. G = Restrict(F, Range(kept))
    OBVIOUS
  <2> HIDE DEF kept, G
  <2>5. /\ Board(highest_first, G, kept) /\ DOMAIN G = DOMAIN F \ {s[Len(s)]}
        /\ \A q \in DOMAIN G : G[q] = F[q]
    <3>1. Board(highest_first, F, s)
      BY <1>6
    <3>2. Reduced(highest_first, F, s, G, kept)
      BY <1>3, <2>2, <2>3, <2>4, <3>1, LastRemoved
    <3> QED BY <3>2 DEF Reduced
  <2>6. m > 0 /\ s[Len(s)] = last /\ last \in DOMAIN entries /\ n < m
    <3>1. m > 0 /\ leaderboard_entry_comparator(highest_first, e, entries[last])
      BY <1>5, <1>8
    <3>2. m \in 1 .. m
      BY <1>4, <3>1
    <3> QED BY <1>4, <1>6, <3>1, <3>2
  <2>7. At(kept, p, n)
    BY <1>4, <1>6, <2>3, <2>6 DEF At
  <2>8. p # last /\ p \in DOMAIN G
    BY <1>1, <1>6, <2>5, <2>6
  <2>9. Len(kept) = m
    BY <1>4, <1>6, <2>3
  <2>10. entries' = G /\ ranking' = kept
    BY <1>1
  <2>11. DOMAIN G = (DOMAIN entries \cup {p}) \ {last}
    BY <1>6, <2>5, <2>6
  <2>12. G[p] = e /\ \A q \in DOMAIN G \ {p} : G[q] = entries[q]
    BY <1>6, <2>5, <2>8, <2>11
  <2>13. m > 0 /\ leaderboard_entry_comparator(highest_first, e, entries[last])
    BY <1>5, <1>8
  <2> QED BY <1>1, <1>7, <1>8, <2>5, <2>6, <2>7, <2>9, <2>10, <2>11, <2>12, <2>13 DEF e
<1>9. CASE ~ Full
  <2>1. kept = s
    BY <1>4, <1>6, <1>9 DEF Full, remove_last
  <2>2. Range(s) = DOMAIN F
    <3>1. /\ DOMAIN s = 1 .. Len(s) /\ \A i \in 1 .. Len(s) : s[i] \in DOMAIN F
          /\ \A q \in DOMAIN F : \E i \in 1 .. Len(s) : s[i] = q
      <4>1. Board(highest_first, F, s)
        BY <1>6
      <4> QED BY <4>1, BoardElements
    <3> QED BY <3>1, Zenon DEF Range
  <2>3. G = F
    <3>1. F \in [DOMAIN F -> Entry]
      BY <1>6 DEF Board, Owns
    <3>2. G = [q \in DOMAIN F |-> F[q]]
      BY <2>1, <2>2 DEF Restrict
    <3> QED BY <3>1, <3>2
  <2>4. entries' = F /\ ranking' = s
    BY <1>1, <2>1, <2>3
  <2>5. \A q \in DOMAIN F \ {p} : F[q] = entries[q]
    BY <1>6
  <2> QED BY <1>1, <1>6, <1>7, <1>9, <2>4, <2>5 DEF e
<1> QED BY <1>8, <1>9

(***************************************************************************)
(* A step of save(): the file is replaced by what save() has written       *)
(* completely, or not at all.                                              *)
(***************************************************************************)
LEMMA SaveStep ==
    ASSUME NEW items, Disk(phase, file, tmp, saved, items), Save(items)
    PROVE  /\ Disk(phase', file', tmp', saved', items) /\ saved' \in {saved, items}
           /\ phase # "down" /\ phase' # "down"
BY DEF Disk, Save, SaveOpen, SaveWrite, SaveWriteFails, SaveRename, SaveRenameFails

(***************************************************************************)
(* leaderboard::load.                                                      *)
(***************************************************************************)
LEMMA LoadStep ==
    ASSUME ItemSeq(file.items), NEW size \in Nat, load(size)
    PROVE  /\ Board(TRUE, entries', ranking') /\ highest_first' = TRUE
           /\ next_id' \in Nat /\ \A p \in DOMAIN entries' : entries'[p].id < next_id'
           /\ Len(ranking') = Least(size, Len(file.items)) /\ Len(ranking') <= size
           /\ InOrder(file.items) =>
                 \A i \in 1 .. Len(ranking') :
                    /\ ranking'[i] = file.items[i].name
                    /\ entries'[ranking'[i]].score = file.items[i].score
                    /\ entries'[ranking'[i]].timestamp = file.items[i].timestamp
<1> DEFINE items == FirstOf(file.items, size)
           at == NamesOf(items)
           E == LoadedEntries(items)
           X == Range(at)
           f == Rounds(E, at)
           k == Least(size, Len(file.items))
<1>1. /\ entries' = E /\ ranking' = f[Len(at)] /\ highest_first' = TRUE /\ next_id' = Len(items)
  BY Zenon DEF load, Loaded, NamesOf, LoadedEntries, Rounds
<1>2. ItemSeq(items) /\ (InOrder(file.items) => InOrder(items))
  BY FirstItems
<1>3. /\ k \in 0 .. Len(file.items) /\ k <= size /\ Len(items) = k
      /\ \A i \in 1 .. k : items[i] = file.items[i]
  <2>1. file.items \in Seq(Item) /\ k = Least(size, Len(file.items))
    BY DEF ItemSeq
  <2> HIDE DEF k
  <2>2. k \in 0 .. Len(file.items) /\ k <= size /\ Starts(items, file.items, k)
    BY <2>1, First
  <2> QED BY <2>2 DEF Starts
<1>4. at = NamesOf(items) /\ E = LoadedEntries(items) /\ X = Range(at) /\ f = Rounds(E, at)
  OBVIOUS
<1> HIDE DEF items, at, E, X, f, k
<1>5. /\ Lists(at, X) /\ Len(at) = Len(items)
      /\ \A i \in 1 .. Len(items) :
            /\ at[i] = items[i].name
            /\ E[at[i]] = [score |-> items[i].score, timestamp |-> items[i].timestamp, id |-> i - 1]
      /\ DOMAIN E = X /\ Owns(E, X)
      /\ \A p \in X : E[p].id < Len(items)
      /\ InOrder(items) => Sorted(at, Order(TRUE, E, X))
  <2>1. ReadBack(items, at, E, X)
    BY <1>2, <1>4, LoadedItems
  <2> QED BY <2>1, Zenon DEF ReadBack
<1>6. /\ Lists(f[Len(at)], X) /\ Sorted(f[Len(at)], Order(TRUE, E, X))
      /\ Len(f[Len(at)]) = Len(at)
      /\ Sorted(at, Order(TRUE, E, X)) => f[Len(at)] = at
  <2>1. Owns(E, X) /\ Lists(at, X)
    BY <1>5
  <2>2. Sorts(f[Len(at)], at, X, Order(TRUE, E, X))
    BY <1>4, <2>1, RoundsRank, Zenon
  <2> QED BY <2>2, Zenon DEF Sorts
<1>7. Board(TRUE, entries', ranking')
  BY <1>1, <1>5, <1>6, ZenonT(30) DEF Board
<1>8. Len(ranking') = k /\ k \in Nat
  BY <1>1, <1>3, <1>5, <1>6
<1>9. ASSUME InOrder(file.items), NEW i \in 1 .. Len(ranking')
      PROVE  /\ ranking'[i] = file.items[i].name
             /\ entries'[ranking'[i]].score = file.items[i].score
             /\ entries'[ranking'[i]].timestamp = file.items[i].timestamp
  <2>1. ranking' = at
    BY <1>1, <1>2, <1>5, <1>6, <1>9
  <2>2. i \in 1 .. Len(items) /\ items[i] = file.items[i]
    BY <1>3, <1>8
  <2>3. /\ at[i] = items[i].name
        /\ E[at[i]] = [score |-> items[i].score, timestamp |-> items[i].timestamp, id |-> i - 1]
    BY <1>5, <2>2
  <2>4. E[at[i]].score = items[i].score /\ E[at[i]].timestamp = items[i].timestamp
    BY <2>3
  <2> QED BY <1>1, <2>1, <2>2, <2>3, <2>4
<1>10. next_id' \in Nat /\ \A p \in DOMAIN entries' : entries'[p].id < next_id'
  BY <1>1, <1>3, <1>5, <1>8
<1> QED BY <1>1, <1>3, <1>7, <1>8, <1>9, <1>10, Zenon DEF k

(***************************************************************************)
(* A board without players.                                                *)
(***************************************************************************)
LEMMA EmptyBoard ==
    ASSUME NEW hf
    PROVE  Board(hf, <<>>, <<>>) /\ ItemSeq(<<>>) /\ InOrder(<<>>) /\ DOMAIN <<>> = {}
<1>1. DOMAIN <<>> = {} /\ <<>> = [p \in {} |-> p] /\ Len(<<>>) = 0
  OBVIOUS
<1>2. Owns(<<>>, {})
  BY <1>1 DEF Owns
<1>3. <<>> \in Seq({}) /\ <<>> \in Seq(Item)
  OBVIOUS
<1>4. Lists(<<>>, {}) /\ Sorted(<<>>, Order(hf, <<>>, {}))
  BY <1>1, <1>3 DEF Lists, Sorted
<1>5. ItemSeq(<<>>) /\ InOrder(<<>>)
  BY <1>1, <1>3 DEF ItemSeq, InOrder
<1> QED BY <1>1, <1>2, <1>4, <1>5 DEF Board

(***************************************************************************)
(* The constructor's board, before the file is read.                       *)
(***************************************************************************)
LEMMA Initially ==
    ASSUME Init
    PROVE  Inv
<1>1. /\ phase = "down" /\ file = NoFile /\ tmp = NoFile /\ saved = <<>>
      /\ entries = <<>> /\ ranking = <<>> /\ highest_first = HighestFirst
      /\ next_id = 0 /\ max_size \in MaxSizes /\ returned = Nobody
  BY DEF Init, DiskInit
<1>2. Disk(phase, file, tmp, saved, Items(ranking))
  BY <1>1 DEF Disk, NoFile
<1>3. Board(highest_first, <<>>, <<>>) /\ ItemSeq(<<>>) /\ InOrder(<<>>) /\ DOMAIN <<>> = {}
  BY EmptyBoard
<1>4. max_size \in Nat \ {0} /\ highest_first \in BOOLEAN
  BY <1>1, LeaderboardAssumption
<1>5. Len(<<>>) = 0
  OBVIOUS
<1>6. Ok
  BY <1>1, <1>3, <1>4, <1>5 DEF Ok
<1>7. PlacementReported
  BY <1>1 DEF PlacementReported
<1> QED BY <1>1, <1>2, <1>3, <1>6, <1>7 DEF Inv

(***************************************************************************)
(* submit_score keeps the board in order and reports the placement.        *)
(***************************************************************************)
LEMMA SubmitStep ==
    ASSUME Inv, NEW p \in Players, NEW score \in Int, NEW now \in Int,
           submit_score(p, score, now)
    PROVE  Inv'
<1>0. Ok /\ next_id \in Nat /\ highest_first \in BOOLEAN /\ max_size \in Nat \ {0}
  BY DEF Inv, Ok
<1>1. /\ phase = "idle" /\ phase' = "idle" /\ highest_first' = highest_first
      /\ max_size' = max_size /\ file' = file /\ saved' = saved
  BY DEF submit_score, Running, disk
<1>2. Disk(phase', file', tmp', saved', Items(ranking)')
  BY <1>1 DEF Inv, Disk
<1>3. ASSUME Board(highest_first, entries', ranking'), Len(ranking') <= max_size,
             \A q \in DOMAIN entries' : entries'[q].id < next_id',
             next_id' \in Nat,
             returned' = Nobody \/ At(ranking', returned'.player, returned'.placement)
      PROVE  Inv'
  <2>1. Ok'
    BY <1>0, <1>1, <1>3 DEF Ok
  <2>2. PlacementReported'
    <3>1. CASE returned' = Nobody
      BY <3>1 DEF PlacementReported
    <3>2. CASE At(ranking', returned'.player, returned'.placement)
      <4>1. Len(ranking') \in Nat
        BY <1>3, BoardElements
      <4> QED BY <3>2, <4>1 DEF PlacementReported, At
    <3> QED BY <1>3, <3>1, <3>2
  <2>3. ItemSeq(saved') /\ (HighestFirst => InOrder(saved') /\ highest_first')
    BY <1>1 DEF Inv
  <2> QED BY <1>1, <1>2, <2>1, <2>2, <2>3 DEF Inv
<1>4. \A q \in DOMAIN entries : entries[q].id \in Int /\ entries[q].id < next_id
  <2>1. \A q \in DOMAIN entries : entries[q] \in Entry
    BY <1>0 DEF Ok, Board, Owns
  <2> QED BY <1>0, <2>1, EntryTypes DEF Ok
<1>5. CASE UpdateExisting(p, score, now)
  <2>1. /\ Board(highest_first, entries', ranking') /\ Len(ranking') = Len(ranking)
        /\ DOMAIN entries' = DOMAIN entries /\ entries'[p] = NewEntry(score, now)
        /\ \A q \in DOMAIN entries \ {p} : entries'[q] = entries[q]
        /\ next_id' = next_id + 1
        /\ returned'.player = p /\ At(ranking', p, returned'.placement)
    BY <1>0, <1>5, UpdateStep, ZenonT(30)
  <2>2. entries'[p].id = next_id
    <3>1. NewEntry(score, now).id = next_id
      BY <1>0, FreshEntry
    <3> QED BY <2>1, <3>1
  <2>3. \A q \in DOMAIN entries' : entries'[q].id < next_id'
    BY <1>0, <1>4, <2>1, <2>2
  <2>4. Len(ranking') <= max_size
    BY <1>0, <2>1 DEF Ok
  <2> QED BY <1>0, <1>3, <2>1, <2>3, <2>4
<1>6. CASE KeepExisting(p, score)
  <2>1. /\ entries' = entries /\ ranking' = ranking /\ next_id' = next_id
        /\ returned' = Nobody
    BY <1>6 DEF KeepExisting
  <2> QED BY <1>0, <1>3, <2>1 DEF Ok
<1>7. CASE AddPlayer(p, score, now)
  <2> DEFINE last == ranking[Len(ranking)]
  <2>1. /\ Board(highest_first, entries', ranking')
        /\ Len(ranking') = IF Full THEN Len(ranking) ELSE Len(ranking) + 1
        /\ DOMAIN entries' = IF Full THEN (DOMAIN entries \cup {p}) \ {last}
                                     ELSE DOMAIN entries \cup {p}
        /\ entries'[p] = NewEntry(score, now)
        /\ \A q \in DOMAIN entries' \ {p} : entries'[q] = entries[q]
        /\ next_id' = next_id + 1
        /\ returned'.player = p /\ At(ranking', p, returned'.placement)
    BY <1>0, <1>7, AddStep, Zenon
  <2>2. entries'[p].id = next_id
    <3>1. NewEntry(score, now).id = next_id
      BY <1>0, FreshEntry
    <3> QED BY <2>1, <3>1
  <2>3. \A q \in DOMAIN entries' : q \in DOMAIN entries \/ q = p
    BY <2>1
  <2>4. \A q \in DOMAIN entries' : entries'[q].id < next_id'
    BY <1>0, <1>4, <2>1, <2>2, <2>3
  <2>5. Len(ranking') <= max_size
    <3>1. Len(ranking) \in Nat
      BY <1>0, BoardElements DEF Ok
    <3> QED BY <1>0, <2>1, <3>1 DEF Ok, Full
  <2> QED BY <1>0, <1>3, <2>1, <2>4, <2>5
<1>8. CASE RefusePlayer(p, score, now)
  <2>1. /\ entries' = entries /\ ranking' = ranking /\ next_id' = next_id + 1
        /\ returned' = Nobody
    BY <1>8 DEF RefusePlayer
  <2> QED BY <1>0, <1>3, <1>4, <2>1 DEF Ok
<1> QED BY <1>5, <1>6, <1>7, <1>8 DEF submit_score

(***************************************************************************)
(* The other steps: save(), the end of the process, and the constructor,   *)
(* which reads the file, if there is one.                                  *)
(***************************************************************************)
LEMMA ConstructStep ==
    ASSUME Inv, NEW size \in Nat \ {0}, Construct(size)
    PROVE  /\ phase = "down" /\ phase' = "idle" /\ max_size' = size /\ saved' = saved
           /\ size \in Nat \ {0} /\ Len(saved) \in Nat
           /\ Board(highest_first', entries', ranking')
           /\ Len(ranking') = Least(size, Len(saved)) /\ Len(ranking') <= size
           /\ HighestFirst => \A i \in 1 .. Len(ranking') :
                                 /\ ranking'[i] = saved[i].name
                                 /\ entries'[ranking'[i]].score = saved[i].score
                                 /\ entries'[ranking'[i]].timestamp = saved[i].timestamp
           /\ Inv'
<1>1. /\ phase = "down" /\ phase' = "idle" /\ max_size' = size
      /\ file' = file /\ tmp' = tmp /\ saved' = saved /\ returned' = returned
      /\ IF file.state = "complete" THEN load(size)
         ELSE /\ entries' = entries /\ ranking' = ranking
              /\ highest_first' = highest_first /\ next_id' = next_id
  BY DEF Construct, disk
<1>2. /\ size \in Nat \ {0}
      /\ file.items = saved /\ file.state \in {"absent", "complete"}
      /\ file.state = "absent" => saved = <<>>
      /\ ItemSeq(saved) /\ (HighestFirst => InOrder(saved) /\ highest_first)
      /\ entries = <<>> /\ ranking = <<>> /\ returned = Nobody /\ Ok
  BY <1>1 DEF Inv, Disk
<1>3. Len(saved) \in Nat
  BY <1>2, LenProperties DEF ItemSeq
<1>4. /\ Board(highest_first', entries', ranking') /\ highest_first' \in BOOLEAN
      /\ next_id' \in Nat /\ \A p \in DOMAIN entries' : entries'[p].id < next_id'
      /\ Len(ranking') = Least(size, Len(saved)) /\ Len(ranking') <= size
      /\ HighestFirst => \A i \in 1 .. Len(ranking') :
                            /\ ranking'[i] = saved[i].name
                            /\ entries'[ranking'[i]].score = saved[i].score
                            /\ entries'[ranking'[i]].timestamp = saved[i].timestamp
      /\ HighestFirst => highest_first'
  <2>1. CASE file.state = "complete"
    <3>1. load(size)
      BY <1>1, <2>1
    <3>2. ItemSeq(file.items)
      BY <1>2
    <3>3. /\ Board(TRUE, entries', ranking') /\ highest_first' = TRUE
          /\ next_id' \in Nat /\ \A p \in DOMAIN entries' : entries'[p].id < next_id'
          /\ Len(ranking') = Least(size, Len(file.items)) /\ Len(ranking') <= size
          /\ InOrder(file.items) =>
                \A i \in 1 .. Len(ranking') :
                   /\ ranking'[i] = file.items[i].name
                   /\ entries'[ranking'[i]].score = file.items[i].score
                   /\ entries'[ranking'[i]].timestamp = file.items[i].timestamp
      BY <1>2, <3>1, <3>2, LoadStep, Zenon
    <3> QED BY <1>2, <3>3, Zenon
  <2>2. CASE file.state = "absent"
    <3>1. /\ entries' = <<>> /\ ranking' = <<>> /\ saved = <<>>
          /\ highest_first' = highest_first /\ next_id' = next_id
      BY <1>1, <1>2, <2>2
    <3>2. Len(<<>>) = 0 /\ DOMAIN <<>> = {} /\ Board(highest_first, <<>>, <<>>)
      BY EmptyBoard
    <3>3. Len(ranking') = Least(size, Len(saved)) /\ Len(ranking') <= size
      BY <1>2, <3>1, <3>2 DEF Least
    <3> QED BY <1>2, <3>1, <3>2, <3>3 DEF Ok
  <2> QED BY <1>2, <2>1, <2>2
<1>5. Ok'
  BY <1>1, <1>2, <1>4 DEF Ok
<1>6. Disk(phase', file', tmp', saved', Items(ranking)')
  BY <1>1, <1>2 DEF Disk
<1>7. PlacementReported'
  BY <1>1, <1>2 DEF PlacementReported
<1>8. ItemSeq(saved') /\ (HighestFirst => InOrder(saved') /\ highest_first')
  BY <1>1, <1>2, <1>4
<1>9. Inv'
  BY <1>1, <1>5, <1>6, <1>7, <1>8 DEF Inv
<1> QED BY <1>1, <1>2, <1>3, <1>4, <1>9

(***************************************************************************)
(* Inv is inductive.                                                       *)
(***************************************************************************)
LEMMA Inductive ==
    ASSUME Inv, Next
    PROVE  Inv'
<1>1. CASE \E p \in Players, score \in Scores, now \in Times : submit_score(p, score, now)
  BY <1>1, SubmitStep, LeaderboardAssumption
<1>2. CASE save
  <2> DEFINE items == Items(ranking)
  <2>1. /\ Save(items) /\ entries' = entries /\ ranking' = ranking
        /\ highest_first' = highest_first /\ next_id' = next_id /\ max_size' = max_size
        /\ returned' = returned
    BY <1>2 DEF save, board
  <2>2. items' = items
    BY <2>1 DEF Items
  <2>3. Disk(phase, file, tmp, saved, items) /\ Ok /\ Board(highest_first, entries, ranking)
    BY DEF Inv, Ok
  <2>4. /\ Disk(phase', file', tmp', saved', items) /\ saved' \in {saved, items}
        /\ phase # "down" /\ phase' # "down"
    <3> HIDE DEF items
    <3> QED BY <2>1, <2>3, SaveStep
  <2>5. ItemSeq(items) /\ (highest_first => InOrder(items))
    BY <2>3, SavedItems
  <2> HIDE DEF items
  <2>6. ItemSeq(saved') /\ (HighestFirst => InOrder(saved') /\ highest_first')
    BY <2>1, <2>4, <2>5 DEF Inv
  <2>7. Ok' /\ PlacementReported'
    BY <2>1 DEF Inv, Ok, PlacementReported
  <2>8. Disk(phase', file', tmp', saved', Items(ranking)')
    BY <2>2, <2>4 DEF items
  <2> QED BY <2>4, <2>6, <2>7, <2>8 DEF Inv
<1>3. CASE Gone
  <2>1. /\ phase' = "down" /\ file' = file /\ saved' = saved
        /\ entries' = <<>> /\ ranking' = <<>> /\ highest_first' = HighestFirst /\ next_id' = 0
        /\ returned' = Nobody /\ max_size' = max_size
    BY <1>3 DEF Gone, Dies, disk
  <2>2. Board(HighestFirst, <<>>, <<>>) /\ DOMAIN <<>> = {} /\ Len(<<>>) = 0
    BY EmptyBoard
  <2>3. max_size \in Nat \ {0} /\ HighestFirst \in BOOLEAN
    BY LeaderboardAssumption DEF Inv, Ok
  <2>4. Ok'
    BY <2>1, <2>2, <2>3 DEF Ok
  <2>5. Disk(phase', file', tmp', saved', Items(ranking)')
    BY <2>1 DEF Inv, Disk
  <2>6. PlacementReported'
    BY <2>1 DEF PlacementReported
  <2>7. ItemSeq(saved') /\ (HighestFirst => InOrder(saved') /\ highest_first')
    BY <2>1 DEF Inv
  <2> QED BY <2>1, <2>4, <2>5, <2>6, <2>7 DEF Inv
<1>4. CASE \E size \in MaxSizes : Construct(size)
  BY <1>4, ConstructStep, LeaderboardAssumption
<1> QED BY <1>1, <1>2, <1>3, <1>4 DEF Next

(***************************************************************************)
(* Inv as RankingMatchesEntries states it.                                 *)
(***************************************************************************)
LEMMA Matches ==
    ASSUME Inv
    PROVE  RankingMatchesEntries
<1>1. Board(highest_first, entries, ranking) /\ Len(ranking) <= max_size
  BY DEF Inv, Ok
<1>2. /\ DOMAIN ranking = 1 .. Len(ranking)
      /\ \A i \in 1 .. Len(ranking) : ranking[i] \in DOMAIN entries
      /\ \A p \in DOMAIN entries : \E i \in 1 .. Len(ranking) : ranking[i] = p
      /\ \A i, j \in 1 .. Len(ranking) : i < j =>
            leaderboard_entry_comparator(highest_first, entries[ranking[i]], entries[ranking[j]])
  BY <1>1, BoardElements
<1>3. \A i, j \in 1 .. Len(ranking) : ranking[i] = ranking[j] => i = j
  BY <1>1 DEF Board, Lists
<1>4. IsInjective(ranking)
  BY <1>2, <1>3 DEF IsInjective
<1>5. Range(ranking) = DOMAIN entries
  BY <1>2, Zenon DEF Range
<1> QED BY <1>1, <1>2, <1>4, <1>5 DEF RankingMatchesEntries

(***************************************************************************)
(* The board that the constructor makes from a file with the highest score *)
(* first.                                                                  *)
(***************************************************************************)
LEMMA Reload ==
    ASSUME HighestFirst, Inv, NEW size \in Nat \ {0}, Construct(size)
    PROVE  Items(ranking)' = FirstOf(saved, max_size')
<1> DEFINE k == Least(size, Len(saved))
           f == FirstOf(saved, size)
           g == Items(ranking)'
<1>1. /\ max_size' = size /\ size \in Nat \ {0} /\ Len(saved) \in Nat
      /\ Board(highest_first', entries', ranking') /\ Len(ranking') = k
      /\ HighestFirst => \A i \in 1 .. Len(ranking') :
                            /\ ranking'[i] = saved[i].name
                            /\ entries'[ranking'[i]].score = saved[i].score
                            /\ entries'[ranking'[i]].timestamp = saved[i].timestamp
  BY ConstructStep
<1>2. DOMAIN ranking' = 1 .. k
  BY <1>1, BoardElements
<1>3. /\ saved \in Seq(Item) /\ k = Least(size, Len(saved))
  BY DEF Inv, ItemSeq
<1>4. k \in 0 .. Len(saved) /\ f \in Seq(Item) /\ Starts(f, saved, k)
  <2> HIDE DEF k
  <2> QED BY <1>1, <1>3, First
<1>5. g = [i \in 1 .. k |-> [name |-> ranking'[i], score |-> entries'[ranking'[i]].score,
                             timestamp |-> entries'[ranking'[i]].timestamp]]
  BY <1>2 DEF Items
<1>6. DOMAIN f = 1 .. k /\ \A i \in 1 .. k : f[i] = saved[i]
  BY <1>4, LenProperties DEF Starts
<1> HIDE DEF k, f, g
<1>7. ASSUME NEW i \in 1 .. k PROVE g[i] = f[i]
  <2>1. saved[i] \in Item
    <3>1. i \in 1 .. Len(saved)
      BY <1>1, <1>4
    <3> QED BY <1>3, <3>1, ElementOfSeq
  <2>2. saved[i] = [name |-> saved[i].name, score |-> saved[i].score,
                    timestamp |-> saved[i].timestamp]
    BY <2>1 DEF Item
  <2>3. g[i] = [name |-> ranking'[i], score |-> entries'[ranking'[i]].score,
                timestamp |-> entries'[ranking'[i]].timestamp]
    BY <1>5
  <2>4. /\ ranking'[i] = saved[i].name
        /\ entries'[ranking'[i]].score = saved[i].score
        /\ entries'[ranking'[i]].timestamp = saved[i].timestamp
    BY <1>1
  <2> QED BY <1>6, <2>2, <2>3, <2>4
<1>8. g = [i \in 1 .. k |-> g[i]] /\ f = [i \in 1 .. k |-> f[i]]
  <2>1. f = [i \in DOMAIN f |-> f[i]]
    BY <1>4
  <2> QED BY <1>5, <1>6, <2>1
<1>9. g = f
  BY <1>7, <1>8
<1> QED BY <1>1, <1>9 DEF f, g

-----------------------------------------------------------------------------
(* The best scores. *)

\* The score b of p is shown, or it is not good enough for the board.
Kept(p, b, E, r, size) ==
    \/ p \in DOMAIN E /\ E[p].score = b
    \/ p \notin DOMAIN E /\ Len(r) = size /\ \A q \in DOMAIN E : E[q].score >= b

\* b, the best scores, is right about a board of the given size.
Shows(b, E, r, size) ==
    /\ DOMAIN E \subseteq DOMAIN b
    /\ \A p \in DOMAIN b : b[p] \in Int /\ Kept(p, b[p], E, r, size)

Best == Shows(best, entries, ranking, max_size) /\ (phase = "down" => best = <<>>)

(***************************************************************************)
(* The scores of the entries are numbers, and the last one is the lowest.  *)
(***************************************************************************)
LEMMA LastIsLowest ==
    ASSUME Ok, highest_first
    PROVE  /\ \A q \in DOMAIN entries : entries[q] \in Entry /\ entries[q].score \in Int
           /\ Len(ranking) \in Nat
           /\ Len(ranking) > 0 =>
                 /\ ranking[Len(ranking)] \in DOMAIN entries
                 /\ \A q \in DOMAIN entries :
                       entries[q].score >= entries[ranking[Len(ranking)]].score
<1> DEFINE n == Len(ranking)
<1>1. /\ n \in Nat
      /\ \A i \in 1 .. n : ranking[i] \in DOMAIN entries
      /\ \A p \in DOMAIN entries : \E i \in 1 .. n : ranking[i] = p
      /\ \A i, j \in 1 .. n : i < j =>
            leaderboard_entry_comparator(highest_first, entries[ranking[i]], entries[ranking[j]])
  <2>1. Board(highest_first, entries, ranking)
    BY DEF Ok
  <2>2. n \in Nat /\ \A i \in 1 .. n : ranking[i] \in DOMAIN entries
    BY <2>1, BoardElements, Zenon
  <2>3. \A p \in DOMAIN entries : \E i \in 1 .. n : ranking[i] = p
    BY <2>1 DEF Board, Lists
  <2>4. \A i, j \in 1 .. n : i < j =>
            leaderboard_entry_comparator(highest_first, entries[ranking[i]], entries[ranking[j]])
    BY <2>1, BoardElements, Zenon
  <2> QED BY <2>2, <2>3, <2>4, Zenon
<1>2. ASSUME NEW q \in DOMAIN entries PROVE entries[q] \in Entry /\ entries[q].score \in Int
  <2>1. entries[q] \in Entry
    BY DEF Ok, Board, Owns
  <2> QED BY <2>1, EntryTypes
<1>3. ASSUME n > 0, NEW q \in DOMAIN entries
      PROVE  entries[q].score >= entries[ranking[n]].score
  <2>1. PICK i \in 1 .. n : ranking[i] = q
    BY <1>1
  <2>2. n \in 1 .. n /\ ranking[n] \in DOMAIN entries
    BY <1>1, <1>3
  <2>3. CASE i = n
    BY <1>2, <2>1, <2>3
  <2>4. CASE i # n
    <3>0. i < n
      BY <1>1, <2>4
    <3>1. leaderboard_entry_comparator(highest_first, entries[q], entries[ranking[n]])
      BY <1>1, <2>1, <2>2, <3>0, Zenon
    <3>2. entries[q].score \in Int /\ entries[ranking[n]].score \in Int
      BY <1>2, <2>2
    <3> QED BY <3>1, <3>2 DEF leaderboard_entry_comparator, Better
  <2> QED BY <2>3, <2>4
<1>4. n > 0 => ranking[n] \in DOMAIN entries
  BY <1>1
<1> QED BY <1>1, <1>2, <1>3, <1>4

\* c is b after p has submitted the score, on a board with the highest first.
Raised(c, b, p, score) ==
    /\ DOMAIN c = DOMAIN b \cup {p}
    /\ \A q \in DOMAIN b \ {p} : c[q] = b[q]
    /\ c[p] = IF p \in DOMAIN b /\ ~ (score > b[p]) THEN b[p] ELSE score

Scored(E) == \A q \in DOMAIN E : E[q].score \in Int

(***************************************************************************)
(* A player on the board improves its score, or gets the same one again.   *)
(***************************************************************************)
LEMMA ShowsUpdated ==
    ASSUME NEW E, NEW F, NEW r, NEW s, NEW size, NEW b, NEW c, NEW p \in DOMAIN E,
           NEW score \in Int, Scored(E), Shows(b, E, r, size), Raised(c, b, p, score),
           score >= E[p].score, F[p].score = score, DOMAIN F = DOMAIN E,
           \A q \in DOMAIN E \ {p} : F[q] = E[q], Len(s) = Len(r)
    PROVE  Shows(c, F, s, size)
<1>1. p \in DOMAIN b /\ b[p] = E[p].score /\ E[p].score \in Int
  BY DEF Shows, Kept, Scored
<1>2. c[p] = score
  BY <1>1 DEF Raised
<1>3. \A q \in DOMAIN E : F[q].score >= E[q].score /\ F[q].score \in Int /\ E[q].score \in Int
  BY DEF Scored
<1>4. ASSUME NEW q \in DOMAIN c PROVE c[q] \in Int /\ Kept(q, c[q], F, s, size)
  <2>1. CASE q = p
    BY <1>2, <2>1 DEF Kept
  <2>2. CASE q # p
    <3>1. q \in DOMAIN b /\ c[q] = b[q] /\ b[q] \in Int /\ Kept(q, b[q], E, r, size)
      BY <2>2 DEF Raised, Shows
    <3> QED BY <1>3, <2>2, <3>1 DEF Kept
  <2> QED BY <2>1, <2>2
<1> QED BY <1>4 DEF Shows, Raised

(***************************************************************************)
(* A score that is not better than the one shown changes nothing.          *)
(***************************************************************************)
LEMMA ShowsAsBefore ==
    ASSUME NEW E, NEW r, NEW size, NEW b, NEW c, NEW p \in DOMAIN E,
           NEW score \in Int, Scored(E), Shows(b, E, r, size), Raised(c, b, p, score),
           ~ (score > E[p].score)
    PROVE  Shows(c, E, r, size)
<1>1. p \in DOMAIN b /\ b[p] = E[p].score
  BY DEF Shows, Kept
<1>2. DOMAIN c = DOMAIN b /\ \A q \in DOMAIN c : c[q] = b[q]
  BY <1>1 DEF Raised
<1> QED BY <1>2 DEF Shows

(***************************************************************************)
(* A newcomer gets a place, if need be that of the last one, which has     *)
(* none of the scores above the newcomer's.                                *)
(***************************************************************************)
LEMMA ShowsAdded ==
    ASSUME NEW E, NEW F, NEW r, NEW s, NEW size, NEW b, NEW c, NEW p, NEW last, p \notin DOMAIN E,
           NEW score \in Int, Scored(E), Shows(b, E, r, size), Raised(c, b, p, score),
           Len(r) = size => /\ last \in DOMAIN E /\ score >= E[last].score /\ Len(s) = size
                            /\ \A q \in DOMAIN E : E[q].score >= E[last].score
                            /\ DOMAIN F = (DOMAIN E \cup {p}) \ {last},
           Len(r) # size => DOMAIN F = DOMAIN E \cup {p},
           F[p].score = score, \A q \in DOMAIN F \ {p} : F[q] = E[q]
    PROVE  Shows(c, F, s, size)
<1>1. ASSUME NEW q \in DOMAIN b, q \notin DOMAIN E
      PROVE  Len(r) = size /\ score >= b[q] /\ \A x \in DOMAIN E : E[x].score >= b[q]
  <2>1. Len(r) = size /\ b[q] \in Int /\ \A x \in DOMAIN E : E[x].score >= b[q]
    BY <1>1 DEF Shows, Kept
  <2>2. E[last].score >= b[q] /\ score >= E[last].score /\ E[last].score \in Int
    BY <2>1 DEF Scored
  <2> QED BY <2>1, <2>2
<1>2. c[p] = score
  <2>1. CASE p \in DOMAIN b
    <3>1. score >= b[p] /\ b[p] \in Int
      BY <1>1, <2>1 DEF Shows
    <3> QED BY <2>1, <3>1 DEF Raised
  <2>2. CASE p \notin DOMAIN b
    BY <2>2 DEF Raised
  <2> QED BY <2>1, <2>2
<1>3. /\ p \in DOMAIN F
      /\ \A x \in DOMAIN F : x = p \/ (x \in DOMAIN E /\ F[x] = E[x])
  OBVIOUS
<1>4. ASSUME NEW q \in DOMAIN b, q # p PROVE Kept(q, b[q], F, s, size)
  <2>1. b[q] \in Int /\ Kept(q, b[q], E, r, size)
    BY DEF Shows
  <2>2. CASE q \notin DOMAIN E
    <3>1. Len(r) = size /\ score >= b[q] /\ \A x \in DOMAIN E : E[x].score >= b[q]
      BY <1>1, <2>2
    <3>2. \A x \in DOMAIN F : F[x].score >= b[q]
      BY <1>3, <3>1
    <3>3. Len(s) = size /\ q \notin DOMAIN F
      BY <1>3, <1>4, <2>2, <3>1
    <3> QED BY <3>2, <3>3 DEF Kept
  <2>3. CASE q \in DOMAIN F
    <3>1. q \in DOMAIN E /\ F[q] = E[q]
      BY <1>3, <1>4, <2>3
    <3> QED BY <2>1, <2>3, <3>1 DEF Kept
  <2>4. CASE q \in DOMAIN E /\ q \notin DOMAIN F
    <3>1. Len(r) = size /\ q = last
      BY <2>4
    <3>2. E[last].score = b[q]
      BY <2>1, <2>4, <3>1 DEF Kept
    <3>3. Len(s) = size /\ \A x \in DOMAIN F : F[x].score >= b[q]
      BY <1>3, <3>1, <3>2
    <3> QED BY <2>4, <3>3 DEF Kept
  <2> QED BY <2>2, <2>3, <2>4
<1>5. ASSUME NEW q \in DOMAIN c PROVE c[q] \in Int /\ Kept(q, c[q], F, s, size)
  <2>1. CASE q = p
    BY <1>2, <1>3, <2>1 DEF Kept
  <2>2. CASE q # p
    <3>1. q \in DOMAIN b /\ c[q] = b[q] /\ b[q] \in Int
      BY <2>2 DEF Raised, Shows
    <3> QED BY <1>4, <2>2, <3>1
  <2> QED BY <2>1, <2>2
<1>6. DOMAIN F \subseteq DOMAIN c
  BY <1>3 DEF Raised, Shows
<1> QED BY <1>5, <1>6 DEF Shows

(***************************************************************************)
(* A newcomer that a full board refuses is not better than anyone on it.   *)
(***************************************************************************)
LEMMA ShowsRefused ==
    ASSUME NEW E, NEW r, NEW size, NEW b, NEW c, NEW p, p \notin DOMAIN E,
           NEW score \in Int, Shows(b, E, r, size), Raised(c, b, p, score),
           Len(r) = size, \A q \in DOMAIN E : E[q].score >= score
    PROVE  Shows(c, E, r, size)
<1>1. ASSUME NEW q \in DOMAIN c PROVE c[q] \in Int /\ Kept(q, c[q], E, r, size)
  <2>1. CASE q \in DOMAIN b /\ c[q] = b[q]
    BY <2>1 DEF Shows
  <2>2. CASE q = p /\ c[q] = score
    BY <2>2 DEF Kept
  <2> QED BY <2>1, <2>2 DEF Raised
<1>2. DOMAIN E \subseteq DOMAIN c
  BY DEF Shows, Raised
<1> QED BY <1>1, <1>2 DEF Shows

(***************************************************************************)
(* submit_score compares an existing player's score with the stored one:   *)
(* the entry changes only if the score is not worse, and stays only if it  *)
(* is not better.                                                          *)
(***************************************************************************)
LEMMA CandidateCompared ==
    ASSUME NEW p \in DOMAIN entries, NEW score \in Int, entries[p].score \in Int, highest_first
    PROVE  /\ TRUE \in CandidateBefore(score, p) => score >= entries[p].score
           /\ FALSE \in CandidateBefore(score, p) => ~ (score > entries[p].score)
<1>1. CASE score = entries[p].score
  <2>1. score >= entries[p].score /\ ~ (score > entries[p].score)
    BY <1>1
  <2> QED BY <2>1, Zenon
<1>2. CASE score # entries[p].score
  <2> DEFINE b == Better(highest_first, score, entries[p].score)
  <2>1. CandidateBefore(score, p) = {b}
    BY <1>2 DEF CandidateBefore
  <2>2. b = TRUE => score >= entries[p].score
    BY DEF Better
  <2>3. b = FALSE => ~ (score > entries[p].score)
    BY DEF Better
  <2> HIDE DEF b
  <2> QED BY <2>1, <2>2, <2>3, ZenonT(30)
<1> QED BY <1>1, <1>2, Zenon

(***************************************************************************)
(* submit_score keeps the board right about the best scores.               *)
(***************************************************************************)
LEMMA BestSubmit ==
    ASSUME HighestFirst, Inv, Best, NEW p \in Players, NEW score \in Int, NEW now \in Int,
           submit_score(p, score, now)
    PROVE  Best'
<1> DEFINE last == ranking[Len(ranking)]
           e == NewEntry(score, now)
<1>1. /\ Ok /\ highest_first /\ max_size \in Nat \ {0} /\ Len(ranking) <= max_size
      /\ Shows(best, entries, ranking, max_size)
  BY DEF Inv, Ok, Best
<1>2. phase' # "down" /\ max_size' = max_size /\ Raised(best', best, p, score)
  <2>1. /\ phase' # "down" /\ max_size' = max_size
        /\ best' = IF p \in DOMAIN best /\ ~ (score > best[p]) THEN best
                   ELSE emplace(best, p, score)
    BY DEF submit_score, Running, Better
  <2>2. CASE p \in DOMAIN best /\ ~ (score > best[p])
    BY <2>1, <2>2 DEF Raised
  <2>3. CASE ~ (p \in DOMAIN best /\ ~ (score > best[p]))
    BY <2>1, <2>3 DEF Raised, emplace
  <2> QED BY <2>1, <2>2, <2>3
<1>3. /\ Scored(entries) /\ Len(ranking) \in Nat
      /\ Len(ranking) > 0 =>
            /\ last \in DOMAIN entries /\ entries[last].score \in Int
            /\ \A q \in DOMAIN entries : entries[q].score >= entries[last].score
  BY <1>1, LastIsLowest DEF Scored
<1>4. e.score = score
  BY <1>1, FreshEntry
<1> HIDE DEF last, e
<1>5. ASSUME Shows(best', entries', ranking', max_size) PROVE Best'
  BY <1>2, <1>5 DEF Best
<1>6. CASE UpdateExisting(p, score, now)
  <2>1. /\ Len(ranking') = Len(ranking) /\ DOMAIN entries' = DOMAIN entries /\ p \in DOMAIN entries
        /\ entries'[p] = e /\ \A q \in DOMAIN entries \ {p} : entries'[q] = entries[q]
        /\ TRUE \in CandidateBefore(score, p)
    BY <1>1, <1>6, UpdateStep, Zenon DEF e
  <2>2. score >= entries[p].score
    BY <1>1, <1>3, <2>1, CandidateCompared, ZenonT(30) DEF Scored
  <2>3. Shows(best', entries', ranking', max_size)
    BY <1>1, <1>2, <1>3, <1>4, <2>1, <2>2, ShowsUpdated
  <2> QED BY <1>5, <2>3
<1>7. CASE KeepExisting(p, score)
  <2>1. /\ p \in DOMAIN entries /\ FALSE \in CandidateBefore(score, p)
        /\ entries' = entries /\ ranking' = ranking
    BY <1>7, Zenon DEF KeepExisting
  <2>2. ~ (score > entries[p].score)
    BY <1>1, <1>3, <2>1, CandidateCompared, ZenonT(30) DEF Scored
  <2>3. Shows(best', entries, ranking, max_size)
    BY <1>1, <1>2, <1>3, <2>1, <2>2, ShowsAsBefore
  <2> QED BY <1>5, <2>1, <2>3
<1>8. CASE AddPlayer(p, score, now)
  <2>1. /\ Len(ranking') = IF Full THEN Len(ranking) ELSE Len(ranking) + 1
        /\ DOMAIN entries' = IF Full THEN (DOMAIN entries \cup {p}) \ {last}
                                     ELSE DOMAIN entries \cup {p}
        /\ p \notin DOMAIN entries
        /\ Full => Len(ranking) > 0 /\ leaderboard_entry_comparator(highest_first, e, entries[last])
        /\ entries'[p] = e
        /\ \A q \in DOMAIN entries' \ {p} : entries'[q] = entries[q]
    BY <1>1, <1>8, AddStep, Zenon DEF last, e
  <2>2. Full => score >= entries[last].score
    BY <1>1, <1>3, <1>4, <2>1 DEF leaderboard_entry_comparator, Better
  <2>3. Len(ranking) = max_size =>
           /\ last \in DOMAIN entries /\ score >= entries[last].score /\ Len(ranking') = max_size
           /\ \A q \in DOMAIN entries : entries[q].score >= entries[last].score
           /\ DOMAIN entries' = (DOMAIN entries \cup {p}) \ {last}
    BY <1>3, <2>1, <2>2 DEF Full
  <2>4. Len(ranking) # max_size => DOMAIN entries' = DOMAIN entries \cup {p}
    BY <2>1 DEF Full
  <2>5. Shows(best', entries', ranking', max_size)
    BY <1>1, <1>2, <1>3, <1>4, <2>1, <2>3, <2>4, ShowsAdded, Zenon
  <2> QED BY <1>5, <2>5
<1>9. CASE RefusePlayer(p, score, now)
  <2>1. /\ p \notin DOMAIN entries /\ Len(ranking) >= max_size
        /\ ~ leaderboard_entry_comparator(highest_first, e, entries[last])
        /\ entries' = entries /\ ranking' = ranking
    BY <1>9 DEF RefusePlayer, RefusedWhenFull, last, e
  <2>2. Len(ranking) = max_size /\ Len(ranking) > 0
    BY <1>1, <1>3, <2>1
  <2>3. ~ (score > entries[last].score)
    BY <1>1, <1>4, <2>1 DEF leaderboard_entry_comparator, Better
  <2>4. \A q \in DOMAIN entries : entries[q].score >= score
    BY <1>3, <2>2, <2>3 DEF Scored
  <2>5. Shows(best', entries, ranking, max_size)
    BY <1>1, <1>2, <2>1, <2>2, <2>4, ShowsRefused
  <2> QED BY <1>5, <2>1, <2>5
<1> QED BY <1>6, <1>7, <1>8, <1>9 DEF submit_score

(***************************************************************************)
(* The constructor: the players of the file that are not loaded are those  *)
(* with the lowest scores.                                                 *)
(***************************************************************************)
LEMMA BestConstruct ==
    ASSUME HighestFirst, Inv, NEW size \in Nat \ {0}, Construct(size)
    PROVE  Best'
<1> DEFINE n == Len(saved)
           k == Least(size, n)
<1>1. /\ phase' = "idle" /\ max_size' = size /\ size \in Nat \ {0} /\ n \in Nat
      /\ Board(highest_first', entries', ranking') /\ Len(ranking') = k
      /\ \A i \in 1 .. Len(ranking') : /\ ranking'[i] = saved[i].name
                                       /\ entries'[ranking'[i]].score = saved[i].score
  <2>1. /\ phase' = "idle" /\ max_size' = size /\ size \in Nat \ {0} /\ n \in Nat
        /\ Board(highest_first', entries', ranking') /\ Len(ranking') = k
        /\ HighestFirst => \A i \in 1 .. Len(ranking') :
                              /\ ranking'[i] = saved[i].name
                              /\ entries'[ranking'[i]].score = saved[i].score
                              /\ entries'[ranking'[i]].timestamp = saved[i].timestamp
    BY ConstructStep
  <2> QED BY <2>1
<1>2. k \in 0 .. n /\ (k = size \/ k = n)
  BY <1>1 DEF Least
<1>3. /\ ItemSeq(saved) /\ InOrder(saved) /\ file.items = saved
      /\ DOMAIN saved = 1 .. n /\ \A i \in 1 .. n : saved[i] \in Item
  BY LenProperties, ElementOfSeq DEF Inv, Disk, ItemSeq
<1>4. \A i \in 1 .. n : saved[i].score \in Int
  BY <1>3 DEF Item
<1>5. /\ DOMAIN best' = {saved[i].name : i \in 1 .. n}
      /\ \A p \in DOMAIN best' :
            best'[p] = (CHOOSE x \in Range(saved) : x.name = p).score
  BY <1>3 DEF Construct
<1>6. ASSUME NEW i \in 1 .. n PROVE best'[saved[i].name] = saved[i].score
  <2>1. saved[i] \in Range(saved)
    BY <1>3 DEF Range
  <2>2. \A x \in Range(saved) : x.name = saved[i].name => x = saved[i]
    BY <1>3 DEF Range, ItemSeq
  <2>3. (CHOOSE x \in Range(saved) : x.name = saved[i].name) = saved[i]
    BY <2>1, <2>2
  <2> QED BY <1>5, <2>3
<1>7. /\ \A q \in DOMAIN entries' : \E j \in 1 .. k : q = saved[j].name /\ entries'[q].score = saved[j].score
      /\ \A j \in 1 .. k : saved[j].name \in DOMAIN entries'
                           /\ entries'[saved[j].name].score = saved[j].score
  <2>1. \A q \in DOMAIN entries' : \E j \in 1 .. Len(ranking') : ranking'[j] = q
    BY <1>1 DEF Board, Lists
  <2>2. \A j \in 1 .. Len(ranking') : ranking'[j] \in DOMAIN entries'
    BY <1>1, BoardElements
  <2> HIDE DEF k
  <2> QED BY <1>1, <2>1, <2>2
<1> HIDE DEF k
<1>8. DOMAIN entries' \subseteq DOMAIN best'
  BY <1>1, <1>2, <1>5, <1>7
<1>9. ASSUME NEW p \in DOMAIN best'
      PROVE  best'[p] \in Int /\ Kept(p, best'[p], entries', ranking', max_size')
  <2>1. PICK i \in 1 .. n : p = saved[i].name
    BY <1>5
  <2>2. best'[p] = saved[i].score /\ best'[p] \in Int
    BY <1>4, <1>6, <2>1
  <2>3. CASE i <= k
    <3>1. i \in 1 .. k
      BY <1>1, <1>2, <2>3
    <3> QED BY <1>7, <2>1, <2>2, <3>1 DEF Kept
  <2>4. CASE ~ (i <= k)
    <3>1. Len(ranking') = max_size'
      BY <1>1, <1>2, <2>4
    <3>2. p \notin DOMAIN entries'
      <4> SUFFICES ASSUME p \in DOMAIN entries' PROVE FALSE
        OBVIOUS
      <4>1. PICK j \in 1 .. k : p = saved[j].name
        BY <1>7
      <4>2. j \in 1 .. n
        BY <1>1, <1>2
      <4>3. i = j
        BY <1>3, <2>1, <4>1, <4>2, Zenon DEF ItemSeq
      <4> QED BY <1>2, <2>4, <4>3
    <3>3. ASSUME NEW q \in DOMAIN entries' PROVE entries'[q].score >= best'[p]
      <4>1. PICK j \in 1 .. k : entries'[q].score = saved[j].score
        BY <1>7
      <4>2. j \in 1 .. n /\ j < i
        BY <1>1, <1>2, <2>4
      <4>3. saved[j].score > saved[i].score \/ saved[j].score = saved[i].score
        BY <1>3, <4>2 DEF InOrder
      <4> QED BY <1>4, <2>2, <4>1, <4>2, <4>3
    <3> QED BY <2>2, <3>1, <3>2, <3>3 DEF Kept
  <2> QED BY <2>2, <2>3, <2>4
<1> QED BY <1>1, <1>8, <1>9 DEF Best, Shows

(***************************************************************************)
(* Best is inductive on a board with the highest score first.              *)
(***************************************************************************)
LEMMA BestInductive ==
    ASSUME HighestFirst, Inv, Best, Next
    PROVE  Best'
<1>1. CASE \E p \in Players, score \in Scores, now \in Times : submit_score(p, score, now)
  BY <1>1, BestSubmit, LeaderboardAssumption
<1>2. CASE save
  <2>1. /\ Save(Items(ranking)) /\ entries' = entries /\ ranking' = ranking
        /\ max_size' = max_size /\ best' = best
    BY <1>2 DEF save, board
  <2>2. phase' # "down"
    BY <2>1, SaveStep DEF Inv
  <2> QED BY <2>1, <2>2 DEF Best
<1>3. CASE Gone
  <2>1. phase' = "down" /\ entries' = <<>> /\ best' = <<>>
    BY <1>3 DEF Gone, Dies
  <2>2. DOMAIN <<>> = {}
    OBVIOUS
  <2> QED BY <2>1, <2>2 DEF Best, Shows
<1>4. CASE \E size \in MaxSizes : Construct(size)
  BY <1>4, BestConstruct, LeaderboardAssumption
<1> QED BY <1>1, <1>2, <1>3, <1>4 DEF Next

(***************************************************************************)
(* Best as BestScoresKept states it.                                       *)
(***************************************************************************)
LEMMA BestShown ==
    ASSUME HighestFirst, Inv, Best
    PROVE  BestScoresKept
<1> SUFFICES ASSUME NEW p \in DOMAIN best
             PROVE  \/ p \in DOMAIN entries /\ entries[p].score = best[p]
                    \/ /\ p \notin DOMAIN entries
                       /\ Len(ranking) = max_size
                       /\ \A q \in DOMAIN entries :
                             ~ Better(HighestFirst, best[p], entries[q].score)
  BY ZenonT(30) DEF BestScoresKept
<1>1. Kept(p, best[p], entries, ranking, max_size) /\ best[p] \in Int
  BY DEF Best, Shows
<1>2. \A q \in DOMAIN entries : entries[q].score \in Int
  BY LastIsLowest DEF Inv
<1>3. \A q \in DOMAIN entries : entries[q].score >= best[p]
        => ~ Better(HighestFirst, best[p], entries[q].score)
  BY <1>1, <1>2 DEF Better
<1> QED BY <1>1, <1>3, Zenon DEF Kept

-----------------------------------------------------------------------------
(* The theorems. *)

(***************************************************************************)
(* Inv holds of every state of a board, in either sort direction.          *)
(***************************************************************************)
THEOREM Invariance == Spec => []Inv
<1>1. Init => Inv
  BY Initially
<1>2. Inv /\ [Next]_vars => Inv'
  <2> SUFFICES ASSUME Inv, [Next]_vars PROVE Inv'
    OBVIOUS
  <2>1. CASE Next
    BY <2>1, Inductive
  <2>2. CASE UNCHANGED vars
    <3>1. /\ phase' = phase /\ file' = file /\ tmp' = tmp /\ saved' = saved
          /\ entries' = entries /\ ranking' = ranking /\ highest_first' = highest_first
          /\ next_id' = next_id /\ max_size' = max_size /\ returned' = returned
      BY <2>2 DEF vars, board, disk
    <3>2. Items(ranking)' = Items(ranking)
      BY <3>1 DEF Items
    <3>3. Ok'
      BY <3>1 DEF Inv, Ok
    <3>4. PlacementReported'
      BY <3>1 DEF Inv, PlacementReported
    <3> QED BY <3>1, <3>2, <3>3, <3>4 DEF Inv
  <2> QED BY <2>1, <2>2
<1> QED BY <1>1, <1>2, PTL DEF Spec

(***************************************************************************)
(* At any time the multiset holds one pointer to each entry, in the order  *)
(* of the comparator, and no more than max_size, although submit_score     *)
(* changes scores and evicts players, and load() builds it anew; with      *)
(* either sort direction.                                                  *)
(***************************************************************************)
THEOREM RankingInOrder == Spec => []RankingMatchesEntries
<1>1. Inv => RankingMatchesEntries
  BY Matches
<1> QED BY <1>1, Invariance, PTL

(***************************************************************************)
(* The position submit_score returns is the one the player has when the    *)
(* call is over, with either sort direction.                               *)
(***************************************************************************)
THEOREM PlacementIsRight == Spec => []PlacementReported
<1>1. Inv => PlacementReported
  BY DEF Inv
<1> QED BY <1>1, Invariance, PTL

(***************************************************************************)
(* With the highest score first, each player's best score since the board  *)
(* was constructed is shown, or the board is full of players that are not  *)
(* worse.                                                                  *)
(***************************************************************************)
THEOREM BestKept ==
    ASSUME HighestFirst
    PROVE  Spec => []BestScoresKept
<1>1. Init => Best
  <2> SUFFICES ASSUME Init PROVE Best
    OBVIOUS
  <2>1. entries = <<>> /\ best = <<>> /\ DOMAIN <<>> = {}
    BY DEF Init
  <2> QED BY <2>1 DEF Best, Shows
<1>2. Inv /\ Best /\ [Next]_vars => Best'
  <2> SUFFICES ASSUME Inv, Best, [Next]_vars PROVE Best'
    OBVIOUS
  <2>1. CASE Next
    BY <2>1, BestInductive
  <2>2. CASE UNCHANGED vars
    BY <2>2 DEF vars, board, Best
  <2> QED BY <2>1, <2>2
<1>3. Inv /\ Best => BestScoresKept
  BY BestShown
<1> QED BY <1>1, <1>2, <1>3, Invariance, PTL DEF Spec

(***************************************************************************)
(* With the highest score first, the constructor restores the ranking of   *)
(* the last save() that replaced the file, in whatever save() the process  *)
(* died or failed since.                                                   *)
(***************************************************************************)
THEOREM RankingRestored ==
    ASSUME HighestFirst
    PROVE  Spec => ReloadRestoresRanking
<1>1. ASSUME Inv, [Next]_vars
      PROVE  [phase = "down" => Items(ranking)' = FirstOf(saved, max_size')]_vars
  <2> SUFFICES ASSUME Next, phase = "down"
               PROVE  Items(ranking)' = FirstOf(saved, max_size')
    BY <1>1
  <2>1. ~ save
    <3>1. Disk(phase, file, tmp, saved, Items(ranking))
      BY <1>1 DEF Inv
    <3> QED BY <3>1, SaveStep DEF save
  <2>2. \E size \in MaxSizes : Construct(size)
    BY <2>1 DEF Next, submit_score, Running, Gone, Dies
  <2> QED BY <1>1, <2>2, Reload, LeaderboardAssumption
<1> QED BY <1>1, Invariance, PTL DEF Spec, ReloadRestoresRanking

(***************************************************************************)
(* The queries, whatever is on the board and whatever the indices:         *)
(* consecutive pages make up the range they divide, from either end, the   *)
(* pages from 0 are what the queries for the first and the last entries    *)
(* return, and a page that is long enough is the whole board.              *)
(***************************************************************************)
THEOREM PagesFitTogether == Spec => []PagesCover(Nat)
<1>1. ASSUME Inv PROVE PagesCover(Nat)
  <2>1. ranking \in Seq(DOMAIN entries)
    BY <1>1 DEF Inv, Ok, Board, Lists
  <2>2. PagesOf(ranking) /\ PagesOf(Reversed(ranking))
    BY <2>1, PagesOfAny, Reverse
  <2> QED BY <2>2, Zenon DEF PagesCover, PagesFit, PagesOf, get_range_from_top,
             get_top_scores, get_range_from_bottom, get_bottom_scores
<1> QED BY <1>1, Invariance, PTL
=============================================================================
