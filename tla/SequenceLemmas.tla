--------------------------- MODULE SequenceLemmas ---------------------------
(***************************************************************************)
(* Facts about sequences that the proofs of several components need.       *)
(*                                                                         *)
(* An induction on the length of a sequence is an appeal to LeastNat: the  *)
(* set of lengths at which the claim fails has no least element.           *)
(***************************************************************************)
EXTENDS BoardSequences, SequenceTheorems, WellFoundedInduction, TLAPS

(***************************************************************************)
(* A nonempty set of natural numbers has a least element.                  *)
(***************************************************************************)
LEMMA LeastNat ==
    ASSUME NEW T \in SUBSET Nat, T # {}
    PROVE  \E m \in T : \A k \in T : m <= k
<1> DEFINE R == {ss \in Nat \X Nat : ss[1] < ss[2]}
<1>1. IsWellFoundedOn(R, Nat)
  BY NatLessThanWellFounded, Zenon DEF OpToRel
<1> HIDE DEF R
<1>2. PICK m \in T : \A k \in T : ~(<<k, m>> \in R)
  BY <1>1, WFMin, Zenon
<1>3. \A k \in T : ~(k < m)
  BY <1>2, Zenon DEF R
<1> QED BY <1>3

(***************************************************************************)
(* Induction up to n, on the set of the numbers for which the claim holds. *)
(***************************************************************************)
LEMMA UpTo ==
    ASSUME NEW n \in Nat, NEW T, 0 \in T, \A i \in 1 .. n : i - 1 \in T => i \in T
    PROVE  \A i \in 0 .. n : i \in T
<1> DEFINE Bad == {i \in 0 .. n : i \notin T}
<1>1. ASSUME Bad # {} PROVE FALSE
  <2>1. PICK m \in Bad : \A k \in Bad : m <= k
    <3>1. Bad \in SUBSET Nat
      OBVIOUS
    <3> QED BY <1>1, <3>1, LeastNat, Zenon
  <2>2. m \in 1 .. n /\ m - 1 \in 0 .. n
    OBVIOUS
  <2>3. m - 1 \notin Bad
    <3> HIDE DEF Bad
    <3> QED BY <2>1, <2>2
  <2> QED BY <2>2, <2>3
<1> QED BY <1>1

-----------------------------------------------------------------------------
(* The total of the sizes of the elements: what current_bytes counts. *)

(***************************************************************************)
(* The sum of the sizes of the elements of a sequence.                     *)
(***************************************************************************)
Total(s, Size) ==
    LET upTo[n \in 0 .. Len(s)] ==
            IF n = 0 THEN 0 ELSE upTo[n - 1] + Size[s[n]]
    IN  upTo[Len(s)]

(***************************************************************************)
(* f lists the running totals of the sizes of the first n elements of s.   *)
(***************************************************************************)
IsTally(f, s, Size, n) ==
    /\ f \in [0 .. n -> Nat]
    /\ f[0] = 0
    /\ \A i \in 1 .. n : f[i] = f[i - 1] + Size[s[i]]

(***************************************************************************)
(* Every sequence has running totals.                                      *)
(***************************************************************************)
LEMMA TallyExists ==
    ASSUME NEW Items, NEW Size \in [Items -> Nat],
           NEW s \in Seq(Items)
    PROVE  \E f : IsTally(f, s, Size, Len(s))
<1> DEFINE Has(n) == \E f : IsTally(f, s, Size, n)
           Bad == {n \in 0 .. Len(s) : ~ Has(n)}
<1>1. SUFFICES ASSUME Bad # {} PROVE FALSE
  <2>1. Len(s) \in 0 .. Len(s)
    BY LenProperties
  <2> QED BY <2>1
<1>2. PICK m \in Bad : \A k \in Bad : m <= k
  <2>1. Bad \in SUBSET Nat
    BY LenProperties
  <2> QED BY <1>1, <2>1, LeastNat, Zenon
<1>3. Has(0)
  <2>1. IsTally([i \in 0 .. 0 |-> 0], s, Size, 0)
    BY DEF IsTally
  <2> QED BY <2>1
<1>4. m # 0 /\ m \in 1 .. Len(s) /\ m - 1 \in 0 .. Len(s)
  BY <1>2, <1>3, LenProperties
<1>5. PICK f : IsTally(f, s, Size, m - 1)
  <2>1. m - 1 \notin Bad
    <3> HIDE DEF Bad
    <3> QED BY <1>2, <1>4, LenProperties
  <2> QED BY <2>1, <1>4
<1>6. Size[s[m]] \in Nat
  <2>1. s[m] \in Items
    BY <1>4, ElementOfSeq
  <2> QED BY <2>1
<1> DEFINE g == [i \in 0 .. m |-> IF i = m THEN f[m - 1] + Size[s[m]] ELSE f[i]]
<1>7. IsTally(g, s, Size, m)
  <2>1. g \in [0 .. m -> Nat]
    BY <1>4, <1>5, <1>6 DEF IsTally
  <2>2. g[0] = 0
    BY <1>4, <1>5 DEF IsTally
  <2>3. ASSUME NEW i \in 1 .. m PROVE g[i] = g[i - 1] + Size[s[i]]
    <3>1. CASE i = m
      BY <3>1, <1>4
    <3>2. CASE i # m
      BY <3>2, <1>4, <1>5 DEF IsTally
    <3> QED BY <3>1, <3>2
  <2> QED BY <2>1, <2>2, <2>3, Zenon DEF IsTally
<1> QED BY <1>2, <1>7

(***************************************************************************)
(* Total(s, Size) is the last of the running totals.                       *)
(***************************************************************************)
LEMMA TotalIsLastTally ==
    ASSUME NEW Items, NEW Size \in [Items -> Nat],
           NEW s \in Seq(Items), NEW f, IsTally(f, s, Size, Len(s))
    PROVE  Total(s, Size) = f[Len(s)]
<1> DEFINE Rec(h) == h = [n \in 0 .. Len(s) |-> IF n = 0 THEN 0 ELSE h[n - 1] + Size[s[n]]]
           upTo == CHOOSE h : Rec(h)
<1>0. Len(s) \in Nat
  BY LenProperties
<1>1. Rec(f)
  BY <1>0 DEF IsTally
<1>2. Rec(upTo)
  BY <1>1, Zenon
<1>3. Total(s, Size) = upTo[Len(s)]
  BY DEF Total
<1> HIDE DEF upTo
<1>4. DOMAIN upTo = 0 .. Len(s)
  BY <1>2
<1>5. \A n \in 0 .. Len(s) : upTo[n] = IF n = 0 THEN 0 ELSE upTo[n - 1] + Size[s[n]]
  BY <1>2, Zenon
<1> DEFINE Bad == {i \in 0 .. Len(s) : upTo[i] # f[i]}
<1>6. ASSUME Bad # {} PROVE FALSE
  <2>1. PICK m \in Bad : \A k \in Bad : m <= k
    <3>1. Bad \in SUBSET Nat
      BY <1>0
    <3> QED BY <1>6, <3>1, LeastNat, Zenon
  <2>2. m # 0 /\ m \in 1 .. Len(s) /\ m - 1 \in 0 .. Len(s)
    BY <1>0, <1>5, <2>1 DEF IsTally
  <2>3. m - 1 \notin Bad
    <3> HIDE DEF Bad
    <3> QED BY <1>0, <2>1, <2>2
  <2>4. upTo[m] = f[m]
    BY <1>5, <2>2, <2>3 DEF IsTally
  <2> QED BY <2>1, <2>4
<1> QED BY <1>0, <1>3, <1>6
(***************************************************************************)
(* The bytes held, which current_bytes counts, are a natural number.       *)
(***************************************************************************)
LEMMA TotalType ==
    ASSUME NEW Items, NEW Size \in [Items -> Nat],
           NEW s \in Seq(Items)
    PROVE  Total(s, Size) \in Nat
<1>1. PICK f : IsTally(f, s, Size, Len(s))
  BY TallyExists
<1>2. Total(s, Size) = f[Len(s)]
  BY <1>1, TotalIsLastTally
<1> QED BY <1>1, <1>2, LenProperties DEF IsTally

(***************************************************************************)
(* An empty queue holds no bytes, which is what clear() assigns.           *)
(***************************************************************************)
LEMMA TotalEmpty ==
    ASSUME NEW Items, NEW Size \in [Items -> Nat]
    PROVE  Total(<<>>, Size) = 0
<1>1. <<>> \in Seq(Items) /\ Len(<<>>) = 0
  OBVIOUS
<1>2. PICK f : IsTally(f, <<>>, Size, Len(<<>>))
  BY <1>1, TallyExists, Zenon
<1>3. Total(<<>>, Size) = f[Len(<<>>)]
  BY <1>1, <1>2, TotalIsLastTally, Zenon
<1> QED BY <1>1, <1>2, <1>3 DEF IsTally

(***************************************************************************)
(* push_back adds the size of the new element to the bytes held.           *)
(***************************************************************************)
LEMMA TotalAppend ==
    ASSUME NEW Items, NEW Size \in [Items -> Nat],
           NEW s \in Seq(Items), NEW x \in Items
    PROVE  Total(Append(s, x), Size) = Total(s, Size) + Size[x]
<1> DEFINE t == Append(s, x)
           n == Len(s)
<1>1. /\ t \in Seq(Items) /\ n \in Nat /\ Len(t) = n + 1
      /\ \A i \in 1 .. n : t[i] = s[i]
      /\ t[n + 1] = x
  BY AppendProperties, LenProperties
<1>2. PICK f : IsTally(f, t, Size, Len(t))
  BY <1>1, TallyExists, Zenon
<1> HIDE DEF t, n
<1> DEFINE g == [i \in 0 .. n |-> f[i]]
<1>3. IsTally(g, s, Size, n)
  <2>1. f \in [0 .. n + 1 -> Nat] /\ f[0] = 0
        /\ \A i \in 1 .. n + 1 : f[i] = f[i - 1] + Size[t[i]]
    BY <1>1, <1>2 DEF IsTally
  <2>2. g \in [0 .. n -> Nat] /\ g[0] = 0
    BY <1>1, <2>1
  <2>3. ASSUME NEW i \in 1 .. n PROVE g[i] = g[i - 1] + Size[s[i]]
    <3>1. i \in 0 .. n /\ i - 1 \in 0 .. n /\ i \in 1 .. n + 1
      BY <1>1
    <3>2. f[i] = f[i - 1] + Size[t[i]] /\ t[i] = s[i]
      BY <2>1, <3>1, <1>1, Zenon
    <3> QED BY <3>1, <3>2
  <2> HIDE DEF g
  <2> QED BY <2>2, <2>3 DEF IsTally
<1>4. Total(s, Size) = g[n]
  BY <1>3, TotalIsLastTally DEF n
<1>5. Total(t, Size) = f[n + 1]
  BY <1>1, <1>2, TotalIsLastTally
<1>6. f[n + 1] = f[n] + Size[x]
  BY <1>1, <1>2 DEF IsTally
<1> QED BY <1>1, <1>4, <1>5, <1>6 DEF t

(***************************************************************************)
(* push_front adds the size of the new element to the bytes held.          *)
(***************************************************************************)
LEMMA TotalCons ==
    ASSUME NEW Items, NEW Size \in [Items -> Nat],
           NEW s \in Seq(Items), NEW x \in Items
    PROVE  Total(<<x>> \o s, Size) = Total(s, Size) + Size[x]
<1> DEFINE t == <<x>> \o s
           n == Len(s)
<1>1. /\ t \in Seq(Items) /\ n \in Nat /\ Len(t) = n + 1
      /\ t[1] = x
      /\ \A i \in 1 .. n : t[i + 1] = s[i]
  <2>1. <<x>> \in Seq(Items) /\ Len(<<x>>) = 1 /\ <<x>>[1] = x
    OBVIOUS
  <2> QED BY <2>1, ConcatProperties, LenProperties
<1>2. PICK f : IsTally(f, s, Size, n)
  BY TallyExists
<1> HIDE DEF t, n
<1>3. Size[x] \in Nat
  OBVIOUS
<1> DEFINE g == [i \in 0 .. n + 1 |-> IF i = 0 THEN 0 ELSE f[i - 1] + Size[x]]
<1>4. IsTally(g, t, Size, n + 1)
  <2>1. g \in [0 .. n + 1 -> Nat] /\ g[0] = 0
    BY <1>1, <1>2, <1>3 DEF IsTally
  <2>2. ASSUME NEW i \in 1 .. n + 1 PROVE g[i] = g[i - 1] + Size[t[i]]
    <3>1. CASE i = 1
      BY <3>1, <1>1, <1>2, <1>3 DEF IsTally
    <3>2. CASE i # 1
      <4>1. i - 1 \in 1 .. n /\ i - 2 \in 0 .. n /\ t[i] = s[i - 1]
        <5>1. i - 1 \in 1 .. n
          BY <3>2, <1>1
        <5>2. t[(i - 1) + 1] = s[i - 1]
          BY <5>1, <1>1
        <5>3. (i - 1) + 1 = i /\ i - 2 \in 0 .. n
          BY <5>1, <1>1
        <5> HIDE DEF g
        <5> QED BY <5>1, <5>2, <5>3, Zenon
      <4>2. f[i - 1] = f[i - 2] + Size[s[i - 1]]
        BY <4>1, <1>2 DEF IsTally
      <4>3. s[i - 1] \in Items
        BY <4>1, ElementOfSeq DEF n
      <4>4. Size[s[i - 1]] \in Nat /\ f[i - 2] \in Nat /\ f[i - 1] \in Nat
        <5>1. Size[s[i - 1]] \in Nat
          BY <4>3
        <5> HIDE DEF g
        <5>2. f \in [0 .. n -> Nat]
          BY <1>2 DEF IsTally
        <5>3. i - 1 \in 0 .. n /\ i - 2 \in 0 .. n
          BY <4>1, <1>1
        <5> QED BY <5>1, <5>2, <5>3
      <4>5. g[i] = f[i - 1] + Size[x] /\ g[i - 1] = f[i - 2] + Size[x]
        <5>1. i \in 0 .. n + 1 /\ i # 0 /\ i - 1 \in 0 .. n + 1 /\ i - 1 # 0
              /\ (i - 1) - 1 = i - 2
          BY <3>2, <1>1
        <5>2. g[i] = f[i - 1] + Size[x] /\ g[i - 1] = f[(i - 1) - 1] + Size[x]
          BY <5>1
        <5> QED BY <5>1, <5>2
      <4>6. Size[t[i]] = Size[s[i - 1]]
        BY <4>1, <1>1
      <4> HIDE DEF g
      <4> QED BY <4>1, <4>2, <4>4, <4>5, <4>6, <1>3
    <3> QED BY <3>1, <3>2
  <2> QED BY <2>1, <2>2, <1>1, Zenon DEF IsTally
<1>7. g[n + 1] = f[n] + Size[x]
  BY <1>1
<1> HIDE DEF g
<1>5. Total(t, Size) = g[n + 1]
  <2>1. IsTally(g, t, Size, Len(t))
    BY <1>1, <1>4
  <2>2. t \in Seq(Items)
    BY <1>1
  <2>3. Total(t, Size) = g[Len(t)]
    BY <2>1, <2>2, TotalIsLastTally
  <2> QED BY <1>1, <2>3
<1>6. Total(s, Size) = f[n]
  BY <1>2, TotalIsLastTally DEF n
<1> QED BY <1>5, <1>6, <1>7 DEF t

(***************************************************************************)
(* pop_front takes the size of the first element from the bytes held.      *)
(***************************************************************************)
LEMMA TotalTail ==
    ASSUME NEW Items, NEW Size \in [Items -> Nat],
           NEW s \in Seq(Items), s # <<>>
    PROVE  Total(s, Size) = Total(Tail(s), Size) + Size[Head(s)]
<1>1. Head(s) \in Items /\ Tail(s) \in Seq(Items)
  BY HeadTailProperties
<1>2. s = <<Head(s)>> \o Tail(s)
  OBVIOUS
<1> QED BY <1>1, <1>2, TotalCons, Zenon

(***************************************************************************)
(* pop_back takes the size of the last element from the bytes held.        *)
(***************************************************************************)
LEMMA TotalFront ==
    ASSUME NEW Items, NEW Size \in [Items -> Nat],
           NEW s \in Seq(Items), s # <<>>
    PROVE  /\ SubSeq(s, 1, Len(s) - 1) \in Seq(Items) /\ s[Len(s)] \in Items
           /\ Len(SubSeq(s, 1, Len(s) - 1)) = Len(s) - 1
           /\ Total(s, Size) = Total(SubSeq(s, 1, Len(s) - 1), Size) + Size[s[Len(s)]]
<1> DEFINE front == SubSeq(s, 1, Len(s) - 1)
           last == s[Len(s)]
<1>1. Len(s) \in Nat \ {0}
  BY EmptySeq
<1>2. \A i \in 1 .. Len(s) : s[i] \in Items
  BY ElementOfSeq
<1>3. /\ front \in Seq(Items) /\ Len(front) = Len(s) - 1
      /\ \A i \in 1 .. Len(s) - 1 : front[i] = s[i]
  <2> DEFINE m == Len(s) - 1
             fr == SubSeq(s, 1, m)
  <2>1. m \in Nat /\ \A i \in 1 .. m : s[i] \in Items
    BY <1>1, <1>2
  <2>2. /\ fr \in Seq(Items)
        /\ Len(fr) = IF 1 <= m THEN m - 1 + 1 ELSE 0
        /\ \A i \in 1 .. m - 1 + 1 : fr[i] = s[1 + i - 1]
    <3> HIDE DEF m
    <3> QED BY <2>1, SubSeqProperties
  <2>3. front = fr
    OBVIOUS
  <2> HIDE DEF fr, m
  <2>4. Len(fr) = m /\ \A i \in 1 .. m : fr[i] = s[i]
    BY <2>1, <2>2
  <2> QED BY <2>2, <2>3, <2>4 DEF m
<1>4. last \in Items /\ last = s[Len(s)]
  BY <1>1, <1>2
<1>5. s = Append(front, last)
  <2>1. /\ Append(front, last) \in Seq(Items)
        /\ Len(Append(front, last)) = Len(s)
        /\ \A i \in 1 .. Len(s) - 1 : Append(front, last)[i] = front[i]
        /\ Append(front, last)[Len(s)] = last
    BY <1>1, <1>3, <1>4, AppendProperties
  <2>2. \A i \in 1 .. Len(s) : s[i] = Append(front, last)[i]
    BY <1>1, <1>3, <1>4, <2>1
  <2> QED BY <2>1, <2>2, SeqEqual
<1>6. Total(Append(front, last), Size) = Total(front, Size) + Size[last]
  <2> HIDE DEF front, last
  <2> QED BY <1>3, <1>4, TotalAppend
<1>7. Total(s, Size) = Total(Append(front, last), Size)
  BY <1>5, Zenon
<1> QED BY <1>3, <1>4, <1>6, <1>7, Zenon

-----------------------------------------------------------------------------
(* Concatenation: messages that pass from one sequence to the next. *)

(***************************************************************************)
(* Sequences with the same elements are equal.                             *)
(***************************************************************************)
LEMMA SameElements ==
    ASSUME NEW T, NEW x \in Seq(T), NEW y \in Seq(T), NEW n,
           Len(x) = n, Len(y) = n, \A i \in 1 .. n : x[i] = y[i]
    PROVE  x = y
OBVIOUS

(***************************************************************************)
(* Moving the head of one sequence to the end of the one before it leaves  *)
(* the two as they are together.                                           *)
(***************************************************************************)
LEMMA MoveHead ==
    ASSUME NEW T, NEW a \in Seq(T), NEW b \in Seq(T), b # <<>>
    PROVE  /\ Append(a, Head(b)) \in Seq(T) /\ Tail(b) \in Seq(T)
           /\ Append(a, Head(b)) \o Tail(b) = a \o b
<1>1. Head(b) \in T /\ Tail(b) \in Seq(T) /\ Len(Tail(b)) = Len(b) - 1 /\ Len(b) > 0
  OBVIOUS
<1>2. Append(a, Head(b)) \in Seq(T) /\ Len(Append(a, Head(b))) = Len(a) + 1
  BY <1>1
<1> DEFINE x == Append(a, Head(b)) \o Tail(b)
           y == a \o b
<1>3. x \in Seq(T) /\ y \in Seq(T) /\ Len(x) = Len(a) + Len(b) /\ Len(y) = Len(a) + Len(b)
  BY <1>1, <1>2
<1>4. ASSUME NEW i \in 1 .. Len(a) + Len(b) PROVE x[i] = y[i]
  <2>1. CASE i <= Len(a)
    BY <1>1, <1>2, <2>1
  <2>2. CASE i = Len(a) + 1
    BY <1>1, <1>2, <2>2
  <2>3. CASE i > Len(a) + 1
    BY <1>1, <1>2, <2>3
  <2> QED BY <2>1, <2>2, <2>3
<1>5. x = y
  <2> HIDE DEF x, y
  <2> QED BY <1>3, <1>4
<1> QED BY <1>1, <1>2, <1>5

(***************************************************************************)
(* Concatenation is associative.                                           *)
(***************************************************************************)
LEMMA Associative ==
    \A a, b, c \in Seq(Nat) : (a \o b) \o c = a \o (b \o c)
<1> TAKE a, b, c \in Seq(Nat)
<1> DEFINE x == (a \o b) \o c
           y == a \o (b \o c)
           n == Len(a) + Len(b) + Len(c)
<1>1. x \in Seq(Nat) /\ y \in Seq(Nat) /\ Len(x) = n /\ Len(y) = n
  OBVIOUS
<1>2. ASSUME NEW i \in 1 .. n PROVE x[i] = y[i]
  <2>1. CASE i <= Len(a)
    BY <2>1
  <2>2. CASE i > Len(a) /\ i <= Len(a) + Len(b)
    BY <2>2
  <2>3. CASE i > Len(a) + Len(b)
    BY <2>3
  <2> QED BY <2>1, <2>2, <2>3
<1>3. x = y
  <2> HIDE DEF x, y
  <2> QED BY <1>1, <1>2
<1> QED BY <1>3

(***************************************************************************)
(* The elements of a concatenation.                                        *)
(***************************************************************************)
LEMMA Joined ==
    ASSUME NEW T, NEW a \in Seq(T), NEW b \in Seq(T)
    PROVE  /\ a \o b \in Seq(T) /\ Len(a \o b) = Len(a) + Len(b)
           /\ \A i \in 1 .. Len(a) : (a \o b)[i] = a[i]
           /\ \A i \in Len(a) + 1 .. Len(a) + Len(b) : (a \o b)[i] = b[i - Len(a)]
OBVIOUS

(***************************************************************************)
(* The message after the n-th is n + 1.                                    *)
(***************************************************************************)
LEMMA NextMessage ==
    ASSUME NEW n \in Nat, NEW a \in Seq(Nat), NEW b \in Seq(Nat)
    PROVE  a \o b = [i \in 1 .. n |-> i] =>
               a \o Append(b, n + 1) = [i \in 1 .. n + 1 |-> i]
<1> DEFINE c == Append(b, n + 1)
           x == a \o c
           y == [i \in 1 .. n + 1 |-> i]
           z == a \o b
<1>1. /\ z \in Seq(Nat) /\ Len(z) = Len(a) + Len(b)
      /\ \A i \in 1 .. Len(a) : z[i] = a[i]
      /\ \A i \in Len(a) + 1 .. Len(a) + Len(b) : z[i] = b[i - Len(a)]
  BY Joined
<1>2. /\ c \in Seq(Nat) /\ Len(c) = Len(b) + 1
      /\ \A i \in 1 .. Len(b) : c[i] = b[i]
      /\ c[Len(b) + 1] = n + 1
  OBVIOUS
<1>3. /\ x \in Seq(Nat) /\ Len(x) = Len(a) + Len(c)
      /\ \A i \in 1 .. Len(a) : x[i] = a[i]
      /\ \A i \in Len(a) + 1 .. Len(a) + Len(c) : x[i] = c[i - Len(a)]
  <2> HIDE DEF c
  <2> QED BY <1>2, Joined, Zenon
<1>4. y \in Seq(Nat) /\ Len(y) = n + 1 /\ \A i \in 1 .. n + 1 : y[i] = i
  OBVIOUS
<1> HIDE DEF c, x, y, z
<1>lens. Len(a) \in Nat /\ Len(b) \in Nat
  OBVIOUS
<1>counts. z = [i \in 1 .. n |-> i] => Len(z) = n /\ \A i \in 1 .. n : z[i] = i
  BY <1>1
<1> SUFFICES ASSUME Len(z) = n /\ \A i \in 1 .. n : z[i] = i PROVE x = y
  BY <1>counts, Zenon DEF c, x, y, z
<1>5. /\ Len(z) = n /\ \A i \in 1 .. n : z[i] = i
      /\ Len(a) + Len(b) = n
  BY <1>1
<1>6. Len(x) = n + 1
  BY <1>1, <1>2, <1>3, <1>5
<1>7. ASSUME NEW i \in 1 .. n + 1 PROVE x[i] = y[i]
  <2>1. CASE i <= Len(a)
    BY <1>1, <1>3, <1>4, <1>5, <2>1
  <2>2. CASE i > Len(a) /\ i <= n
    <3>1. /\ i \in Len(a) + 1 .. Len(a) + Len(b) /\ i \in Len(a) + 1 .. Len(a) + Len(c)
          /\ i - Len(a) \in 1 .. Len(b)
      BY <1>lens, <1>1, <1>2, <1>5, <2>2
    <3>2. x[i] = c[i - Len(a)] /\ c[i - Len(a)] = b[i - Len(a)] /\ z[i] = b[i - Len(a)]
      BY <1>1, <1>2, <1>3, <3>1, Zenon
    <3> QED BY <1>4, <1>5, <2>2, <3>2
  <2>3. CASE i = n + 1
    <3>1. i \in Len(a) + 1 .. Len(a) + Len(c) /\ i - Len(a) = Len(b) + 1
      <4>1. i = Len(a) + Len(b) + 1 /\ Len(c) = Len(b) + 1
        BY <1>2, <1>5, <2>3
      <4> QED BY <1>lens, <4>1
    <3> QED BY <1>2, <1>3, <1>4, <2>3, <3>1, Zenon
  <2>4. i <= Len(a) \/ (i > Len(a) /\ i <= n) \/ i = n + 1
    BY <1>lens
  <2> QED BY <2>1, <2>2, <2>3, <2>4, Zenon
<1> QED BY <1>3, <1>4, <1>6, <1>7, SameElements, Zenon

-----------------------------------------------------------------------------
(* Ordered sequences: what a std::multiset of distinct elements iterates over. *)

\* p put after the first n elements of r.
Inserted(r, n, p) == SubSeq(r, 1, n) \o <<p>> \o SubSeq(r, n + 1, Len(r))

\* s is r with p after the first n elements.
IsInserted(s, r, n, p) ==
    /\ Len(s) = Len(r) + 1
    /\ \A i \in 1 .. n : s[i] = r[i]
    /\ s[n + 1] = p
    /\ \A i \in n + 2 .. Len(r) + 1 : s[i] = r[i - 1]

\* p is before all but the first n elements of r.
Fits(r, n, p, Lt) ==
    /\ n \in 0 .. Len(r)
    /\ \A i \in 1 .. Len(r) : i <= n <=> <<p, r[i]>> \notin Lt

\* r without its i-th element.
Erased(r, i) == SubSeq(r, 1, i - 1) \o SubSeq(r, i + 1, Len(r))

\* r has each element of Y, once.
Lists(r, Y) ==
    /\ r \in Seq(Y)
    /\ \A i, j \in 1 .. Len(r) : r[i] = r[j] => i = j
    /\ \A y \in Y : \E i \in 1 .. Len(r) : r[i] = y

\* r is in the order Lt, a set of pairs.
Sorted(r, Lt) == \A i, j \in 1 .. Len(r) : i < j => <<r[i], r[j]>> \in Lt

\* Lt is a strict total order of X: what std::multiset asks of its comparator,
\* and that no two elements are equivalent.
IsOrder(Lt, X) ==
    /\ \A x \in X : <<x, x>> \notin Lt
    /\ \A x, y, z \in X : <<x, y>> \in Lt /\ <<y, z>> \in Lt => <<x, z>> \in Lt
    /\ \A x, y \in X : x = y \/ <<x, y>> \in Lt \/ <<y, x>> \in Lt

(***************************************************************************)
(* A part of a sequence.                                                   *)
(***************************************************************************)
LEMMA Part ==
    ASSUME NEW T, NEW r \in Seq(T), NEW m \in 1 .. Len(r) + 1, NEW n \in 0 .. Len(r), m <= n + 1
    PROVE  /\ SubSeq(r, m, n) \in Seq(T)
           /\ Len(SubSeq(r, m, n)) = n - m + 1
           /\ \A i \in 1 .. n - m + 1 : SubSeq(r, m, n)[i] = r[m + i - 1]
<1>1. Len(r) \in Nat /\ \A i \in m .. n : r[i] \in T
  BY LenProperties, ElementOfSeq
<1> QED BY <1>1, SubSeqProperties

(***************************************************************************)
(* The elements after an insertion.                                        *)
(***************************************************************************)
LEMMA InsertedElements ==
    ASSUME NEW T, NEW r \in Seq(T), NEW p \in T, NEW n \in 0 .. Len(r)
    PROVE  /\ Inserted(r, n, p) \in Seq(T)
           /\ IsInserted(Inserted(r, n, p), r, n, p)
<1> DEFINE x == SubSeq(r, 1, n)
           y == SubSeq(r, n + 1, Len(r))
           z == x \o <<p>>
<1>0. Len(r) \in Nat
  BY LenProperties
<1>1. x \in Seq(T) /\ Len(x) = n /\ \A i \in 1 .. n : x[i] = r[i]
  BY <1>0, Part
<1>2. y \in Seq(T) /\ Len(y) = Len(r) - n /\ \A i \in 1 .. Len(r) - n : y[i] = r[n + i]
  <2> DEFINE k == n + 1
  <2>1. /\ k \in 1 .. Len(r) + 1 /\ Len(r) \in 0 .. Len(r) /\ k <= Len(r) + 1
        /\ Len(r) - k + 1 = Len(r) - n
    BY <1>0
  <2>2. /\ SubSeq(r, k, Len(r)) \in Seq(T)
        /\ Len(SubSeq(r, k, Len(r))) = Len(r) - k + 1
        /\ \A i \in 1 .. Len(r) - k + 1 : SubSeq(r, k, Len(r))[i] = r[k + i - 1]
    <3> HIDE DEF k
    <3> QED BY <2>1, Part
  <2>3. \A i \in 1 .. Len(r) - n : k + i - 1 = n + i
    BY <1>0
  <2> QED BY <2>1, <2>2, <2>3, Zenon
<1> HIDE DEF x, y
<1>3. /\ z \in Seq(T) /\ Len(z) = n + 1
      /\ \A i \in 1 .. n : z[i] = r[i]
      /\ z[n + 1] = p
  <2>1. <<p>> \in Seq(T) /\ Len(<<p>>) = 1 /\ <<p>>[1] = p
    OBVIOUS
  <2> QED BY <1>0, <1>1, <2>1, ConcatProperties
<1> HIDE DEF z
<1>4. /\ z \o y \in Seq(T) /\ Len(z \o y) = Len(r) + 1
      /\ \A i \in 1 .. n + 1 : (z \o y)[i] = z[i]
      /\ \A i \in n + 2 .. Len(r) + 1 : (z \o y)[i] = y[i - (n + 1)]
  BY <1>0, <1>2, <1>3, ConcatProperties
<1>5. ASSUME NEW i \in n + 2 .. Len(r) + 1 PROVE (z \o y)[i] = r[i - 1]
  <2>1. i - (n + 1) \in 1 .. Len(r) - n /\ n + (i - (n + 1)) = i - 1
    BY <1>0
  <2> QED BY <1>2, <1>4, <2>1
<1>6. (\A i \in 1 .. n : (z \o y)[i] = r[i]) /\ (z \o y)[n + 1] = p
  BY <1>0, <1>3, <1>4
<1> QED BY <1>4, <1>5, <1>6, Zenon DEF Inserted, IsInserted, x, y, z

(***************************************************************************)
(* The same of an element that is new.                                     *)
(***************************************************************************)
LEMMA InsertedNew ==
    ASSUME NEW Y, NEW r \in Seq(Y), NEW p, NEW n \in 0 .. Len(r)
    PROVE  /\ Inserted(r, n, p) \in Seq(Y \cup {p})
           /\ IsInserted(Inserted(r, n, p), r, n, p)
<1> DEFINE Z == Y \cup {p}
<1>1. r \in Seq(Z) /\ p \in Z
  OBVIOUS
<1> HIDE DEF Z
<1>2. Inserted(r, n, p) \in Seq(Z) /\ IsInserted(Inserted(r, n, p), r, n, p)
  BY <1>1, InsertedElements
<1> QED BY <1>2 DEF Z

(***************************************************************************)
(* The elements after an erasure.                                          *)
(***************************************************************************)
LEMMA ErasedElements ==
    ASSUME NEW T, NEW r \in Seq(T), NEW n \in 1 .. Len(r)
    PROVE  /\ Erased(r, n) \in Seq(T)
           /\ Len(Erased(r, n)) = Len(r) - 1
           /\ \A i \in 1 .. n - 1 : Erased(r, n)[i] = r[i]
           /\ \A i \in n .. Len(r) - 1 : Erased(r, n)[i] = r[i + 1]
<1> DEFINE x == SubSeq(r, 1, n - 1)
           y == SubSeq(r, n + 1, Len(r))
<1>0. Len(r) \in Nat
  BY LenProperties
<1>1. x \in Seq(T) /\ Len(x) = n - 1 /\ \A i \in 1 .. n - 1 : x[i] = r[i]
  <2> DEFINE k == n - 1
  <2>1. k \in 0 .. Len(r) /\ 1 \in 1 .. Len(r) + 1 /\ 1 <= k + 1
    BY <1>0
  <2>2. /\ SubSeq(r, 1, k) \in Seq(T) /\ Len(SubSeq(r, 1, k)) = k - 1 + 1
        /\ \A i \in 1 .. k - 1 + 1 : SubSeq(r, 1, k)[i] = r[1 + i - 1]
    <3> HIDE DEF k
    <3> QED BY <2>1, Part
  <2> QED BY <2>1, <2>2
<1>2. y \in Seq(T) /\ Len(y) = Len(r) - n /\ \A i \in 1 .. Len(r) - n : y[i] = r[n + i]
  <2> DEFINE k == n + 1
  <2>1. /\ k \in 1 .. Len(r) + 1 /\ Len(r) \in 0 .. Len(r) /\ k <= Len(r) + 1
        /\ Len(r) - k + 1 = Len(r) - n
    BY <1>0
  <2>2. /\ SubSeq(r, k, Len(r)) \in Seq(T)
        /\ Len(SubSeq(r, k, Len(r))) = Len(r) - k + 1
        /\ \A i \in 1 .. Len(r) - k + 1 : SubSeq(r, k, Len(r))[i] = r[k + i - 1]
    <3> HIDE DEF k
    <3> QED BY <2>1, Part
  <2>3. \A i \in 1 .. Len(r) - n : k + i - 1 = n + i
    BY <1>0
  <2> QED BY <2>1, <2>2, <2>3, Zenon
<1> HIDE DEF x, y
<1>4. /\ x \o y \in Seq(T) /\ Len(x \o y) = Len(r) - 1
      /\ \A i \in 1 .. n - 1 : (x \o y)[i] = x[i]
      /\ \A i \in n .. Len(r) - 1 : (x \o y)[i] = y[i - (n - 1)]
  <2>1. /\ x \o y \in Seq(T) /\ Len(x \o y) = Len(x) + Len(y)
        /\ \A i \in 1 .. Len(x) + Len(y) : (x \o y)[i] =
              IF i <= Len(x) THEN x[i] ELSE y[i - Len(x)]
    BY <1>1, <1>2, ConcatProperties, Zenon
  <2>2. Len(x) + Len(y) = Len(r) - 1
    BY <1>0, <1>1, <1>2
  <2>3. ASSUME NEW i \in n .. Len(r) - 1 PROVE (x \o y)[i] = y[i - (n - 1)]
    <3>1. i \in 1 .. Len(x) + Len(y) /\ ~(i <= Len(x)) /\ Len(x) = n - 1
      BY <1>0, <1>1, <2>2
    <3> QED BY <2>1, <3>1
  <2>4. ASSUME NEW i \in 1 .. n - 1 PROVE (x \o y)[i] = x[i]
    <3>1. i \in 1 .. Len(x) + Len(y) /\ i <= Len(x)
      BY <1>0, <1>1, <2>2
    <3> QED BY <2>1, <3>1
  <2> QED BY <2>1, <2>2, <2>3, <2>4
<1>5. ASSUME NEW i \in n .. Len(r) - 1 PROVE (x \o y)[i] = r[i + 1]
  <2>1. i - (n - 1) \in 1 .. Len(r) - n /\ n + (i - (n - 1)) = i + 1
    BY <1>0
  <2> QED BY <1>2, <1>4, <2>1, Zenon
<1>6. \A i \in 1 .. n - 1 : (x \o y)[i] = r[i]
  BY <1>1, <1>4
<1> QED BY <1>4, <1>5, <1>6, Zenon DEF Erased, x, y

\* n is the number of positions up to the first that is in P.
IsBound(n, len, P) ==
    /\ n \in 0 .. len
    /\ \A i \in 1 .. n : i \notin P
    /\ n < len => n + 1 \in P

Bound(len, P) == CHOOSE n \in 0 .. len : IsBound(n, len, P)

(***************************************************************************)
(* There is such a number.                                                 *)
(***************************************************************************)
LEMMA BoundExists ==
    ASSUME NEW len \in Nat, NEW P
    PROVE  IsBound(Bound(len, P), len, P)
<1> DEFINE T == {k \in 0 .. len : k < len => k + 1 \in P}
<1>1. PICK m \in T : \A k \in T : m <= k
  <2>1. len \in T /\ T \in SUBSET Nat
    OBVIOUS
  <2> HIDE DEF T
  <2> QED BY <2>1, LeastNat
<1>2. ASSUME NEW i \in 1 .. m PROVE i \notin P
  <2>1. m \in 0 .. len
    BY <1>1
  <2>2. i - 1 \in 0 .. len /\ i - 1 < m /\ (i - 1) + 1 = i
    BY <2>1
  <2>3. i - 1 \notin T
    <3> HIDE DEF T
    <3> QED BY <1>1, <2>1, <2>2
  <2> QED BY <2>2, <2>3
<1>3. IsBound(m, len, P) /\ m \in 0 .. len
  BY <1>1, <1>2 DEF IsBound
<1> QED BY <1>3 DEF Bound

(***************************************************************************)
(* There is only one.                                                      *)
(***************************************************************************)
LEMMA BoundUnique ==
    ASSUME NEW len \in Nat, NEW P, NEW m, IsBound(m, len, P), NEW n, IsBound(n, len, P)
    PROVE  m = n
<1>1. m \in 0 .. len /\ n \in 0 .. len
  BY DEF IsBound
<1>2. ~(m < n)
  <2> SUFFICES ASSUME m < n PROVE FALSE
    OBVIOUS
  <2>1. m + 1 \in 1 .. n /\ m < len
    BY <1>1
  <2> QED BY <2>1 DEF IsBound
<1>3. ~(n < m)
  <2> SUFFICES ASSUME n < m PROVE FALSE
    OBVIOUS
  <2>1. n + 1 \in 1 .. m /\ n < len
    BY <1>1
  <2> QED BY <2>1 DEF IsBound
<1> QED BY <1>1, <1>2, <1>3

(***************************************************************************)
(* An element put after those that it is not before leaves a sequence in   *)
(* order.                                                                  *)
(***************************************************************************)
LEMMA InsertedInOrder ==
    ASSUME NEW X, NEW Lt, IsOrder(Lt, X), NEW Y \in SUBSET X, NEW r, Lists(r, Y), Sorted(r, Lt),
           NEW p \in X, p \notin Y, NEW n, Fits(r, n, p, Lt)
    PROVE  /\ Lists(Inserted(r, n, p), Y \cup {p})
           /\ Sorted(Inserted(r, n, p), Lt)
           /\ IsInserted(Inserted(r, n, p), r, n, p)
<1> USE DEF Fits
<1> DEFINE s == Inserted(r, n, p)
<1>0. Len(r) \in Nat /\ \A i \in 1 .. Len(r) : r[i] \in Y
  BY LenProperties, ElementOfSeq DEF Lists
<1>1. \A i \in 1 .. Len(r) : <<p, r[i]>> \notin Lt => <<r[i], p>> \in Lt
  BY <1>0 DEF IsOrder
<1> DEFINE from(i) == IF i <= n THEN i ELSE i - 1
<1>4. IsInserted(s, r, n, p) /\ s \in Seq(Y \cup {p})
  <2>1. r \in Seq(Y)
    BY DEF Lists
  <2> QED BY <2>1, InsertedNew
<1>5. /\ s \in Seq(Y \cup {p}) /\ Len(s) = Len(r) + 1
      /\ \A i \in 1 .. n : s[i] = r[i]
      /\ s[n + 1] = p
      /\ \A i \in n + 2 .. Len(r) + 1 : s[i] = r[i - 1]
  <2> HIDE DEF s
  <2> QED BY <1>4 DEF IsInserted
<1> HIDE DEF s
<1>6. ASSUME NEW i \in 1 .. Len(s), i # n + 1
      PROVE  /\ from(i) \in 1 .. Len(r) /\ s[i] = r[from(i)]
             /\ i <= n + 1 <=> from(i) <= n
  <2>1. CASE i <= n
    <3>1. i \in 1 .. n /\ i \in 1 .. Len(r) /\ from(i) = i /\ i <= n + 1
      BY <1>0, <2>1
    <3>2. s[i] = r[i]
      BY <1>5, <3>1
    <3> HIDE DEF from
    <3> QED BY <2>1, <3>1, <3>2
  <2>2. CASE i > n
    <3>1. /\ i \in n + 2 .. Len(r) + 1 /\ i - 1 \in 1 .. Len(r) /\ from(i) = i - 1
          /\ ~(i <= n + 1) /\ ~(i - 1 <= n)
      BY <1>0, <1>5, <1>6, <2>2
    <3>2. s[i] = r[i - 1]
      BY <1>5, <3>1
    <3> HIDE DEF from
    <3> QED BY <3>1, <3>2
  <2> QED BY <2>1, <2>2
<1>7. \A i, j \in 1 .. Len(s) : i # n + 1 /\ j # n + 1 =>
         (i < j => from(i) < from(j)) /\ (from(i) = from(j) => i = j)
  BY <1>0, <1>5
<1>8. ASSUME NEW k \in 1 .. Len(r) PROVE \E i \in 1 .. Len(s) : i # n + 1 /\ from(i) = k
  <2>1. CASE k <= n
    <3>1. k \in 1 .. Len(s) /\ k # n + 1
      BY <1>0, <1>5, <2>1
    <3> QED BY <2>1, <3>1
  <2>2. CASE k > n
    <3>1. k + 1 \in 1 .. Len(s) /\ k + 1 # n + 1 /\ ~(k + 1 <= n) /\ (k + 1) - 1 = k
      BY <1>0, <1>5, <2>2
    <3>2. from(k + 1) = k
      BY <3>1
    <3> HIDE DEF from
    <3> QED BY <3>1, <3>2
  <2>3. k <= n \/ k > n
    BY <1>0
  <2> QED BY <2>1, <2>2, <2>3
<1>9. n + 1 \in 1 .. Len(s)
  BY <1>0, <1>5
<1> HIDE DEF from
<1>10. Lists(s, Y \cup {p})
  <2>1. \A i, j \in 1 .. Len(s) : s[i] = s[j] => i = j
    <3> SUFFICES ASSUME NEW i \in 1 .. Len(s), NEW j \in 1 .. Len(s), s[i] = s[j] PROVE i = j
      OBVIOUS
    <3>1. \A k \in 1 .. Len(s) : k # n + 1 => s[k] # p
      BY <1>0, <1>6
    <3>2. CASE i = n + 1 \/ j = n + 1
      BY <1>5, <3>1, <3>2
    <3>3. CASE i # n + 1 /\ j # n + 1
      <4>1. /\ from(i) \in 1 .. Len(r) /\ from(j) \in 1 .. Len(r)
            /\ r[from(i)] = r[from(j)]
        BY <1>6, <3>3
      <4>2. from(i) = from(j)
        BY <4>1 DEF Lists
      <4> QED BY <1>7, <3>3, <4>2
    <3> QED BY <3>2, <3>3
  <2>2. ASSUME NEW y \in Y \cup {p} PROVE \E i \in 1 .. Len(s) : s[i] = y
    <3>1. CASE y = p
      BY <1>5, <1>9, <3>1
    <3>2. CASE y \in Y
      <4>1. PICK k \in 1 .. Len(r) : r[k] = y
        BY <3>2 DEF Lists
      <4>2. PICK i \in 1 .. Len(s) : i # n + 1 /\ from(i) = k
        BY <1>8
      <4> QED BY <1>6, <4>1, <4>2
    <3> QED BY <3>1, <3>2
  <2> QED BY <1>5, <2>1, <2>2 DEF Lists
<1>11. Sorted(s, Lt)
  <2> SUFFICES ASSUME NEW i \in 1 .. Len(s), NEW j \in 1 .. Len(s), i < j
               PROVE  <<s[i], s[j]>> \in Lt
    BY DEF Sorted
  <2>1. CASE i = n + 1
    <3>1. /\ j # n + 1 /\ from(j) \in 1 .. Len(r) /\ s[j] = r[from(j)]
          /\ ~(j <= n + 1) /\ ~(from(j) <= n)
      BY <1>6, <2>1
    <3> QED BY <1>5, <2>1, <3>1
  <2>2. CASE j = n + 1
    <3>0. i # n + 1 /\ i <= n + 1
      BY <2>2
    <3>1. i # n + 1 /\ from(i) \in 1 .. Len(r) /\ s[i] = r[from(i)] /\ from(i) <= n
      BY <1>6, <3>0
    <3> QED BY <1>1, <1>5, <2>2, <3>1, Zenon
  <2>3. CASE i # n + 1 /\ j # n + 1
    <3>1. /\ from(i) \in 1 .. Len(r) /\ from(j) \in 1 .. Len(r) /\ from(i) < from(j)
          /\ s[i] = r[from(i)] /\ s[j] = r[from(j)]
      BY <1>6, <1>7, <2>3
    <3> QED BY <3>1 DEF Sorted
  <2> QED BY <2>1, <2>2, <2>3
<1> QED BY <1>4, <1>10, <1>11 DEF s

(***************************************************************************)
(* multiset::insert keeps its elements in order.                           *)
(***************************************************************************)
LEMMA InsertSorted ==
    ASSUME NEW X, NEW Lt, IsOrder(Lt, X), NEW Y \in SUBSET X, NEW r, Lists(r, Y), Sorted(r, Lt),
           NEW p \in X, p \notin Y,
           NEW n, n = Bound(Len(r), {i \in 1 .. Len(r) : <<p, r[i]>> \in Lt})
    PROVE  /\ Fits(r, n, p, Lt)
           /\ Lists(Inserted(r, n, p), Y \cup {p})
           /\ Sorted(Inserted(r, n, p), Lt)
           /\ IsInserted(Inserted(r, n, p), r, n, p)
<1> DEFINE P == {i \in 1 .. Len(r) : <<p, r[i]>> \in Lt}
<1>0. Len(r) \in Nat /\ \A i \in 1 .. Len(r) : r[i] \in X
  BY LenProperties, ElementOfSeq DEF Lists
<1>1. /\ n \in 0 .. Len(r) /\ \A i \in 1 .. n : i \notin P
      /\ n < Len(r) => n + 1 \in P
  <2>1. n = Bound(Len(r), P)
    OBVIOUS
  <2> HIDE DEF P
  <2>2. IsBound(n, Len(r), P)
    BY <1>0, <2>1, BoundExists
  <2> QED BY <2>2 DEF IsBound
<1>2. ASSUME NEW i \in 1 .. Len(r), i <= n PROVE <<p, r[i]>> \notin Lt
  <2>1. i \in 1 .. n
    BY <1>0, <1>1, <1>2
  <2> QED BY <1>1, <2>1
<1>3. ASSUME NEW i \in 1 .. Len(r), ~(i <= n) PROVE <<p, r[i]>> \in Lt
  <2>1. n < Len(r) /\ n + 1 \in 1 .. Len(r) /\ n + 1 <= i
    BY <1>0, <1>1, <1>3
  <2>2. <<p, r[n + 1]>> \in Lt
    BY <1>1, <2>1
  <2>3. CASE i = n + 1
    BY <2>2, <2>3
  <2>4. CASE n + 1 < i
    <3>1. <<r[n + 1], r[i]>> \in Lt
      BY <2>1, <2>4 DEF Sorted
    <3>2. r[n + 1] \in X /\ r[i] \in X
      BY <1>0, <2>1
    <3> QED BY <2>2, <3>1, <3>2 DEF IsOrder
  <2> QED BY <1>0, <1>1, <2>1, <2>3, <2>4
<1>4. Fits(r, n, p, Lt)
  BY <1>1, <1>2, <1>3 DEF Fits
<1> HIDE DEF P
<1> QED BY <1>4, InsertedInOrder

(***************************************************************************)
(* So does multiset::erase.                                                *)
(***************************************************************************)
LEMMA EraseSorted ==
    ASSUME NEW Y, NEW r, Lists(r, Y), NEW Lt, Sorted(r, Lt), NEW n \in 1 .. Len(r)
    PROVE  /\ Lists(Erased(r, n), Y \ {r[n]})
           /\ Sorted(Erased(r, n), Lt)
           /\ Len(Erased(r, n)) = Len(r) - 1
<1> DEFINE s == Erased(r, n)
<1>0. Len(r) \in Nat /\ \A i \in 1 .. Len(r) : r[i] \in Y
  BY LenProperties, ElementOfSeq DEF Lists
<1>1. /\ s \in Seq(Y) /\ Len(s) = Len(r) - 1
      /\ \A i \in 1 .. n - 1 : s[i] = r[i]
      /\ \A i \in n .. Len(r) - 1 : s[i] = r[i + 1]
  <2>1. r \in Seq(Y)
    BY DEF Lists
  <2> QED BY <2>1, ErasedElements
<1> HIDE DEF s
<1> DEFINE at(i) == IF i < n THEN i ELSE i + 1
<1>2. ASSUME NEW i \in 1 .. Len(s)
      PROVE  at(i) \in 1 .. Len(r) /\ at(i) # n /\ s[i] = r[at(i)]
  <2>1. CASE i < n
    <3>1. i \in 1 .. n - 1 /\ i \in 1 .. Len(r)
      BY <1>0, <2>1
    <3> QED BY <1>1, <2>1, <3>1
  <2>2. CASE ~(i < n)
    <3>1. i \in n .. Len(r) - 1 /\ i + 1 \in 1 .. Len(r) /\ i + 1 # n
      BY <1>0, <1>1, <2>2
    <3> QED BY <1>1, <2>2, <3>1
  <2> QED BY <2>1, <2>2
<1>3. \A i, j \in 1 .. Len(s) : (i < j => at(i) < at(j)) /\ (at(i) = at(j) => i = j)
  BY <1>0, <1>1
<1> HIDE DEF at
<1>4. s \in Seq(Y \ {r[n]})
  <2>1. ASSUME NEW i \in 1 .. Len(s) PROVE s[i] \in Y \ {r[n]}
    <3>1. at(i) \in 1 .. Len(r) /\ at(i) # n /\ s[i] = r[at(i)]
      BY <1>2
    <3>2. r[at(i)] # r[n]
      BY <3>1, Zenon DEF Lists
    <3> QED BY <1>0, <3>1, <3>2
  <2>2. Len(s) \in Nat /\ s \in [1 .. Len(s) -> Y]
    BY <1>1, LenProperties
  <2> QED BY <2>1, <2>2, SeqDef
<1>5. ASSUME NEW i \in 1 .. Len(s), NEW j \in 1 .. Len(s), s[i] = s[j] PROVE i = j
  <2>1. at(i) \in 1 .. Len(r) /\ at(j) \in 1 .. Len(r) /\ r[at(i)] = r[at(j)]
    BY <1>2, <1>5
  <2>2. at(i) = at(j)
    BY <2>1, Zenon DEF Lists
  <2> QED BY <1>3, <2>2
<1>6. ASSUME NEW y \in Y \ {r[n]} PROVE \E i \in 1 .. Len(s) : s[i] = y
  <2>1. PICK k \in 1 .. Len(r) : r[k] = y
    BY DEF Lists
  <2>2. CASE k < n
    <3>1. k \in 1 .. Len(s) /\ s[k] = r[k]
      BY <1>0, <1>1, <2>2
    <3> QED BY <2>1, <3>1
  <2>3. CASE k > n
    <3>1. k - 1 \in 1 .. Len(s) /\ k - 1 \in n .. Len(r) - 1 /\ (k - 1) + 1 = k
      BY <1>0, <1>1, <2>3
    <3> QED BY <1>1, <2>1, <3>1, Zenon
  <2> QED BY <2>1, <2>2, <2>3
<1>7. Sorted(s, Lt)
  BY <1>2, <1>3 DEF Sorted
<1> QED BY <1>1, <1>4, <1>5, <1>6, <1>7 DEF Lists, s

-----------------------------------------------------------------------------
(* A loop that inserts the elements of a sequence, from the first to the last. *)

\* multiset::insert of p.
Placed(r, p, Lt) ==
    Inserted(r, Bound(Len(r), {i \in 1 .. Len(r) : <<p, r[i]>> \in Lt}), p)

\* h lists the values of the first n rounds of a loop: round i takes F[i].
IsLoop(h, n, S, b, F) ==
    /\ h \in [0 .. n -> S]
    /\ h[0] = b
    /\ \A i \in 1 .. n : h[i] = F[i][h[i - 1]]

(***************************************************************************)
(* The values of a loop exist.                                             *)
(***************************************************************************)
LEMMA LoopExists ==
    ASSUME NEW n \in Nat, NEW S, NEW b \in S, NEW F \in [1 .. n -> [S -> S]]
    PROVE  \E h : IsLoop(h, n, S, b, F)
<1> DEFINE Has(k) == \E h : IsLoop(h, k, S, b, F)
           T == {k \in 0 .. n : Has(k)}
<1>1. 0 \in T
  <2>1. IsLoop([i \in 0 .. 0 |-> b], 0, S, b, F)
    BY DEF IsLoop
  <2> QED BY <2>1
<1>2. ASSUME NEW k \in 1 .. n, k - 1 \in T PROVE k \in T
  <2>1. PICK h : IsLoop(h, k - 1, S, b, F)
    BY <1>2
  <2> DEFINE g == [i \in 0 .. k |-> IF i = k THEN F[k][h[k - 1]] ELSE h[i]]
  <2>2. F[k] \in [S -> S] /\ h[k - 1] \in S
    BY <2>1 DEF IsLoop
  <2>3. g \in [0 .. k -> S] /\ g[0] = b
    BY <2>1, <2>2 DEF IsLoop
  <2>4. ASSUME NEW i \in 1 .. k PROVE g[i] = F[i][g[i - 1]]
    <3>1. CASE i = k
      BY <3>1
    <3>2. CASE i # k
      BY <2>1, <3>2 DEF IsLoop
    <3> QED BY <3>1, <3>2
  <2>5. IsLoop(g, k, S, b, F)
    BY <2>3, <2>4, Zenon DEF IsLoop
  <2> QED BY <2>5
<1>3. n \in T
  <2> HIDE DEF T
  <2>1. n \in 0 .. n
    OBVIOUS
  <2> QED BY <1>1, <1>2, <2>1, UpTo, Zenon
<1> QED BY <1>3

\* The state of the loop after k rounds: the first k elements of at are in order;
\* and where they were, if all of them were in order before.
LoopInv(r, k, at, Lt) ==
    /\ Lists(r, {at[i] : i \in 1 .. k})
    /\ Sorted(r, Lt)
    /\ Len(r) = k
    /\ Sorted(at, Lt) => \A i \in 1 .. k : r[i] = at[i]

(***************************************************************************)
(* One round.                                                              *)
(***************************************************************************)
LEMMA LoopRound ==
    ASSUME NEW X, NEW Lt, IsOrder(Lt, X), NEW at, Lists(at, X),
           NEW k \in 1 .. Len(at), NEW r, LoopInv(r, k - 1, at, Lt)
    PROVE  LoopInv(Placed(r, at[k], Lt), k, at, Lt)
<1> DEFINE Y == {at[i] : i \in 1 .. k - 1}
           n == Bound(Len(r), {i \in 1 .. Len(r) : <<at[k], r[i]>> \in Lt})
           s == Inserted(r, n, at[k])
<1>0. Len(at) \in Nat /\ \A i \in 1 .. Len(at) : at[i] \in X
  BY LenProperties, ElementOfSeq DEF Lists
<1>1. Y \in SUBSET X /\ at[k] \in X /\ at[k] \notin Y
  <2>1. \A i \in 1 .. k - 1 : i \in 1 .. Len(at) /\ i # k
    BY <1>0
  <2>2. \A i \in 1 .. k - 1 : at[i] # at[k]
    BY <2>1 DEF Lists
  <2> QED BY <1>0, <2>1, <2>2
<1>2. Lists(r, Y) /\ Sorted(r, Lt) /\ Len(r) = k - 1
  BY DEF LoopInv
<1>3. /\ Fits(r, n, at[k], Lt) /\ Lists(s, Y \cup {at[k]}) /\ Sorted(s, Lt)
      /\ IsInserted(s, r, n, at[k])
  <2> DEFINE p == at[k]
  <2>1. n = Bound(Len(r), {i \in 1 .. Len(r) : <<p, r[i]>> \in Lt}) /\ p \in X /\ p \notin Y
    BY <1>1
  <2>2. /\ Fits(r, n, p, Lt) /\ Lists(Inserted(r, n, p), Y \cup {p}) /\ Sorted(Inserted(r, n, p), Lt)
        /\ IsInserted(Inserted(r, n, p), r, n, p)
    <3> HIDE DEF n, p, Y
    <3> QED BY <1>1, <1>2, <2>1, InsertSorted, Zenon
  <2> QED BY <2>2
<1>4. Y \cup {at[k]} = {at[i] : i \in 1 .. k}
  <2>1. \A i : i \in 1 .. k <=> i \in 1 .. k - 1 \/ i = k
    OBVIOUS
  <2> QED BY <2>1
<1> HIDE DEF n, s, Y
<1>5. Len(s) = k
  BY <1>2, <1>3 DEF IsInserted
<1>6. ASSUME Sorted(at, Lt), NEW i \in 1 .. k PROVE s[i] = at[i]
  <2>1. \A j \in 1 .. k - 1 : r[j] = at[j]
    BY <1>6 DEF LoopInv
  <2>2. ASSUME NEW j \in 1 .. k - 1 PROVE <<at[k], r[j]>> \notin Lt
    <3>1. j \in 1 .. Len(at) /\ j < k
      BY <1>0
    <3>2. <<at[j], at[k]>> \in Lt
      BY <1>6, <3>1 DEF Sorted
    <3>3. at[j] \in X /\ at[k] \in X
      BY <1>0, <3>1
    <3>4. <<at[k], at[j]>> \notin Lt
      BY <3>2, <3>3, Zenon DEF IsOrder
    <3> QED BY <2>1, <3>4
  <2>3. n \in 0 .. k - 1 /\ \A j \in 1 .. k - 1 : j <= n
    BY <1>2, <1>3, <2>2, Zenon DEF Fits
  <2>4. n = k - 1
    <3>1. k - 1 \in 1 .. k - 1 \/ k - 1 = 0
      OBVIOUS
    <3> QED BY <2>3, <3>1
  <2>5. CASE i = k
    BY <1>3, <2>4, <2>5 DEF IsInserted
  <2>6. CASE i # k
    <3>1. i \in 1 .. k - 1
      BY <2>6
    <3> QED BY <1>3, <2>1, <2>4, <3>1 DEF IsInserted
  <2> QED BY <2>5, <2>6
<1> QED BY <1>3, <1>4, <1>5, <1>6, Zenon DEF LoopInv, Placed, n, s

\* h lists the rounds of load(), which inserts the elements of at.
IsLoad(h, at, X, Lt) ==
    /\ h \in [0 .. Len(at) -> Seq(X)]
    /\ h[0] = <<>>
    /\ \A i \in 1 .. Len(at) : h[i] = Placed(h[i - 1], at[i], Lt)

(***************************************************************************)
(* The loop of load() ends with every element in order, and with the       *)
(* sequence it was given if that was in order.                             *)
(***************************************************************************)
LEMMA LoadExists ==
    ASSUME NEW X, NEW Lt, IsOrder(Lt, X), NEW at, Lists(at, X)
    PROVE  \E h : /\ IsLoad(h, at, X, Lt)
                  /\ Lists(h[Len(at)], X) /\ Sorted(h[Len(at)], Lt)
                  /\ Len(h[Len(at)]) = Len(at)
                  /\ Sorted(at, Lt) => h[Len(at)] = at
<1> DEFINE n == Len(at)
           S == Seq(X)
           F == [i \in 1 .. n |-> [r \in S |-> Placed(r, at[i], Lt)]]
<1>0. n \in Nat /\ at \in Seq(X) /\ \A i \in 1 .. n : at[i] \in X
  BY LenProperties, ElementOfSeq DEF Lists
<1>1. F \in [1 .. n -> [S -> S]]
  <2>1. ASSUME NEW i \in 1 .. n, NEW r \in S PROVE Placed(r, at[i], Lt) \in S
    <3> DEFINE P == {j \in 1 .. Len(r) : <<at[i], r[j]>> \in Lt}
               m == Bound(Len(r), P)
    <3>1. m \in 0 .. Len(r)
      <4>1. Len(r) \in Nat
        BY LenProperties
      <4> HIDE DEF P
      <4> QED BY <4>1, BoundExists DEF IsBound
    <3>2. Placed(r, at[i], Lt) = Inserted(r, m, at[i])
      BY DEF Placed
    <3>3. at[i] \in X
      BY <1>0
    <3> HIDE DEF m, P
    <3>4. Inserted(r, m, at[i]) \in Seq(X)
      BY <3>1, <3>3, InsertedElements
    <3> QED BY <3>2, <3>4
  <2> HIDE DEF S
  <2> QED BY <2>1
<1>2. PICK h : IsLoop(h, n, S, <<>>, F)
  <2>1. <<>> \in S
    OBVIOUS
  <2> HIDE DEF S, F, n
  <2> QED BY <1>0, <1>1, <2>1, LoopExists
<1>3. IsLoad(h, at, X, Lt)
  <2>1. h \in [0 .. n -> S] /\ h[0] = <<>>
    BY <1>2 DEF IsLoop
  <2>2. ASSUME NEW i \in 1 .. n PROVE h[i] = Placed(h[i - 1], at[i], Lt)
    <3>1. h[i] = F[i][h[i - 1]]
      BY <1>2 DEF IsLoop
    <3>2. h[i - 1] \in S
      BY <1>0, <2>1
    <3> HIDE DEF S, n
    <3> QED BY <3>1, <3>2
  <2> QED BY <2>1, <2>2 DEF IsLoad
<1> HIDE DEF F, S
<1> DEFINE T == {k \in 0 .. n : LoopInv(h[k], k, at, Lt)}
<1>4. 0 \in T
  <2>1. Lists(<<>>, {at[i] : i \in 1 .. 0})
    BY DEF Lists
  <2>2. h[0] = <<>> /\ Len(<<>>) = 0 /\ Sorted(<<>>, Lt)
    BY <1>3 DEF IsLoad, Sorted
  <2> QED BY <1>0, <2>1, <2>2 DEF LoopInv
<1>5. ASSUME NEW k \in 1 .. n, k - 1 \in T PROVE k \in T
  <2>1. LoopInv(h[k - 1], k - 1, at, Lt) /\ h[k] = Placed(h[k - 1], at[k], Lt)
    BY <1>3, <1>5 DEF IsLoad
  <2>2. LoopInv(h[k], k, at, Lt)
    BY <2>1, LoopRound
  <2> QED BY <1>0, <2>2
<1>6. LoopInv(h[n], n, at, Lt)
  <2>1. n \in T
    <3> HIDE DEF T, n
    <3>1. n \in 0 .. n
      BY <1>0
    <3> QED BY <1>0, <1>4, <1>5, <3>1, UpTo, Zenon
  <2> QED BY <2>1
<1>7. {at[i] : i \in 1 .. n} = X
  BY <1>0 DEF Lists
<1>8. Lists(h[n], X) /\ Sorted(h[n], Lt) /\ Len(h[n]) = n
  BY <1>6, <1>7, Zenon DEF LoopInv
<1>9. ASSUME Sorted(at, Lt) PROVE h[n] = at
  <2>1. h[n] \in Seq(X) /\ Len(h[n]) = n /\ \A i \in 1 .. n : h[n][i] = at[i]
    BY <1>6, <1>8, <1>9 DEF LoopInv, Lists
  <2> DEFINE y == h[n]
  <2>2. y \in Seq(X) /\ Len(y) = n /\ \A i \in 1 .. n : y[i] = at[i]
    BY <2>1
  <2> HIDE DEF y
  <2>3. y = at
    BY <1>0, <2>2, SameElements
  <2> QED BY <2>3 DEF y
<1> QED BY <1>3, <1>8, <1>9

\* r has the elements of at, in order, and is at if that was in order.
Sorts(r, at, X, Lt) ==
    /\ Lists(r, X) /\ Sorted(r, Lt) /\ Len(r) = Len(at)
    /\ Sorted(at, Lt) => r = at

(***************************************************************************)
(* The rounds of load() end with the elements in order.                    *)
(***************************************************************************)
LEMMA RoundsSort ==
    ASSUME NEW X, NEW Lt, IsOrder(Lt, X), NEW at, Lists(at, X),
           NEW f, f[0] = <<>>,
           \A i \in 1 .. Len(at) : f[i - 1] \in Seq(X) => f[i] = Placed(f[i - 1], at[i], Lt)
    PROVE  Sorts(f[Len(at)], at, X, Lt)
<1> DEFINE n == Len(at)
<1>0. n \in Nat
  BY LenProperties DEF Lists
<1>1. PICK h : /\ IsLoad(h, at, X, Lt)
               /\ Lists(h[n], X) /\ Sorted(h[n], Lt) /\ Len(h[n]) = n
               /\ Sorted(at, Lt) => h[n] = at
  BY LoadExists
<1>2. /\ h \in [0 .. n -> Seq(X)] /\ h[0] = <<>>
      /\ \A i \in 1 .. n : h[i] = Placed(h[i - 1], at[i], Lt)
  BY <1>1 DEF IsLoad
<1> HIDE DEF n
<1> DEFINE T == {i \in 0 .. n : f[i] = h[i]}
<1>3. 0 \in T
  BY <1>0, <1>2
<1>4. \A i \in 1 .. n : i - 1 \in T => i \in T
  <2> SUFFICES ASSUME NEW i \in 1 .. n, f[i - 1] = h[i - 1] PROVE f[i] = h[i]
    BY <1>0
  <2>1. h[i - 1] \in Seq(X)
    BY <1>0, <1>2
  <2> QED BY <1>2, <2>1 DEF n
<1>5. \A i \in 0 .. n : i \in T
  <2> HIDE DEF T
  <2> QED BY <1>0, <1>3, <1>4, UpTo, Zenon
<1>6. f[n] = h[n]
  BY <1>0, <1>5
<1> QED BY <1>1, <1>6 DEF n, Sorts

-----------------------------------------------------------------------------
(* The operations of BoardSequences. *)

(***************************************************************************)
(* std::multiset::insert puts p in its place, where `after` are the        *)
(* elements that p is before.                                              *)
(***************************************************************************)
LEMMA InsertIsPlaced ==
    ASSUME NEW X, NEW r \in Seq(X), NEW p, NEW Lt, NEW after,
           \A i \in 1 .. Len(r) : r[i] \in after <=> <<p, r[i]>> \in Lt
    PROVE  insert(r, p, after) = Placed(r, p, Lt)
<1> DEFINE P == {i \in 1 .. Len(r) : <<p, r[i]>> \in Lt}
           n == upper_bound(r, after)
<1>1. Len(r) \in Nat
  BY LenProperties
<1>2. \A i \in 1 .. Len(r) : r[i] \in after <=> i \in P
  OBVIOUS
<1> HIDE DEF P
<1>3. \A m \in 0 .. Len(r) :
         (/\ \A i \in 1 .. m : r[i] \notin after
          /\ m < Len(r) => r[m + 1] \in after) <=> IsBound(m, Len(r), P)
  BY <1>1, <1>2 DEF IsBound
<1>4. IsBound(Bound(Len(r), P), Len(r), P) /\ Bound(Len(r), P) \in 0 .. Len(r)
  BY <1>1, BoundExists DEF IsBound
<1>5. n \in 0 .. Len(r) /\ IsBound(n, Len(r), P)
  BY <1>3, <1>4, Zenon DEF upper_bound
<1>6. n = Bound(Len(r), P)
  <2> HIDE DEF n
  <2> QED BY <1>1, <1>4, <1>5, BoundUnique
<1>7. insert(r, p, after) = Inserted(r, n, p)
  BY DEF insert, Inserted
<1> QED BY <1>6, <1>7 DEF Placed, P

(***************************************************************************)
(* The position of an element that is there once.                          *)
(***************************************************************************)
LEMMA ThePosition ==
    ASSUME NEW r, NEW Y, Lists(r, Y), NEW i \in 1 .. Len(r)
    PROVE  Position(r, r[i]) = i
<1>1. DOMAIN r = 1 .. Len(r)
  BY LenProperties DEF Lists
<1>2. \A j \in DOMAIN r : r[j] = r[i] => j = i
  BY <1>1 DEF Lists
<1> QED BY <1>1, <1>2 DEF Position

\* s is r with p in its place, whose index get_index returns.
Gained(s, r, p, X, Lt) ==
    /\ Lists(s, X) /\ Sorted(s, Lt) /\ Len(s) = Len(r) + 1
    /\ \E n : Fits(r, n, p, Lt) /\ IsInserted(s, r, n, p) /\ get_index(s, p) = n

(***************************************************************************)
(* ranking.insert() of a pointer among the others.                         *)
(***************************************************************************)
LEMMA PlacedAmong ==
    ASSUME NEW X, NEW Lt, IsOrder(Lt, X), NEW p \in X, NEW r, Lists(r, X \ {p}), Sorted(r, Lt),
           NEW s, s = Placed(r, p, Lt)
    PROVE  Gained(s, r, p, X, Lt)
<1> DEFINE Y == X \ {p}
           n == Bound(Len(r), {i \in 1 .. Len(r) : <<p, r[i]>> \in Lt})
<1>1. s = Inserted(r, n, p)
  BY DEF Placed
<1>2. /\ Fits(r, n, p, Lt) /\ Lists(s, Y \cup {p}) /\ Sorted(s, Lt) /\ IsInserted(s, r, n, p)
  <2>1. n = Bound(Len(r), {i \in 1 .. Len(r) : <<p, r[i]>> \in Lt}) /\ Y \in SUBSET X /\ p \notin Y
    OBVIOUS
  <2>2. Lists(r, Y) /\ Sorted(r, Lt)
    OBVIOUS
  <2> HIDE DEF n, Y
  <2>3. /\ Fits(r, n, p, Lt) /\ Lists(Inserted(r, n, p), Y \cup {p})
        /\ Sorted(Inserted(r, n, p), Lt) /\ IsInserted(Inserted(r, n, p), r, n, p)
    BY <2>1, <2>2, InsertSorted, Zenon
  <2> QED BY <1>1, <2>3
<1>3. Y \cup {p} = X /\ Len(r) \in Nat
  BY LenProperties DEF Lists
<1>4. n + 1 \in 1 .. Len(s) /\ s[n + 1] = p /\ n \in Nat /\ Len(s) = Len(r) + 1
  <2> HIDE DEF n
  <2> QED BY <1>2, <1>3 DEF Fits, IsInserted
<1>5. get_index(s, p) = n
  <2> HIDE DEF n, Y
  <2>1. Position(s, s[n + 1]) = n + 1
    BY <1>2, <1>4, ThePosition
  <2> QED BY <1>4, <2>1 DEF get_index
<1> HIDE DEF n
<1> QED BY <1>2, <1>3, <1>4, <1>5, Zenon DEF Gained

(***************************************************************************)
(* ranking.erase() of a pointer.                                           *)
(***************************************************************************)
LEMMA ErasedFrom ==
    ASSUME NEW Y, NEW r, Lists(r, Y), NEW Lt, Sorted(r, Lt), NEW p \in Y
    PROVE  /\ Lists(erase(r, p), Y \ {p}) /\ Sorted(erase(r, p), Lt)
           /\ Len(erase(r, p)) = Len(r) - 1
<1>1. PICK i \in 1 .. Len(r) : r[i] = p
  BY DEF Lists
<1>2. Position(r, p) = i
  BY <1>1, ThePosition
<1>3. erase(r, p) = Erased(r, i)
  BY <1>2 DEF erase, Erased
<1>4. /\ Lists(Erased(r, i), Y \ {r[i]}) /\ Sorted(Erased(r, i), Lt)
      /\ Len(Erased(r, i)) = Len(r) - 1
  BY EraseSorted
<1> QED BY <1>1, <1>3, <1>4

\* f is the first k elements of s.
Starts(f, s, k) == Len(f) = k /\ \A i \in 1 .. k : f[i] = s[i]

(***************************************************************************)
(* The first n elements, or all if they are fewer.                         *)
(***************************************************************************)
LEMMA First ==
    ASSUME NEW T, NEW s \in Seq(T), NEW n \in Nat, NEW k, k = Least(n, Len(s))
    PROVE  /\ k \in 0 .. Len(s) /\ k <= n /\ (k = n \/ k = Len(s))
           /\ FirstOf(s, n) \in Seq(T)
           /\ Starts(FirstOf(s, n), s, k)
<1>1. Len(s) \in Nat
  BY LenProperties
<1>2. k \in 0 .. Len(s) /\ k <= n /\ (k = n \/ k = Len(s))
  BY <1>1 DEF Least
<1>3. /\ SubSeq(s, 1, k) \in Seq(T) /\ Len(SubSeq(s, 1, k)) = k - 1 + 1
      /\ \A i \in 1 .. k - 1 + 1 : SubSeq(s, 1, k)[i] = s[1 + i - 1]
  <2>1. 1 \in 1 .. Len(s) + 1 /\ 1 <= k + 1
    BY <1>1, <1>2
  <2> QED BY <1>2, <2>1, Part
<1>4. \A i \in 1 .. k : 1 + i - 1 = i /\ i \in 1 .. k - 1 + 1
  BY <1>1, <1>2
<1>5. FirstOf(s, n) = SubSeq(s, 1, k)
  BY DEF FirstOf
<1>6. Starts(SubSeq(s, 1, k), s, k)
  BY <1>1, <1>2, <1>3, <1>4 DEF Starts
<1> QED BY <1>2, <1>3, <1>5, <1>6

(***************************************************************************)
(* remove_last: the pointers that stay.                                    *)
(***************************************************************************)
LEMMA AllButLast ==
    ASSUME NEW T, NEW r \in Seq(T), Len(r) > 0
    PROVE  /\ SubSeq(r, 1, Len(r) - 1) \in Seq(T)
           /\ Len(SubSeq(r, 1, Len(r) - 1)) = Len(r) - 1
           /\ \A i \in 1 .. Len(r) - 1 : SubSeq(r, 1, Len(r) - 1)[i] = r[i]
<1> DEFINE k == Len(r) - 1
<1>1. k \in 0 .. Len(r) /\ 1 \in 1 .. Len(r) + 1 /\ 1 <= k + 1
  BY LenProperties
<1>2. /\ SubSeq(r, 1, k) \in Seq(T) /\ Len(SubSeq(r, 1, k)) = k - 1 + 1
      /\ \A i \in 1 .. k - 1 + 1 : SubSeq(r, 1, k)[i] = r[1 + i - 1]
  <2> HIDE DEF k
  <2> QED BY <1>1, Part
<1>3. k - 1 + 1 = k /\ \A i \in 1 .. k : 1 + i - 1 = i /\ i \in 1 .. k - 1 + 1
  BY <1>1
<1> HIDE DEF k
<1>4. /\ SubSeq(r, 1, k) \in Seq(T) /\ Len(SubSeq(r, 1, k)) = k
      /\ \A i \in 1 .. k : SubSeq(r, 1, k)[i] = r[i]
  BY <1>2, <1>3
<1> QED BY <1>4 DEF k

(***************************************************************************)
(* What an iteration from rbegin() to rend() visits.                       *)
(***************************************************************************)
LEMMA Reverse ==
    ASSUME NEW T, NEW s \in Seq(T)
    PROVE  /\ Reversed(s) \in Seq(T) /\ Len(Reversed(s)) = Len(s)
           /\ DOMAIN Reversed(s) = 1 .. Len(s)
           /\ \A i \in 1 .. Len(s) : Reversed(s)[i] = s[Len(s) - i + 1]
<1>1. Len(s) \in Nat /\ \A i \in 1 .. Len(s) : s[i] \in T
  BY LenProperties, ElementOfSeq
<1>2. \A i \in 1 .. Len(s) : Len(s) - i + 1 \in 1 .. Len(s)
  BY <1>1
<1>3. Reversed(s) = [i \in 1 .. Len(s) |-> s[Len(s) - i + 1]]
  BY DEF Reversed
<1>4. \A i \in 1 .. Len(s) : s[Len(s) - i + 1] \in T
  BY <1>1, <1>2
<1>5. Reversed(s) \in Seq(T)
  BY <1>1, <1>3, <1>4, IsASeq
<1>6. Len(Reversed(s)) = Len(s)
  BY <1>1, <1>3, <1>5, LenProperties
<1> QED BY <1>3, <1>5, <1>6

(***************************************************************************)
(* Two ranges of a board, the second from where the first stops.           *)
(***************************************************************************)
LEMMA Adjacent ==
    ASSUME NEW T, NEW s \in Seq(T), NEW from \in Nat, NEW mid \in Nat, NEW to \in Nat,
           from <= mid, mid <= to
    PROVE  Between(s, from, mid) \o Between(s, mid, to) = Between(s, from, to)
<1> DEFINE n == Len(s)
           c == Least(to, n)
<1>1. n \in Nat /\ <<>> \in Seq(T) /\ <<>> \o <<>> = <<>>
  BY LenProperties
<1>2. CASE from >= n
  <2>1. mid >= n
    BY <1>1, <1>2
  <2> QED BY <1>1, <1>2, <2>1 DEF Between
<1>3. CASE from < n /\ mid >= n
  <2>1. Least(mid, n) = n /\ Least(to, n) = n
    BY <1>1, <1>3 DEF Least
  <2>2. ~ (from >= n) /\ ~ (from > mid) /\ ~ (from > to)
    BY <1>1, <1>3
  <2>3. /\ Between(s, from, mid) = SubSeq(s, from + 1, n)
        /\ Between(s, mid, to) = <<>>
        /\ Between(s, from, to) = SubSeq(s, from + 1, n)
    BY <1>3, <2>1, <2>2 DEF Between
  <2>4. SubSeq(s, from + 1, n) \in Seq(T)
    <3>1. from + 1 \in 1 .. n + 1 /\ n \in 0 .. n /\ from + 1 <= n + 1
      BY <1>1, <1>3
    <3> QED BY <3>1, Part
  <2> QED BY <2>3, <2>4, ConcatEmptySeq
<1>4. CASE from < n /\ mid < n
  <2>1. Least(mid, n) = mid /\ c \in mid .. n
    BY <1>1, <1>4 DEF Least
  <2>2. ~ (from >= n) /\ ~ (from > mid) /\ ~ (from > to) /\ ~ (mid >= n) /\ ~ (mid > to)
    BY <1>1, <1>4
  <2>3. /\ Between(s, from, mid) = SubSeq(s, from + 1, mid)
        /\ Between(s, mid, to) = SubSeq(s, mid + 1, c)
        /\ Between(s, from, to) = SubSeq(s, from + 1, c)
    BY <2>1, <2>2 DEF Between
  <2> HIDE DEF c
  <2>4. from + 1 \in 1 .. Len(s) + 1 /\ mid \in (from + 1) - 1 .. Len(s) /\ c \in mid .. Len(s)
    BY <1>1, <1>4, <2>1
  <2>5. SubSeq(s, from + 1, mid) \o SubSeq(s, mid + 1, c) = SubSeq(s, from + 1, c)
    BY <2>4, ConcatAdjacentSubSeq
  <2> QED BY <2>3, <2>5, Zenon
<1> QED BY <1>1, <1>2, <1>3, <1>4

(***************************************************************************)
(* The range from 0, and one that is long enough.                          *)
(***************************************************************************)
LEMMA FromZero ==
    ASSUME NEW T, NEW s \in Seq(T), NEW n \in Nat
    PROVE  /\ FirstOf(s, n) = Between(s, 0, n)
           /\ n >= Len(s) => FirstOf(s, n) = s
<1>1. Len(s) \in Nat
  BY LenProperties
<1>2. n >= Len(s) => FirstOf(s, n) = s
  <2> SUFFICES ASSUME n >= Len(s) PROVE FirstOf(s, n) = s
    OBVIOUS
  <2>1. Least(n, Len(s)) = Len(s)
    BY <1>1 DEF Least
  <2>2. SubSeq(s, 1, Len(s)) = s
    BY SubSeqFull
  <2> QED BY <2>1, <2>2 DEF FirstOf
<1>3. CASE Len(s) = 0
  <2>1. Between(s, 0, n) = <<>> /\ s = <<>>
    BY <1>3, EmptySeq DEF Between
  <2> QED BY <1>2, <1>3, <2>1
<1>4. CASE Len(s) > 0
  <2>1. ~ (0 >= Len(s)) /\ ~ (0 > n) /\ 0 + 1 = 1
    BY <1>1, <1>4
  <2>2. Between(s, 0, n) = SubSeq(s, 1, Least(n, Len(s)))
    BY <2>1, Zenon DEF Between
  <2> QED BY <1>2, <2>2 DEF FirstOf
<1> QED BY <1>1, <1>3, <1>4

(***************************************************************************)
(* A range is made of elements of the board.                               *)
(***************************************************************************)
LEMMA RangeType ==
    ASSUME NEW T, NEW s \in Seq(T), NEW from \in Nat, NEW to \in Nat
    PROVE  Between(s, from, to) \in Seq(T)
<1> DEFINE c == Least(to, Len(s))
<1>1. Len(s) \in Nat
  BY LenProperties
<1>2. CASE from >= Len(s) \/ from > to
  BY <1>2 DEF Between
<1>3. CASE ~ (from >= Len(s) \/ from > to)
  <2>1. Between(s, from, to) = SubSeq(s, from + 1, c)
    BY <1>3, Zenon DEF Between
  <2>2. from + 1 \in 1 .. Len(s) + 1 /\ c \in 0 .. Len(s) /\ from + 1 <= c + 1
    BY <1>1, <1>3 DEF Least
  <2> HIDE DEF c
  <2> QED BY <2>1, <2>2, Part
<1> QED BY <1>2, <1>3

(***************************************************************************)
(* A range by indices from the bottom, converted to indices from the top,  *)
(* is the range of the reversed sequence from right to left.               *)
(***************************************************************************)
LEMMA FromBottom ==
    ASSUME NEW T, NEW s \in Seq(T), NEW from \in Nat, NEW to \in Nat
    PROVE  Reversed(Between(Reversed(s), from, to)) =
             IF from >= Len(s) \/ from >= to THEN <<>>
             ELSE SubSeq(s, Len(s) - Least(to, Len(s)) + 1, Len(s) - from)
<1> DEFINE n == Len(s)
           r == Reversed(s)
           c == Least(to, n)
<1>1. n \in Nat
  BY LenProperties
<1>2. r \in Seq(T) /\ Len(r) = n /\ \A i \in 1 .. n : r[i] = s[n - i + 1]
  BY Reverse
<1>3. Reversed(<<>>) = <<>>
  BY DEF Reversed
<1> HIDE DEF r, n
<1>4. CASE from >= n \/ from > to
  BY <1>2, <1>3, <1>4 DEF Between, n, r
<1>5. CASE ~ (from >= n) /\ from = to
  <2>1. Between(r, from, to) = SubSeq(r, from + 1, from)
    BY <1>1, <1>2, <1>5 DEF Between, Least
  <2>2. SubSeq(r, from + 1, from) = <<>>
    BY <1>2
  <2>3. Reversed(Between(r, from, to)) = <<>> /\ from >= to
    <3>1. from >= to
      BY <1>5
    <3> QED BY <1>3, <2>1, <2>2, <3>1, Zenon
  <2> QED BY <2>3, Zenon DEF r, n
<1>6. CASE ~ (from >= n) /\ from < to
  <2>1. c \in from + 1 .. n
    BY <1>1, <1>6 DEF Least
  <2> DEFINE x == SubSeq(r, from + 1, c)
             y == SubSeq(s, n - c + 1, n - from)
             v == Reversed(x)
  <2>2. Between(r, from, to) = x
    <3>1. Len(r) = n /\ ~ (from >= n \/ from > to)
      BY <1>1, <1>2, <1>6
    <3> QED BY <3>1, Zenon DEF Between
  <2> HIDE DEF c
  <2>3. /\ x \in Seq(T) /\ Len(x) = c - from
        /\ \A i \in 1 .. c - from : x[i] = r[from + i]
    <3>1. /\ from + 1 \in 1 .. Len(r) + 1 /\ c \in 0 .. Len(r) /\ from + 1 <= c + 1
          /\ c - (from + 1) + 1 = c - from
      BY <1>1, <1>2, <2>1
    <3>2. /\ x \in Seq(T) /\ Len(x) = c - (from + 1) + 1
          /\ \A i \in 1 .. c - (from + 1) + 1 : x[i] = r[(from + 1) + i - 1]
      BY <1>2, <3>1, Part
    <3> HIDE DEF x
    <3>3. \A i \in 1 .. c - from : (from + 1) + i - 1 = from + i
      OBVIOUS
    <3> QED BY <3>1, <3>2, <3>3
  <2>4. /\ y \in Seq(T) /\ Len(y) = c - from
        /\ \A i \in 1 .. c - from : y[i] = s[n - c + i]
    <3>1. /\ n - c + 1 \in 1 .. Len(s) + 1 /\ n - from \in 0 .. Len(s)
          /\ n - c + 1 <= (n - from) + 1 /\ (n - from) - (n - c + 1) + 1 = c - from
      BY <1>1, <2>1 DEF n
    <3>2. /\ y \in Seq(T) /\ Len(y) = (n - from) - (n - c + 1) + 1
          /\ \A i \in 1 .. (n - from) - (n - c + 1) + 1 : y[i] = s[(n - c + 1) + i - 1]
      BY <3>1, Part
    <3> HIDE DEF y
    <3>3. \A i \in 1 .. c - from : (n - c + 1) + i - 1 = n - c + i
      BY <1>1, <2>1
    <3> QED BY <3>1, <3>2, <3>3
  <2> HIDE DEF x, y
  <2>5. v \in Seq(T) /\ Len(v) = c - from
    BY <2>3, Reverse
  <2>6. ASSUME NEW i \in 1 .. c - from PROVE v[i] = y[i]
    <3> DEFINE j == (c - from) - i + 1
    <3>1. /\ j \in 1 .. c - from /\ from + j = c - i + 1 /\ from + j \in 1 .. n
          /\ n - (from + j) + 1 = n - c + i
      BY <1>1, <2>1
    <3>2. v[i] = x[j]
      <4>1. v[i] = x[Len(x) - i + 1]
        BY <2>3, Reverse
      <4> QED BY <2>3, <4>1
    <3> HIDE DEF j, v
    <3>3. x[j] = r[from + j] /\ r[from + j] = s[n - (from + j) + 1]
      BY <1>2, <2>3, <3>1
    <3> QED BY <2>4, <3>1, <3>2, <3>3
  <2> HIDE DEF v
  <2>7. v = y
    BY <2>4, <2>5, <2>6, SameElements, Zenon
  <2>8. Reversed(Between(r, from, to)) = y /\ ~ (from >= n \/ from >= to)
    BY <1>1, <1>6, <2>2, <2>7 DEF v
  <2> QED BY <2>8, Zenon DEF y, c, n, r
<1> QED BY <1>1, <1>4, <1>5, <1>6

(***************************************************************************)
(* The reverse of a concatenation.                                         *)
(***************************************************************************)
LEMMA ReverseJoined ==
    ASSUME NEW T, NEW s \in Seq(T), NEW t \in Seq(T)
    PROVE  Reversed(t) \o Reversed(s) = Reversed(s \o t)
<1> DEFINE m == Len(s)
           n == Len(t)
           x == Reversed(s)
           y == Reversed(t)
           u == s \o t
           v == Reversed(u)
           w == y \o x
<1>1. m \in Nat /\ n \in Nat
  BY LenProperties
<1>2. /\ u \in Seq(T) /\ Len(u) = m + n
      /\ \A i \in 1 .. m + n : u[i] = IF i <= m THEN s[i] ELSE t[i - m]
  BY ConcatProperties
<1>3. x \in Seq(T) /\ Len(x) = m /\ \A i \in 1 .. m : x[i] = s[m - i + 1]
  BY Reverse
<1>4. y \in Seq(T) /\ Len(y) = n /\ \A i \in 1 .. n : y[i] = t[n - i + 1]
  BY Reverse
<1> HIDE DEF m, n, u, x, y
<1>5. v \in Seq(T) /\ Len(v) = m + n /\ \A i \in 1 .. m + n : v[i] = u[m + n - i + 1]
  <2>1. u \in Seq(T)
    BY <1>2
  <2>2. v \in Seq(T) /\ Len(v) = Len(u) /\ \A i \in 1 .. Len(u) : v[i] = u[Len(u) - i + 1]
    BY <2>1, Reverse
  <2> HIDE DEF v
  <2> QED BY <1>1, <1>2, <2>2
<1>6. /\ w \in Seq(T) /\ Len(w) = n + m
      /\ \A i \in 1 .. n + m : w[i] = IF i <= n THEN y[i] ELSE x[i - n]
  <2>1. x \in Seq(T) /\ y \in Seq(T)
    BY <1>3, <1>4
  <2>2. /\ w \in Seq(T) /\ Len(w) = Len(y) + Len(x)
        /\ \A i \in 1 .. Len(y) + Len(x) : w[i] = IF i <= Len(y) THEN y[i] ELSE x[i - Len(y)]
    BY <2>1, ConcatProperties
  <2> HIDE DEF w
  <2> QED BY <1>3, <1>4, <2>2
<1> HIDE DEF v, w
<1>7. ASSUME NEW i \in 1 .. m + n PROVE w[i] = v[i]
  <2> DEFINE j == m + n - i + 1
  <2>1. j \in 1 .. m + n /\ i \in 1 .. n + m
    BY <1>1
  <2>2. v[i] = u[j] /\ u[j] = IF j <= m THEN s[j] ELSE t[j - m]
    BY <1>2, <1>5, <2>1
  <2>3. CASE i <= n
    <3>1. ~ (j <= m) /\ j - m = n - i + 1 /\ i \in 1 .. n
      BY <1>1, <2>3
    <3>2. w[i] = t[n - i + 1]
      BY <1>4, <1>6, <2>1, <2>3, <3>1
    <3> HIDE DEF j
    <3> QED BY <2>2, <3>1, <3>2
  <2>4. CASE ~ (i <= n)
    <3>1. j <= m /\ i - n \in 1 .. m /\ m - (i - n) + 1 = j
      BY <1>1, <2>4
    <3>2. w[i] = x[i - n]
      BY <1>6, <2>1, <2>4
    <3>3. x[i - n] = s[m - (i - n) + 1]
      BY <1>3, <3>1
    <3> HIDE DEF j
    <3> QED BY <2>2, <3>1, <3>2, <3>3
  <2> QED BY <2>3, <2>4
<1>8. Len(w) = Len(v)
  BY <1>1, <1>5, <1>6
<1>9. w = v
  BY <1>5, <1>6, <1>7, <1>8, SeqEqual
<1> QED BY <1>9 DEF w, v, u, x, y

\* What the queries by index return of s, read from its first element: pages
\* fit together, the first ones are those from 0, a long enough one is s.
PagesOf(s) ==
    /\ \A from, to \in Nat : \A mid \in from .. to :
          Between(s, from, mid) \o Between(s, mid, to) = Between(s, from, to)
    /\ \A n \in Nat : FirstOf(s, n) = Between(s, 0, n)
    /\ \A n \in Nat : n >= Len(s) => FirstOf(s, n) = s

(***************************************************************************)
(* The pages of any board fit together.                                    *)
(***************************************************************************)
LEMMA PagesOfAny ==
    ASSUME NEW T, NEW s \in Seq(T)
    PROVE  PagesOf(s)
<1>1. ASSUME NEW from \in Nat, NEW to \in Nat, NEW mid \in from .. to
      PROVE  Between(s, from, mid) \o Between(s, mid, to) = Between(s, from, to)
  <2>1. mid \in Nat /\ from <= mid /\ mid <= to
    OBVIOUS
  <2> QED BY <2>1, Adjacent
<1>2. \A n \in Nat : /\ FirstOf(s, n) = Between(s, 0, n)
                     /\ n >= Len(s) => FirstOf(s, n) = s
  BY FromZero
<1> QED BY <1>1, <1>2, Zenon DEF PagesOf
=============================================================================
