----------------------- MODULE ThreadSafeQueueProofs -----------------------
(***************************************************************************)
(* Proofs about ThreadSafeQueue for any threads, elements, limits and      *)
(* width of size_t, and the safety half of QueueRefinement.                *)
(***************************************************************************)
EXTENDS QueueRefinement, SequenceLemmas, FiniteSetTheorems

-----------------------------------------------------------------------------
(***************************************************************************)
(* Bytes(s) is the total of the sizes of the elements of s, so the facts   *)
(* about Total apply to it.                                                *)
(***************************************************************************)
LEMMA BytesIsTotal == Size \in [Items -> Nat] /\ \A s : Bytes(s) = Total(s, Size)
BY QueueAssumption DEF SizeT, Bytes, Total

(***************************************************************************)
(* The bytes held, which current_bytes counts, are a natural number.       *)
(***************************************************************************)
LEMMA BytesType ==
    ASSUME NEW s \in Seq(Items)
    PROVE  Bytes(s) \in Nat
BY BytesIsTotal, TotalType

(***************************************************************************)
(* An empty queue holds no bytes, which is what clear() assigns.           *)
(***************************************************************************)
LEMMA BytesEmpty == Bytes(<<>>) = 0
BY BytesIsTotal, TotalEmpty

(***************************************************************************)
(* push_back adds the size of the new element to the bytes held.           *)
(***************************************************************************)
LEMMA BytesAppend ==
    ASSUME NEW s \in Seq(Items), NEW x \in Items
    PROVE  Bytes(Append(s, x)) = Bytes(s) + Size[x]
BY BytesIsTotal, TotalAppend

(***************************************************************************)
(* push_front adds the size of the new element to the bytes held.          *)
(***************************************************************************)
LEMMA BytesCons ==
    ASSUME NEW s \in Seq(Items), NEW x \in Items
    PROVE  Bytes(<<x>> \o s) = Bytes(s) + Size[x]
BY BytesIsTotal, TotalCons

(***************************************************************************)
(* pop_front takes the size of the first element from the bytes held.      *)
(***************************************************************************)
LEMMA BytesTail ==
    ASSUME NEW s \in Seq(Items), s # <<>>
    PROVE  Bytes(s) = Bytes(Tail(s)) + Size[Head(s)]
BY BytesIsTotal, TotalTail

(***************************************************************************)
(* pop_back takes the size of the last element from the bytes held.        *)
(***************************************************************************)
LEMMA BytesFront ==
    ASSUME NEW s \in Seq(Items), s # <<>>
    PROVE  /\ SubSeq(s, 1, Len(s) - 1) \in Seq(Items) /\ s[Len(s)] \in Items
           /\ Len(SubSeq(s, 1, Len(s) - 1)) = Len(s) - 1
           /\ Bytes(s) = Bytes(SubSeq(s, 1, Len(s) - 1)) + Size[s[Len(s)]]
BY BytesIsTotal, TotalFront

(***************************************************************************)
(* The remainder of a division is determined.                              *)
(***************************************************************************)
LEMMA RemainderUnique ==
    ASSUME NEW M \in Nat \ {0}, NEW q1 \in Int, NEW q2 \in Int,
           NEW r1 \in 0 .. M - 1, NEW r2 \in 0 .. M - 1,
           M * q1 + r1 = M * q2 + r2
    PROVE  r1 = r2
<1>1. ASSUME NEW a \in Int, NEW c \in Int, a < c PROVE M * a + M <= M * c
  <2>1. M * (c - a - 1) >= 0
    BY <1>1
  <2>2. M * c = M * a + M + M * (c - a - 1)
    OBVIOUS
  <2> QED BY <2>1, <2>2
<1>2. CASE q1 = q2
  BY <1>2
<1>3. CASE q1 < q2
  BY <1>1, <1>3
<1>4. CASE q2 < q1
  BY <1>1, <1>4
<1> QED BY <1>2, <1>3, <1>4

(***************************************************************************)
(* AddSize and SubSize compute modulo SizeMod.                             *)
(***************************************************************************)
LEMMA ModAdd ==
    ASSUME NEW n \in Nat, NEW b \in SizeT
    PROVE  /\ n % SizeMod \in SizeT
           /\ AddSize(n % SizeMod, b) = (n + b) % SizeMod
<1> USE QueueAssumption DEF SizeT
<1> DEFINE M == SizeMod
           q == n \div M
           r == n % M
           q2 == (n + b) \div M
           r2 == (n + b) % M
<1>1. M \in Nat \ {0} /\ b \in 0 .. M - 1
  OBVIOUS
<1>2. q \in Int /\ r \in 0 .. M - 1 /\ n = M * q + r
  OBVIOUS
<1>3. q2 \in Int /\ r2 \in 0 .. M - 1 /\ n + b = M * q2 + r2
  OBVIOUS
<1> HIDE DEF M, q, r, q2, r2
<1>4. CASE r + b < M
  <2>1. M * q + (r + b) = M * q2 + r2 /\ r + b \in 0 .. M - 1
    BY <1>1, <1>2, <1>3, <1>4
  <2>2. r + b = r2
    BY <1>1, <1>2, <1>3, <2>1, RemainderUnique
  <2> QED BY <1>2, <1>4, <2>2 DEF AddSize, M, r, r2
<1>5. CASE r + b >= M
  <2>1. M * (q + 1) + (r + b - M) = M * q2 + r2 /\ r + b - M \in 0 .. M - 1
    <3>1. M * (q + 1) = M * q + M
      BY <1>1, <1>2
    <3> QED BY <1>1, <1>2, <1>3, <1>5, <3>1
  <2>2. r + b - M = r2
    <3>1. q + 1 \in Int
      BY <1>2
    <3> QED BY <1>1, <1>3, <2>1, <3>1, RemainderUnique, Zenon
  <2>3. ~(r + b < M)
    BY <1>1, <1>2, <1>5
  <2> QED BY <1>2, <2>2, <2>3 DEF AddSize, M, r, r2
<1> QED BY <1>1, <1>2, <1>4, <1>5

(***************************************************************************)
(* SubSize, the size_t subtraction of removal_protocol, is subtraction     *)
(* modulo SizeMod.                                                         *)
(***************************************************************************)
LEMMA ModSub ==
    ASSUME NEW n \in Nat, NEW b \in SizeT
    PROVE  SubSize((n + b) % SizeMod, b) = n % SizeMod
<1> DEFINE r == n % SizeMod
<1>1. r \in SizeT /\ AddSize(r, b) = (n + b) % SizeMod
  BY ModAdd
<1> HIDE DEF r
<1>2. SubSize(AddSize(r, b), b) = r
  BY <1>1, QueueAssumption DEF SizeT, AddSize, SubSize
<1> QED BY <1>1, <1>2 DEF r

-----------------------------------------------------------------------------
(***************************************************************************)
(* The critical sections keep the data members typed and the byte counter  *)
(* exact.                                                                  *)
(***************************************************************************)
LEMMA PushData ==
    ASSUME DataTypeOK, BytesAccounted, NEW item \in Items,
           push_back(item) \/ push_front(item)
    PROVE  DataTypeOK' /\ BytesAccounted' /\ Len(dequeue') = Len(dequeue) + 1
<1>1. Size[item] \in SizeT
  BY QueueAssumption
<1>2. /\ dequeue' \in Seq(Items)
      /\ Bytes(dequeue') = Bytes(dequeue) + Size[item]
      /\ Len(dequeue') = Len(dequeue) + 1
  <2>1. CASE push_back(item)
    <3>1. dequeue' = Append(dequeue, item)
      BY <2>1 DEF push_back
    <3> QED BY <3>1, AppendProperties, BytesAppend DEF DataTypeOK
  <2>2. CASE push_front(item)
    <3>1. dequeue' = <<item>> \o dequeue
      BY <2>2 DEF push_front
    <3>2. <<item>> \in Seq(Items) /\ Len(<<item>>) = 1
      OBVIOUS
    <3>3. dequeue \in Seq(Items) /\ Len(dequeue) \in Nat
      BY LenProperties DEF DataTypeOK
    <3>4. dequeue' \in Seq(Items) /\ Len(dequeue') = 1 + Len(dequeue)
      BY <3>1, <3>2, <3>3, ConcatProperties
    <3> QED BY <3>1, <3>3, <3>4, BytesCons
  <2> QED BY <2>1, <2>2
<1>3. stopped' = stopped /\ unchecked_addition_protocol(item)
  BY DEF push_back, push_front
<1>4. Bytes(dequeue) \in Nat
  BY BytesType DEF DataTypeOK
<1>5. current_bytes' \in SizeT
  BY <1>1, <1>3, QueueAssumption DEF unchecked_addition_protocol, AddSize, SizeT, DataTypeOK
<1>6. ASSUME LimitsBytes PROVE current_bytes' = Bytes(dequeue') % SizeMod
  BY <1>1, <1>2, <1>3, <1>4, <1>6, ModAdd DEF unchecked_addition_protocol, BytesAccounted
<1> QED BY <1>2, <1>3, <1>5, <1>6 DEF DataTypeOK, BytesAccounted, LimitsBytes

(***************************************************************************)
(* pop_front and pop_back keep the types and the byte counter, and take    *)
(* one element.                                                            *)
(***************************************************************************)
LEMMA PopData ==
    ASSUME DataTypeOK, BytesAccounted, pop_front \/ pop_back
    PROVE  /\ DataTypeOK' /\ BytesAccounted'
           /\ Len(dequeue) \in Nat \ {0} /\ Len(dequeue') = Len(dequeue) - 1
<1>1. PICK item \in Items :
         /\ removal_protocol(item)
         /\ dequeue' \in Seq(Items)
         /\ Bytes(dequeue) = Bytes(dequeue') + Size[item]
         /\ Len(dequeue') = Len(dequeue) - 1
         /\ dequeue # <<>>
  <2>1. CASE pop_front
    <3>1. Head(dequeue) \in Items
      BY <2>1, HeadTailProperties DEF pop_front, DataTypeOK
    <3> QED BY <2>1, <3>1, HeadTailProperties, BytesTail DEF pop_front, DataTypeOK
  <2>2. CASE pop_back
    <3>1. /\ dequeue \in Seq(Items) /\ dequeue # <<>>
          /\ removal_protocol(dequeue[Len(dequeue)]) /\ dequeue' = SubSeq(dequeue, 1, Len(dequeue) - 1)
      BY <2>2 DEF pop_back, DataTypeOK
    <3>2. /\ SubSeq(dequeue, 1, Len(dequeue) - 1) \in Seq(Items) /\ dequeue[Len(dequeue)] \in Items
          /\ Len(SubSeq(dequeue, 1, Len(dequeue) - 1)) = Len(dequeue) - 1
          /\ Bytes(dequeue) = Bytes(SubSeq(dequeue, 1, Len(dequeue) - 1)) + Size[dequeue[Len(dequeue)]]
      BY <3>1, BytesFront
    <3> QED BY <3>1, <3>2
  <2> QED BY <2>1, <2>2
<1>2. Size[item] \in SizeT /\ stopped' = stopped
  BY QueueAssumption DEF pop_front, pop_back
<1>3. Bytes(dequeue') \in Nat
  BY <1>1, BytesType
<1>4. current_bytes' \in SizeT
  BY <1>1, <1>2, QueueAssumption DEF removal_protocol, SubSize, SizeT, DataTypeOK
<1>5. ASSUME LimitsBytes PROVE current_bytes' = Bytes(dequeue') % SizeMod
  BY <1>1, <1>2, <1>3, <1>5, ModSub DEF removal_protocol, BytesAccounted
<1>6. Len(dequeue) \in Nat \ {0}
  BY <1>1, EmptySeq DEF DataTypeOK
<1> QED BY <1>1, <1>2, <1>4, <1>5, <1>6 DEF DataTypeOK, BytesAccounted, LimitsBytes

(***************************************************************************)
(* replace() sets the byte counter to the bytes of the elements it keeps.  *)
(***************************************************************************)
LEMMA ReplaceData ==
    ASSUME DataTypeOK, NEW items \in Vectors, replace(items)
    PROVE  DataTypeOK' /\ BytesAccounted'
<1>1. items \in Seq(Items)
  BY QueueAssumption DEF Vectors
<1> DEFINE kept == IF LimitsSize /\ Len(items) > maximum_size
                   THEN SubSeq(items, 1, maximum_size) ELSE items
<1>2. kept \in Seq(Items)
  <2>1. \A i \in 1 .. Len(items) : items[i] \in Items
    BY <1>1, ElementOfSeq
  <2>2. ASSUME Len(items) > maximum_size PROVE SubSeq(items, 1, maximum_size) \in Seq(Items)
    BY <1>1, <2>1, <2>2, QueueAssumption, LenProperties, SubSeqProperties
  <2> QED BY <1>1, <2>2
<1>3. /\ dequeue' = kept
      /\ current_bytes' = IF EnableMaxBytes THEN Bytes(kept) % SizeMod ELSE 0
      /\ stopped' = stopped
  BY DEF replace
<1> HIDE DEF kept
<1>4. Bytes(kept) \in Nat
  BY <1>2, BytesType
<1>5. 0 \in SizeT /\ Bytes(kept) % SizeMod \in SizeT
  <2>1. 0 \in SizeT
    BY QueueAssumption DEF SizeT
  <2> QED BY <1>4, <2>1, ModAdd
<1> QED BY <1>2, <1>3, <1>5 DEF DataTypeOK, BytesAccounted, LimitsBytes

-----------------------------------------------------------------------------
(***************************************************************************)
(* Every step keeps the data typed and the counter exact, whatever the     *)
(* thread that takes it does with pc.                                      *)
(***************************************************************************)
LEMMA DataStep ==
    ASSUME DataTypeOK, BytesAccounted, [Next]_vars
    PROVE  DataTypeOK' /\ BytesAccounted'
<1>1. CASE UNCHANGED data
  BY <1>1 DEF data, DataTypeOK, BytesAccounted, LimitsBytes
<1>2. ASSUME pop_front PROVE DataTypeOK' /\ BytesAccounted'
  BY <1>2, PopData
<1>3. ASSUME NEW t \in Threads, TryPush(t) \/ Push(t) PROVE DataTypeOK' /\ BytesAccounted'
  <2>1. PICK item \in Items : push_back(item) \/ push_front(item)
    BY <1>3 DEF TryPush, Push, try_push_back, try_push_front
  <2> QED BY <2>1, PushData
<1>4. ASSUME NEW t \in Threads, Pop(t) PROVE DataTypeOK' /\ BytesAccounted'
  BY <1>4, PopData DEF Pop
<1>5. ASSUME NEW t \in Threads, Clear(t) PROVE DataTypeOK' /\ BytesAccounted'
  <2>1. dequeue' = <<>> /\ current_bytes' = 0 /\ stopped' = stopped
    BY <1>5 DEF Clear, clear
  <2>2. 0 \in SizeT /\ 0 % SizeMod = 0
    BY QueueAssumption DEF SizeT
  <2>3. <<>> \in Seq(Items)
    OBVIOUS
  <2> QED BY <2>1, <2>2, <2>3, BytesEmpty DEF DataTypeOK, BytesAccounted, LimitsBytes
<1>6. ASSUME NEW t \in Threads, Replace(t) PROVE DataTypeOK' /\ BytesAccounted'
  BY <1>6, ReplaceData DEF Replace
<1>7. ASSUME NEW t \in Threads, Stop(t) PROVE DataTypeOK' /\ BytesAccounted'
  BY <1>7 DEF Stop, stop, DataTypeOK, BytesAccounted, LimitsBytes
<1>8. ASSUME NEW t \in Threads, WaitAndPop(t) PROVE DataTypeOK' /\ BytesAccounted'
  BY <1>1, <1>2, <1>8 DEF WaitAndPop, FinishWait
<1>9. ASSUME NEW t \in Threads, NotifyOne(t) \/ NotifyAll(t) \/ SpuriousWakeup(t)
      PROVE UNCHANGED data
  BY <1>9 DEF NotifyOne, NotifyAll, SpuriousWakeup
<1> QED BY <1>1, <1>3, <1>4, <1>5, <1>6, <1>7, <1>8, <1>9 DEF Next, vars

(***************************************************************************)
(* Every step leaves each thread at a control point of one of the methods. *)
(***************************************************************************)
LEMMA PcStep ==
    ASSUME pc \in [Threads -> PCs], [Next]_vars
    PROVE  pc' \in [Threads -> PCs]
<1> USE DEF PCs, Goto
<1>1. CASE UNCHANGED vars
  BY <1>1 DEF vars
<1>2. ASSUME NEW t \in Threads,
             \/ TryPush(t) \/ Push(t) \/ Pop(t) \/ Clear(t) \/ Replace(t)
             \/ Stop(t) \/ WaitAndPop(t) \/ SpuriousWakeup(t)
      PROVE  pc' \in [Threads -> PCs]
  <2>1. \/ UNCHANGED pc
        \/ \E label \in PCs : pc' = [pc EXCEPT ![t] = label]
    BY <1>2 DEF TryPush, Push, Pop, Clear, Replace, Stop, WaitAndPop, SpuriousWakeup
  <2> QED BY <2>1
<1>3. ASSUME NEW t \in Threads, NotifyOne(t) PROVE pc' \in [Threads -> PCs]
  BY <1>3 DEF NotifyOne, Asleep
<1>4. ASSUME NEW t \in Threads, NotifyAll(t) PROVE pc' \in [Threads -> PCs]
  BY <1>4 DEF NotifyAll
<1> QED BY <1>1, <1>2, <1>3, <1>4 DEF Next

(***************************************************************************)
(* The constructed queue is empty, with a byte counter of zero.            *)
(***************************************************************************)
LEMMA InitData == Init => DataTypeOK /\ BytesAccounted /\ pc \in [Threads -> PCs]
<1> SUFFICES ASSUME Init PROVE DataTypeOK /\ BytesAccounted /\ pc \in [Threads -> PCs]
  OBVIOUS
<1>1. 0 \in SizeT /\ 0 % SizeMod = 0
  BY QueueAssumption DEF SizeT
<1>2. dequeue = <<>> /\ stopped = FALSE /\ current_bytes = 0
  BY DEF Init, DataInit
<1>3. <<>> \in Seq(Items)
  OBVIOUS
<1>4. DataTypeOK /\ BytesAccounted
  BY <1>1, <1>2, <1>3, BytesEmpty, Zenon DEF DataTypeOK, BytesAccounted
<1> QED BY <1>4 DEF Init, PCs

(***************************************************************************)
(* The members and the control state of every thread stay in their types,  *)
(* so current_bytes never leaves size_t.                                   *)
(***************************************************************************)
THEOREM TypeCorrect == Spec => []TypeOK
<1>1. Init => TypeOK /\ BytesAccounted
  BY InitData DEF TypeOK
<1>2. TypeOK /\ BytesAccounted /\ [Next]_vars => (TypeOK /\ BytesAccounted)'
  BY DataStep, PcStep DEF TypeOK
<1> QED BY <1>1, <1>2, PTL DEF Spec

(***************************************************************************)
(* The counter that the byte limit is checked against is the number of     *)
(* bytes in the queue, modulo the width of size_t, after any calls of any  *)
(* threads.                                                                *)
(***************************************************************************)
THEOREM CounterExact == Spec => []BytesAccounted
<1>1. Init => TypeOK /\ BytesAccounted
  BY InitData DEF TypeOK
<1>2. TypeOK /\ BytesAccounted /\ [Next]_vars => (TypeOK /\ BytesAccounted)'
  BY DataStep, PcStep DEF TypeOK
<1> QED BY <1>1, <1>2, PTL DEF Spec

-----------------------------------------------------------------------------
(***************************************************************************)
(* Within the byte limit the counter does not wrap: it is the number of    *)
(* bytes itself.                                                           *)
(***************************************************************************)
LEMMA CounterUnwrapped ==
    ASSUME DataTypeOK, BytesAccounted, LimitsBytes, Bytes(dequeue) <= maximum_bytes
    PROVE  current_bytes = Bytes(dequeue)
<1>1. Bytes(dequeue) \in Nat
  BY BytesType DEF DataTypeOK
<1>2. Bytes(dequeue) % SizeMod = Bytes(dequeue)
  BY <1>1, QueueAssumption DEF SizeT
<1> QED BY <1>2 DEF BytesAccounted

(***************************************************************************)
(* The methods a program uses are chosen once.                             *)
(***************************************************************************)
LEMMA CallsFixed ==
    ASSUME [Next]_vars PROVE calls' = calls
BY DEF Next, vars, TryPush, Push, NotifyOne, Pop, Clear, Replace, Stop, NotifyAll,
       WaitAndPop, SpuriousWakeup, Goto

(***************************************************************************)
(* With only the checked pushes, pre_addition_check_protocol keeps the     *)
(* queue within its limits on every step.                                  *)
(***************************************************************************)
LEMMA LimitsStep ==
    ASSUME TypeOK, BytesAccounted, WithinLimits, [Next]_vars
    PROVE  WithinLimits'
<1>0. calls' = calls
  BY CallsFixed
<1> SUFFICES ASSUME calls \subseteq CheckedCalls
             PROVE  /\ LimitsSize => Len(dequeue') <= maximum_size
                    /\ LimitsBytes => Bytes(dequeue') <= maximum_bytes
  BY <1>0 DEF WithinLimits, LimitsSize, LimitsBytes
<1> DEFINE Goal == /\ LimitsSize => Len(dequeue') <= maximum_size
                   /\ LimitsBytes => Bytes(dequeue') <= maximum_bytes
<1> USE DEF TypeOK
<1>1. /\ LimitsSize => Len(dequeue) <= maximum_size
      /\ LimitsBytes => Bytes(dequeue) <= maximum_bytes
  BY DEF WithinLimits
<1>2. CASE dequeue' = dequeue
  BY <1>1, <1>2
<1>3. ASSUME pop_front \/ pop_back PROVE Goal
  <2>1. /\ dequeue \in Seq(Items) /\ dequeue # <<>>
        /\ dequeue' = Tail(dequeue) \/ dequeue' = SubSeq(dequeue, 1, Len(dequeue) - 1)
    BY <1>3 DEF pop_front, pop_back, DataTypeOK
  <2>2. Len(dequeue) \in Nat /\ Len(dequeue') = Len(dequeue) - 1
    BY <1>3, PopData
  <2>3. PICK item \in Items : Bytes(dequeue) = Bytes(dequeue') + Size[item]
    <3>1. /\ Head(dequeue) \in Items
          /\ Bytes(dequeue) = Bytes(Tail(dequeue)) + Size[Head(dequeue)]
      BY <2>1, HeadTailProperties, BytesTail
    <3>2. /\ dequeue[Len(dequeue)] \in Items
          /\ Bytes(dequeue) = Bytes(SubSeq(dequeue, 1, Len(dequeue) - 1)) + Size[dequeue[Len(dequeue)]]
      BY <2>1, BytesFront
    <3> QED BY <2>1, <3>1, <3>2, Zenon
  <2>4. Size[item] \in Nat /\ Bytes(dequeue') \in Nat
    <3>1. dequeue' \in Seq(Items)
      BY <1>3, PopData DEF DataTypeOK
    <3> QED BY <3>1, BytesType, QueueAssumption DEF SizeT
  <2> QED BY <1>1, <2>2, <2>3, <2>4, QueueAssumption DEF SizeT
<1>4. ASSUME NEW t \in Threads, TryPush(t) \/ Push(t) PROVE Goal
  <2>1. PICK item \in Items : try_push_back(item) \/ try_push_front(item)
    BY <1>4 DEF TryPush, Push, Calling, CheckedCalls
  <2>2. /\ pre_addition_check_protocol(item)
        /\ push_back(item) \/ push_front(item)
    BY <2>1 DEF try_push_back, try_push_front
  <2>3. Len(dequeue') = Len(dequeue) + 1
    BY <2>2, PushData
  <2>4. dequeue \in Seq(Items) /\ Len(dequeue) \in Nat
    BY LenProperties DEF DataTypeOK
  <2>5. Bytes(dequeue') = Bytes(dequeue) + Size[item]
    <3>1. dequeue' = Append(dequeue, item) \/ dequeue' = <<item>> \o dequeue
      BY <2>2 DEF push_back, push_front
    <3> QED BY <2>4, <3>1, BytesAppend, BytesCons, ZenonT(30)
  <2>6. Bytes(dequeue) \in Nat /\ Size[item] \in Nat
    BY <2>4, BytesType, QueueAssumption DEF SizeT
  <2>7. LimitsSize => Len(dequeue') <= maximum_size
    BY <2>2, <2>3, <2>4, QueueAssumption DEF pre_addition_check_protocol
  <2>8. ASSUME LimitsBytes PROVE Bytes(dequeue') <= maximum_bytes
    <3>1. current_bytes = Bytes(dequeue)
      BY <1>1, <2>8, CounterUnwrapped
    <3> QED BY <2>2, <2>5, <2>6, <2>8, <3>1, QueueAssumption
            DEF pre_addition_check_protocol, SizeT
  <2> QED BY <2>7, <2>8
<1>5. ASSUME NEW t \in Threads, Pop(t) PROVE Goal
  BY <1>3, <1>5 DEF Pop
<1>6. ASSUME NEW t \in Threads, Clear(t) PROVE Goal
  BY <1>6, BytesEmpty, QueueAssumption DEF Clear, clear, SizeT
<1>7. ASSUME NEW t \in Threads, Replace(t) PROVE FALSE
  BY <1>7 DEF Replace, Calling, CheckedCalls
<1>8. ASSUME NEW t \in Threads, WaitAndPop(t) PROVE Goal
  <2>1. dequeue' = dequeue \/ pop_front
    BY <1>8 DEF WaitAndPop, FinishWait, data
  <2> QED BY <1>2, <1>3, <2>1
<1>9. ASSUME NEW t \in Threads, Stop(t) \/ NotifyOne(t) \/ NotifyAll(t) \/ SpuriousWakeup(t)
      PROVE  dequeue' = dequeue
  BY <1>9 DEF Stop, stop, NotifyOne, NotifyAll, SpuriousWakeup, data
<1> QED BY <1>2, <1>4, <1>5, <1>6, <1>7, <1>8, <1>9 DEF Next, vars, data

(***************************************************************************)
(* A queue used through its checked methods never holds more elements or   *)
(* bytes than its limits, whatever the interleaving of its callers.        *)
(***************************************************************************)
THEOREM LimitsRespected == Spec => []WithinLimits
<1> DEFINE Inv == TypeOK /\ BytesAccounted /\ WithinLimits
<1>1. Init => Inv
  <2> SUFFICES ASSUME Init PROVE Inv
    OBVIOUS
  <2>1. dequeue = <<>>
    BY DEF Init, DataInit
  <2>2. WithinLimits
    BY <2>1, BytesEmpty, QueueAssumption DEF WithinLimits, SizeT
  <2> QED BY <2>2, InitData DEF TypeOK
<1>2. Inv /\ [Next]_vars => Inv'
  BY DataStep, PcStep, LimitsStep DEF TypeOK
<1> QED BY <1>1, <1>2, PTL DEF Spec

-----------------------------------------------------------------------------
(***************************************************************************)
(* Every step keeps StopWakesSleepers: whoever sets `stopped` is still to  *)
(* call notify_all while a thread sleeps.                                  *)
(***************************************************************************)
LEMMA StopStep ==
    ASSUME TypeOK, StopWakesSleepers, [Next]_vars
    PROVE  StopWakesSleepers'
<1> USE DEF TypeOK, StopWakesSleepers, Asleep, NotifyingAll, PCs, Goto
<1>1. CASE UNCHANGED vars
  BY <1>1 DEF vars, data
<1>2. ASSUME NEW t \in Threads, TryPush(t) \/ Push(t) PROVE StopWakesSleepers'
  <2>1. stopped' = stopped /\ pc[t] = "idle" /\ pc' = [pc EXCEPT ![t] = "notify_one"]
    BY <1>2, Zenon DEF TryPush, Push, try_push_back, try_push_front, push_back, push_front, Calling
  <2> QED BY <2>1
<1>3. ASSUME NEW t \in Threads, Pop(t) \/ Clear(t) \/ Replace(t) PROVE StopWakesSleepers'
  <2>1. stopped' = stopped /\ pc' = pc
    BY <1>3 DEF Pop, Clear, Replace, pop_front, pop_back, clear, replace
  <2> QED BY <2>1
<1>4. ASSUME NEW t \in Threads, NotifyOne(t) PROVE StopWakesSleepers'
  BY <1>4 DEF NotifyOne, data
<1>5. ASSUME NEW t \in Threads, Stop(t) PROVE StopWakesSleepers'
  BY <1>5 DEF Stop, Calling
<1>6. ASSUME NEW t \in Threads, NotifyAll(t) PROVE StopWakesSleepers'
  BY <1>6 DEF NotifyAll
<1>7. ASSUME NEW t \in Threads, WaitAndPop(t) PROVE StopWakesSleepers'
  <2>1. stopped' = stopped /\ pc[t] \in {"idle", "woken"}
    BY <1>7 DEF WaitAndPop, FinishWait, pop_front, data, Calling
  <2>2. \/ pc' = [pc EXCEPT ![t] = "idle"]
        \/ ~stopped
    BY <1>7 DEF WaitAndPop, WaitPredicate
  <2> QED BY <2>1, <2>2
<1>8. ASSUME NEW t \in Threads, SpuriousWakeup(t) PROVE StopWakesSleepers'
  BY <1>8 DEF SpuriousWakeup, data
<1> QED BY <1>1, <1>2, <1>3, <1>4, <1>5, <1>6, <1>7, <1>8 DEF Next

(***************************************************************************)
(* stop() leaves no thread asleep without a notify_all on its way.         *)
(***************************************************************************)
THEOREM StopReachesEveryone == Spec => []StopWakesSleepers
<1> DEFINE Inv == TypeOK /\ BytesAccounted /\ StopWakesSleepers
<1>1. Init => Inv
  BY InitData DEF Init, DataInit, TypeOK, StopWakesSleepers
<1>2. Inv /\ [Next]_vars => Inv'
  BY DataStep, PcStep, StopStep DEF TypeOK
<1> QED BY <1>1, <1>2, PTL DEF Spec

-----------------------------------------------------------------------------
Helpers == NotifyingOne \cup Woken

(***************************************************************************)
(* The threads about to notify and the woken ones are finitely many, so    *)
(* they can be counted.                                                    *)
(***************************************************************************)
LEMMA HelpersFinite == IsFiniteSet(Helpers) /\ Cardinality(Helpers) \in Nat
<1>1. Helpers \in SUBSET Threads
  BY DEF Helpers, NotifyingOne, Woken
<1> QED BY <1>1, ThreadsAssumption, FS_Subset, FS_CardinalityType

(***************************************************************************)
(* A thread that moves from label to label joins or leaves the helpers.    *)
(***************************************************************************)
LEMMA HelpersMove ==
    ASSUME pc \in [Threads -> PCs], NEW t \in Threads, NEW label \in PCs,
           pc' = [pc EXCEPT ![t] = label]
    PROVE  Cardinality(Helpers') =
             IF t \in Helpers
             THEN IF label \in {"notify_one", "woken"}
                  THEN Cardinality(Helpers) ELSE Cardinality(Helpers) - 1
             ELSE IF label \in {"notify_one", "woken"}
                  THEN Cardinality(Helpers) + 1 ELSE Cardinality(Helpers)
<1>1. Helpers' = IF label \in {"notify_one", "woken"} THEN Helpers \cup {t} ELSE Helpers \ {t}
  BY DEF Helpers, NotifyingOne, Woken
<1> QED BY <1>1, HelpersFinite, FS_AddElement, FS_RemoveElement, ZenonT(30)

(***************************************************************************)
(* Every step keeps NoLostWakeup: a push brings a notifier, and a notifier *)
(* leaves a woken thread behind while any sleeps.                          *)
(***************************************************************************)
LEMMA WakeupStep ==
    ASSUME TypeOK, BytesAccounted, NoLostWakeup, [Next]_vars
    PROVE  NoLostWakeup'
<1>11. calls' = calls
  BY CallsFixed
<1> SUFFICES ASSUME "replace" \notin calls, Asleep' # {}
             PROVE  Len(dequeue') <= Cardinality(Helpers')
  BY <1>11 DEF NoLostWakeup, Helpers
<1> USE DEF TypeOK, Goto
<1>0. /\ Cardinality(Helpers) \in Nat
      /\ Len(dequeue) \in Nat
      /\ Asleep # {} => Len(dequeue) <= Cardinality(Helpers)
  BY HelpersFinite, LenProperties DEF NoLostWakeup, Helpers, DataTypeOK
<1> DEFINE Goal == Len(dequeue') <= Cardinality(Helpers')
<1>1. CASE UNCHANGED vars
  <2>1. Helpers' = Helpers /\ Asleep' = Asleep /\ dequeue' = dequeue
    BY <1>1 DEF vars, data, Helpers, NotifyingOne, Woken, Asleep
  <2> QED BY <1>0, <2>1
<1>2. ASSUME NEW t \in Threads, TryPush(t) \/ Push(t) PROVE Goal
  <2>1. pc[t] = "idle" /\ pc' = [pc EXCEPT ![t] = "notify_one"]
    BY <1>2 DEF TryPush, Push, Calling
  <2>2. PICK item \in Items : push_back(item) \/ push_front(item)
    BY <1>2 DEF TryPush, Push, try_push_back, try_push_front
  <2>3. Len(dequeue') = Len(dequeue) + 1
    BY <2>2, PushData
  <2>4. t \notin Helpers /\ Asleep # {}
    BY <2>1 DEF Helpers, NotifyingOne, Woken, Asleep, PCs
  <2>5. Cardinality(Helpers') = Cardinality(Helpers) + 1
    BY <2>1, <2>4, HelpersMove, Zenon DEF PCs
  <2> QED BY <1>0, <2>3, <2>4, <2>5
<1>3. ASSUME NEW t \in Threads, NotifyOne(t) PROVE Goal
  <2>1. pc[t] = "notify_one" /\ dequeue' = dequeue
    BY <1>3 DEF NotifyOne, data
  <2>2. PICK w \in Asleep : pc' = [pc EXCEPT ![t] = "idle", ![w] = "woken"]
    <3>1. ASSUME Asleep = {}, pc' = [pc EXCEPT ![t] = "idle"] PROVE FALSE
      BY <3>1 DEF Asleep, PCs
    <3> QED BY <1>3, <3>1 DEF NotifyOne
  <2>3. t \in Helpers /\ w \notin Helpers /\ w # t
    BY <2>1 DEF Helpers, NotifyingOne, Woken, Asleep
  <2>4. Helpers' = (Helpers \ {t}) \cup {w}
    BY <2>1, <2>2 DEF Helpers, NotifyingOne, Woken, Asleep, PCs
  <2>5. Cardinality(Helpers') = Cardinality(Helpers)
    <3>1. IsFiniteSet(Helpers \ {t}) /\ Cardinality(Helpers \ {t}) = Cardinality(Helpers) - 1
      BY <2>3, HelpersFinite, FS_RemoveElement
    <3>2. w \notin Helpers \ {t}
      BY <2>3
    <3>3. Cardinality((Helpers \ {t}) \cup {w}) = Cardinality(Helpers \ {t}) + 1
      BY <3>1, <3>2, FS_AddElement
    <3> QED BY <1>0, <2>4, <3>1, <3>3
  <2>6. Asleep # {}
    BY <2>2
  <2> QED BY <1>0, <2>1, <2>5, <2>6
<1>4. ASSUME NEW t \in Threads, Pop(t) PROVE Goal
  <2>1. Len(dequeue') = Len(dequeue) - 1 /\ pc' = pc
    BY <1>4, PopData DEF Pop
  <2>2. Helpers' = Helpers /\ Asleep' = Asleep
    BY <2>1 DEF Helpers, NotifyingOne, Woken, Asleep
  <2> QED BY <1>0, <2>1, <2>2
<1>5. ASSUME NEW t \in Threads, Clear(t) PROVE Goal
  <2>1. Len(dequeue') = 0 /\ pc' = pc
    BY <1>5 DEF Clear, clear
  <2>2. Helpers' = Helpers
    BY <2>1 DEF Helpers, NotifyingOne, Woken
  <2> QED BY <1>0, <2>1, <2>2
<1>6. ASSUME NEW t \in Threads, Stop(t) PROVE Goal
  <2>1. pc[t] = "idle" /\ pc' = [pc EXCEPT ![t] = "notify_all"] /\ dequeue' = dequeue
    BY <1>6 DEF Stop, stop, Calling
  <2>2. t \notin Helpers /\ Asleep # {}
    BY <2>1 DEF Helpers, NotifyingOne, Woken, Asleep, PCs
  <2>3. Cardinality(Helpers') = Cardinality(Helpers)
    BY <2>1, <2>2, HelpersMove, Zenon DEF PCs
  <2> QED BY <1>0, <2>1, <2>2, <2>3
<1>7. ASSUME NEW t \in Threads, NotifyAll(t) PROVE FALSE
  BY <1>7 DEF NotifyAll, Asleep, PCs
<1>8. ASSUME NEW t \in Threads, WaitAndPop(t) PROVE Goal
  <2>1. pc[t] \in {"idle", "woken"}
    BY <1>8 DEF WaitAndPop, Calling
  <2>2. CASE ~WaitPredicate
    <3>1. dequeue' = <<>> /\ pc' = [pc EXCEPT ![t] = "asleep"]
      BY <1>8, <2>2 DEF WaitAndPop, FinishWait, WaitPredicate, data
    <3>2. Cardinality(Helpers') \in Nat
      <4>1. Helpers' \in SUBSET Threads
        BY DEF Helpers, NotifyingOne, Woken
      <4> QED BY <4>1, ThreadsAssumption, FS_Subset, FS_CardinalityType
    <3> QED BY <3>1, <3>2
  <2>3. CASE WaitPredicate
    <3>1. FinishWait /\ pc' = [pc EXCEPT ![t] = "idle"]
      BY <1>8, <2>3 DEF WaitAndPop
    <3>2. Asleep # {}
      BY <2>1, <3>1 DEF Asleep, PCs
    <3>3. Cardinality(Helpers') \in {Cardinality(Helpers), Cardinality(Helpers) - 1}
      BY <3>1, HelpersMove, Zenon DEF PCs
    <3>4. CASE dequeue = <<>> /\ dequeue' = dequeue
      <4>1. Cardinality(Helpers') \in Nat
        <5>1. Helpers' \in SUBSET Threads
          BY DEF Helpers, NotifyingOne, Woken
        <5> QED BY <5>1, ThreadsAssumption, FS_Subset, FS_CardinalityType
      <4> QED BY <3>4, <4>1
    <3>5. CASE pop_front
      <4>1. Len(dequeue') = Len(dequeue) - 1
        BY <3>5, PopData
      <4> QED BY <1>0, <3>2, <3>3, <4>1
    <3> QED BY <3>1, <3>4, <3>5 DEF FinishWait, data
  <2> QED BY <2>2, <2>3
<1>9. ASSUME NEW t \in Threads, SpuriousWakeup(t) PROVE Goal
  <2>1. pc[t] = "asleep" /\ pc' = [pc EXCEPT ![t] = "woken"] /\ dequeue' = dequeue
    BY <1>9 DEF SpuriousWakeup, data
  <2>2. t \notin Helpers /\ Asleep # {}
    BY <2>1 DEF Helpers, NotifyingOne, Woken, Asleep
  <2>3. Cardinality(Helpers') = Cardinality(Helpers) + 1
    BY <2>1, <2>2, HelpersMove, ZenonT(30) DEF PCs
  <2> QED BY <1>0, <2>1, <2>2, <2>3
<1>10. ASSUME NEW t \in Threads, Replace(t) PROVE FALSE
  BY <1>10 DEF Replace, Calling
<1> QED BY <1>1, <1>2, <1>3, <1>4, <1>5, <1>6, <1>7, <1>8, <1>9, <1>10 DEF Next

(***************************************************************************)
(* No wakeup is lost in a program that does not call replace().            *)
(***************************************************************************)
THEOREM WakeupsSuffice == Spec => []NoLostWakeup
<1> DEFINE Inv == TypeOK /\ BytesAccounted /\ NoLostWakeup
<1>1. Init => Inv
  BY InitData DEF Init, TypeOK, NoLostWakeup, Asleep
<1>2. Inv /\ [Next]_vars => Inv'
  BY DataStep, PcStep, WakeupStep DEF TypeOK
<1> QED BY <1>1, <1>2, PTL DEF Spec

-----------------------------------------------------------------------------
(* ThreadSafeQueue takes only steps of QueueContract.  The contract's      *)
(* fairness is left to TLC.                                                *)

(***************************************************************************)
(* The critical sections are the same on both levels.                      *)
(***************************************************************************)
LEMMA SameData ==
    /\ \A item \in Items : push_back(item) => Contract!push_back(item)
    /\ \A item \in Items : push_front(item) => Contract!push_front(item)
    /\ pop_front => Contract!pop_front
    /\ pop_back => Contract!pop_back
    /\ clear => Contract!clear
    /\ stop => Contract!stop
    /\ WaitPredicate <=> Contract!WaitPredicate
    /\ FinishWait => Contract!FinishWait
    /\ data = Contract!data
<1> USE DEF LimitsBytes, Contract!LimitsBytes, AddSize, Contract!AddSize,
            SubSize, Contract!SubSize,
            unchecked_addition_protocol, Contract!unchecked_addition_protocol,
            removal_protocol, Contract!removal_protocol
<1>1. ASSUME NEW item \in Items PROVE push_back(item) => Contract!push_back(item)
  BY DEF push_back, Contract!push_back
<1>2. ASSUME NEW item \in Items PROVE push_front(item) => Contract!push_front(item)
  BY DEF push_front, Contract!push_front
<1>3. pop_front => Contract!pop_front
  BY DEF pop_front, Contract!pop_front
<1>4. pop_back => Contract!pop_back
  BY DEF pop_back, Contract!pop_back
<1>5. clear => Contract!clear
  BY DEF clear, Contract!clear
<1>6. stop => Contract!stop
  BY DEF stop, Contract!stop
<1>7. (WaitPredicate <=> Contract!WaitPredicate) /\ data = Contract!data
  BY DEF WaitPredicate, Contract!WaitPredicate, data, Contract!data
<1>8. FinishWait => Contract!FinishWait
  <2>1. CASE dequeue = <<>> /\ UNCHANGED data
    BY <1>7, <2>1 DEF FinishWait, Contract!FinishWait, data, Contract!data
  <2>2. CASE pop_front
    BY <1>3, <1>7, <2>2 DEF FinishWait, Contract!FinishWait
  <2> QED BY <2>1, <2>2 DEF FinishWait
<1> QED BY <1>1, <1>2, <1>3, <1>4, <1>5, <1>6, <1>7, <1>8

(***************************************************************************)
(* replace() on the queue is replace() on the contract.                    *)
(***************************************************************************)
LEMMA SameReplace ==
    ASSUME NEW items, replace(items) PROVE Contract!replace(items)
BY DEF replace, Contract!replace, LimitsSize, Contract!LimitsSize,
       Bytes, Contract!Bytes

(***************************************************************************)
(* Each step of a thread is a step of the contract or leaves it alone.     *)
(***************************************************************************)
LEMMA RefineStep ==
    ASSUME pc \in [Threads -> PCs], [Next]_vars
    PROVE  [Contract!Next]_(Contract!vars)
<1> DEFINE W == Asleep \cup Woken
           Goal == [Contract!Next]_(Contract!vars)
<1> USE DEF Goto
<1>1. ASSUME NEW t \in Threads, TryPush(t) \/ Push(t) PROVE Goal
  <2>1. \E item \in Items : Contract!push_back(item) \/ Contract!push_front(item)
    BY <1>1, SameData DEF TryPush, Push, try_push_back, try_push_front
  <2>2. pc[t] = "idle" /\ pc' = [pc EXCEPT ![t] = "notify_one"]
    BY <1>1 DEF TryPush, Push, Calling
  <2>3. W' = W
    BY <2>2 DEF Asleep, Woken, PCs
  <2> QED BY <2>1, <2>3 DEF Contract!Mutate, Contract!Next
<1>2. ASSUME NEW t \in Threads, NotifyOne(t) \/ NotifyAll(t) \/ SpuriousWakeup(t) PROVE Goal
  <2>1. Contract!data' = Contract!data
    BY <1>2, SameData DEF NotifyOne, NotifyAll, SpuriousWakeup, data, Contract!data
  <2>2. W' = W
    BY <1>2 DEF NotifyOne, NotifyAll, SpuriousWakeup, Asleep, Woken, PCs
  <2> QED BY <2>1, <2>2 DEF Contract!vars
<1>3. ASSUME NEW t \in Threads, Pop(t) \/ Clear(t) \/ Replace(t) PROVE Goal
  <2>1. \/ Contract!pop_front \/ Contract!pop_back \/ Contract!clear
        \/ \E items \in Contract!Vectors : Contract!replace(items)
    BY <1>3, SameData, SameReplace
       DEF Pop, Clear, Replace, Vectors, Contract!Vectors
  <2>2. W' = W
    BY <1>3 DEF Pop, Clear, Replace, Asleep, Woken
  <2> QED BY <2>1, <2>2 DEF Contract!Mutate, Contract!Next
<1>4. ASSUME NEW t \in Threads, Stop(t) PROVE Goal
  <2>1. Contract!stop
    BY <1>4, SameData DEF Stop
  <2>2. W' = W
    BY <1>4 DEF Stop, Calling, Asleep, Woken, PCs
  <2> QED BY <2>1, <2>2 DEF Contract!Mutate, Contract!Next
<1>5. ASSUME NEW t \in Threads, WaitAndPop(t) PROVE Goal
  <2>1. pc[t] \in {"idle", "woken"}
    BY <1>5 DEF WaitAndPop, Calling
  <2>2. CASE FinishWait /\ pc' = [pc EXCEPT ![t] = "idle"]
    <3>1. W' = W \ {t}
      BY <2>1, <2>2 DEF Asleep, Woken, PCs
    <3> QED BY <2>2, <3>1, SameData DEF Contract!Return, Contract!Next
  <2>3. CASE ~WaitPredicate /\ pc' = [pc EXCEPT ![t] = "asleep"] /\ UNCHANGED data
    <3>1. W' = W \cup {t}
      BY <2>1, <2>3 DEF Asleep, Woken, PCs
    <3>2. Contract!data' = Contract!data
      BY <2>3 DEF data, Contract!data
    <3>3. CASE t \in W
      BY <3>1, <3>2, <3>3 DEF Contract!vars
    <3>4. CASE t \notin W
      BY <2>3, <3>1, <3>2, <3>4, SameData DEF Contract!Block, Contract!Next
    <3> QED BY <3>3, <3>4
  <2> QED BY <1>5, <2>2, <2>3 DEF WaitAndPop
<1>6. CASE UNCHANGED vars
  BY <1>6 DEF vars, data, Contract!vars, Contract!data, Asleep, Woken
<1> QED BY <1>1, <1>2, <1>3, <1>4, <1>5, <1>6 DEF Next

(***************************************************************************)
(* Every behaviour of the queue is one the contract allows: blocking in    *)
(* wait_and_pop only while it is empty and not stopped, returning only     *)
(* with an element or from a stopped and empty queue.                      *)
(***************************************************************************)
THEOREM RefinesContract == Spec => Contract!Init /\ [][Contract!Next]_(Contract!vars)
<1>1. Init => Contract!Init
  BY DEF Init, DataInit, Contract!Init, Contract!DataInit, Asleep, Woken
<1>2. TypeOK /\ [Next]_vars => [Contract!Next]_(Contract!vars)
  BY RefineStep DEF TypeOK
<1> QED BY <1>1, <1>2, TypeCorrect, PTL DEF Spec
=============================================================================
