----------------------------- MODULE QueueData -----------------------------
(***************************************************************************)
(* The data members of thread_safe_queue<T, EnableMaxSize, EnableMaxBytes> *)
(* and the critical sections of its methods.  Every method locks           *)
(* mutex_queue around all of its accesses to these members, so what a      *)
(* method does under the lock is one atomic step.  What it does outside    *)
(* the lock (notifying the condition variable) and sleeping on the         *)
(* condition variable belong to the modules that extend this one.          *)
(*                                                                         *)
(* An element is a member of Items; queue_size_traits<T>::get is the       *)
(* function Size.  size_t has SizeMod values and wraps.                    *)
(***************************************************************************)
EXTENDS Integers, Sequences

CONSTANTS
    Items,           \* the element type T
    Size,            \* queue_size_traits<T>::get
    SizeMod,         \* number of values of size_t
    EnableMaxSize,   \* template parameters
    EnableMaxBytes,
    maximum_size,    \* constructor arguments, 0 for unlimited
    maximum_bytes,
    LengthBound      \* bound of the model on the length of dequeue

SizeT == 0 .. SizeMod - 1

ASSUME QueueAssumption ==
    /\ SizeMod \in Nat \ {0}
    /\ Size \in [Items -> SizeT]
    /\ EnableMaxSize \in BOOLEAN
    /\ EnableMaxBytes \in BOOLEAN
    /\ maximum_size \in Nat
    /\ maximum_bytes \in SizeT
    /\ LengthBound \in Nat

VARIABLES dequeue, stopped, current_bytes

data == <<dequeue, stopped, current_bytes>>

DataInit == dequeue = <<>> /\ stopped = FALSE /\ current_bytes = 0

LimitsSize == EnableMaxSize /\ maximum_size # 0
LimitsBytes == EnableMaxBytes /\ maximum_bytes # 0

(***************************************************************************)
(* size_t addition and subtraction.                                        *)
(***************************************************************************)
AddSize(a, b) == IF a + b < SizeMod THEN a + b ELSE a + b - SizeMod

SubSize(a, b) == IF a >= b THEN a - b ELSE a - b + SizeMod

(***************************************************************************)
(* The number of bytes in a sequence of elements, as an integer.           *)
(***************************************************************************)
Bytes(s) ==
    LET upTo[n \in 0 .. Len(s)] ==
            IF n = 0 THEN 0 ELSE upTo[n - 1] + Size[s[n]]
    IN  upTo[Len(s)]

(***************************************************************************)
(* The three protocols every mutator goes through.                         *)
(* pre_addition_check_protocol is split into its verdict and its update of *)
(* current_bytes; the latter is unchecked_addition_protocol.               *)
(***************************************************************************)
\* Fault: > for >= in the test of the size.
pre_addition_check_protocol_OffByOne(item) ==
    /\ ~stopped
    /\ LimitsSize => Len(dequeue) <= maximum_size
    /\ LimitsBytes => /\ current_bytes <= maximum_bytes
                      /\ Size[item] <= maximum_bytes - current_bytes

pre_addition_check_protocol(item) ==
    /\ ~stopped
    /\ LimitsSize => Len(dequeue) < maximum_size
    /\ LimitsBytes => /\ current_bytes <= maximum_bytes
                      /\ Size[item] <= maximum_bytes - current_bytes

unchecked_addition_protocol(item) ==
    current_bytes' = IF LimitsBytes THEN AddSize(current_bytes, Size[item])
                                    ELSE current_bytes

\* Fault: the counter is not lowered.
removal_protocol_Forgotten(item) == UNCHANGED current_bytes

removal_protocol(item) ==
    current_bytes' = IF LimitsBytes THEN SubSize(current_bytes, Size[item])
                                    ELSE current_bytes

-----------------------------------------------------------------------------
(***************************************************************************)
(* The critical sections.  A call that fails its check or throws on an     *)
(* empty queue leaves the members alone, and is not a step.                *)
(***************************************************************************)
push_back(item) ==
    /\ Len(dequeue) < LengthBound
    /\ dequeue' = Append(dequeue, item)
    /\ unchecked_addition_protocol(item)
    /\ UNCHANGED stopped

push_front(item) ==
    /\ Len(dequeue) < LengthBound
    /\ dequeue' = <<item>> \o dequeue
    /\ unchecked_addition_protocol(item)
    /\ UNCHANGED stopped

try_push_back(item) == pre_addition_check_protocol(item) /\ push_back(item)

try_push_front(item) == pre_addition_check_protocol(item) /\ push_front(item)

pop_front ==
    /\ dequeue # <<>>
    /\ removal_protocol(Head(dequeue))
    /\ dequeue' = Tail(dequeue)
    /\ UNCHANGED stopped

pop_back ==
    /\ dequeue # <<>>
    /\ removal_protocol(dequeue[Len(dequeue)])
    /\ dequeue' = SubSeq(dequeue, 1, Len(dequeue) - 1)
    /\ UNCHANGED stopped

clear == dequeue' = <<>> /\ current_bytes' = 0 /\ UNCHANGED stopped

\* The vectors that replace is given, up to the bound of the model.
Vectors == UNION {[1 .. n -> Items] : n \in 0 .. LengthBound}

(***************************************************************************)
(* replace keeps the first maximum_size items.  It counts their bytes      *)
(* whenever EnableMaxBytes holds, with or without a byte limit, and checks *)
(* no limit on them.                                                       *)
(***************************************************************************)
replace(items) ==
    LET kept == IF LimitsSize /\ Len(items) > maximum_size
                THEN SubSeq(items, 1, maximum_size) ELSE items
    IN  /\ dequeue' = kept
        /\ current_bytes' = IF EnableMaxBytes THEN Bytes(kept) % SizeMod ELSE 0
        /\ UNCHANGED stopped

stop == ~stopped /\ stopped' = TRUE /\ UNCHANGED <<dequeue, current_bytes>>

(***************************************************************************)
(* The predicate wait_and_pop waits for, and what the call does once it    *)
(* holds: return nullopt from an empty (hence stopped) queue, or pop.  No  *)
(* call throws, although the comment of wait_and_pop says so.              *)
(***************************************************************************)
\* Fault: the predicate does not test `stopped`.
WaitPredicate_IgnoresStop == dequeue # <<>>

WaitPredicate == stopped \/ dequeue # <<>>

FinishWait ==
    /\ WaitPredicate
    /\ \/ dequeue = <<>> /\ UNCHANGED data
       \/ pop_front
-----------------------------------------------------------------------------
DataTypeOK ==
    /\ dequeue \in Seq(Items)
    /\ stopped \in BOOLEAN
    /\ current_bytes \in SizeT
=============================================================================
