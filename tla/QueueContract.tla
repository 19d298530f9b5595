--------------------------- MODULE QueueContract ---------------------------
(***************************************************************************)
(* What thread_safe_queue promises the threads that block on it, with no   *)
(* condition variable in sight: the methods act on the data atomically, a  *)
(* thread blocks in wait_and_pop only while the queue is empty and not     *)
(* stopped, and it does not stay blocked while that is no longer so.       *)
(***************************************************************************)
EXTENDS QueueData

CONSTANT Threads

VARIABLE waiting     \* the threads blocked in wait_and_pop

vars == <<data, waiting>>

Init == DataInit /\ waiting = {}

Mutate ==
    /\ \/ \E item \in Items : push_back(item) \/ push_front(item)
       \/ pop_front \/ pop_back \/ clear \/ stop
       \/ \E items \in Vectors : replace(items)
    /\ UNCHANGED waiting

Block(t) ==
    /\ t \notin waiting
    /\ ~WaitPredicate
    /\ waiting' = waiting \cup {t}
    /\ UNCHANGED data

Return(t) == FinishWait /\ waiting' = waiting \ {t}

Next == Mutate \/ \E t \in Threads : Block(t) \/ Return(t)

Fairness == \A t \in Threads : WF_vars(t \in waiting /\ Return(t))

Spec == Init /\ [][Next]_vars /\ Fairness
=============================================================================
