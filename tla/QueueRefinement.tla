-------------------------- MODULE QueueRefinement --------------------------
(***************************************************************************)
(* ThreadSafeQueue, condition variable and all, implements QueueContract:  *)
(* the blocked threads are those asleep or woken inside wait_and_pop.      *)
(***************************************************************************)
EXTENDS ThreadSafeQueue

Contract == INSTANCE QueueContract WITH waiting <- Asleep \cup Woken

(***************************************************************************)
(* The queue takes only the steps of QueueContract, and when nobody calls  *)
(* replace() it keeps the promise that a thread blocked in wait_and_pop    *)
(* returns once it can.                                                    *)
(***************************************************************************)
ImplementsContract ==
    /\ Contract!Init
    /\ [][Contract!Next]_(Contract!vars)
    /\ "replace" \notin calls => Contract!Fairness

=============================================================================
