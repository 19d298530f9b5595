------------------------- MODULE MCThreadSafeQueue -------------------------
(* Instances of ThreadSafeQueue for TLC: two elements, one small, one large. *)
EXTENDS QueueRefinement

CONSTANTS small, large, t1, t2, t3, t4

MCItems == {small, large}
MCSize == [i \in MCItems |-> IF i = small THEN 1 ELSE 3]
ThreeThreads == {t1, t2, t3}
FourThreads == {t1, t2, t3, t4}

\* Every method, or only those that keep the limits.
AnyProgram == {AllCalls, CheckedCalls}
EveryCall == {AllCalls}
OnlyChecked == {CheckedCalls}
=============================================================================
