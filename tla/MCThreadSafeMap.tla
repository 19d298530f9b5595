-------------------------- MODULE MCThreadSafeMap --------------------------
(* Three threads count in the elements of a map with two keys. *)
EXTENDS ThreadSafeMap, Integers

CONSTANTS t1, t2, t3, k1, k2

ThreeThreads == {t1, t2, t3}
TwoKeys == {k1, k2}
Counts == 0 .. 2
Increment == [v \in Counts |-> (v + 1) % 3]
=============================================================================
