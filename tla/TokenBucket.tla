---------------------------- MODULE TokenBucket ----------------------------
(***************************************************************************)
(* What rate_limiter promises: each identifier has a bucket that starts    *)
(* full, gains refill_rate tokens per unit of time up to max_tokens, and   *)
(* from which a request takes its cost if that much is there.              *)
(***************************************************************************)
EXTENDS Integers

CONSTANTS Identifiers, Costs, max_tokens, refill_rate

VARIABLES
    level,      \* tokens in each bucket
    granted     \* tokens taken from each bucket since some moment

vars == <<level, granted>>

Least(a, b) == IF a <= b THEN a ELSE b

Init ==
    /\ level = [id \in Identifiers |-> max_tokens]
    /\ granted = [id \in Identifiers |-> 0]

Refill ==
    /\ level' = [id \in Identifiers |-> Least(max_tokens, level[id] + refill_rate)]
    /\ UNCHANGED granted

Grant(id, cost) ==
    /\ 0 < cost /\ cost <= level[id]
    /\ level' = [level EXCEPT ![id] = @ - cost]
    /\ granted' = [granted EXCEPT ![id] = @ + cost]

StartCounting == granted' = [id \in Identifiers |-> 0] /\ UNCHANGED level

Next ==
    \/ Refill
    \/ \E id \in Identifiers, cost \in Costs : Grant(id, cost)
    \/ StartCounting

Spec == Init /\ [][Next]_vars
=============================================================================
