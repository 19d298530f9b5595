---------------------------- MODULE RateLimiter ----------------------------
(***************************************************************************)
(* rate_limiter: lazily refilled token buckets, a background thread that   *)
(* drops the idle ones, and the destructor that ends that thread.          *)
(*                                                                         *)
(* consume() and cleanup() hold `mutex` throughout and read the clock      *)
(* under it, so each is one step.  Tokens, rates and times are integers in *)
(* small enough units; the rounding of double is left out.                 *)
(***************************************************************************)
EXTENDS Integers

CONSTANTS
    Identifiers,
    Costs,                          \* arguments of consume()
    max_tokens, refill_rate,
    IdleDurations,                  \* values of cleanup_after_idle_duration
    MaxTime                         \* bound of the model on the clock

ASSUME LimiterAssumption ==
    /\ Costs \subseteq Int
    /\ max_tokens \in Nat \ {0}
    /\ refill_rate \in Nat \ {0}
    /\ IdleDurations \subseteq Int
    /\ MaxTime \in Nat

VARIABLES
    requests,    \* identifier -> entry, a partial function
    now,         \* steady_clock
    loop,        \* where the cleanup thread is
    stop, dtor,  \* the flag, and how far the destructor has got
    cleanup_after_idle_duration,   \* const: the constructor takes any value
    granted, window   \* history: tokens granted to each identifier since `window`

buckets == <<requests, granted, window, cleanup_after_idle_duration>>
thread == <<loop, stop, dtor>>
vars == <<buckets, now, thread>>

Least(a, b) == IF a <= b THEN a ELSE b
Greatest(a, b) == IF a <= b THEN b ELSE a

Init ==
    /\ requests = [id \in {} |-> 0]
    /\ now = 0
    /\ loop = "checking" /\ stop = FALSE /\ dtor = "alive"
    /\ granted = [id \in Identifiers |-> 0]
    /\ window = 0
    /\ cleanup_after_idle_duration \in IdleDurations

-----------------------------------------------------------------------------
Tick ==
    /\ now < MaxTime
    /\ now' = now + 1
    /\ UNCHANGED <<buckets, thread>>

(***************************************************************************)
(* The tokens of a bucket once it has been refilled.                       *)
(***************************************************************************)
Refilled(bucket) ==
    Least(max_tokens, bucket.tokens + (now - bucket.last_refill) * refill_rate)

\* Fault: last_refill is not set again.
Store_KeepsTime(id, tokens) ==
    requests' = [i \in DOMAIN requests \cup {id} |->
                    IF i # id THEN requests[i]
                    ELSE [tokens |-> tokens,
                          last_refill |-> IF id \in DOMAIN requests
                                          THEN requests[id].last_refill ELSE now]]

Store(id, tokens) ==
    requests' = [i \in DOMAIN requests \cup {id} |->
                    IF i = id THEN [tokens |-> tokens, last_refill |-> now]
                    ELSE requests[i]]

consume(id, cost) ==
    /\ dtor = "alive"
    /\ 0 < cost /\ cost <= max_tokens
    /\ LET tokens == IF id \in DOMAIN requests THEN Refilled(requests[id]) ELSE max_tokens
       IN  IF tokens < cost
           THEN Store(id, tokens) /\ UNCHANGED granted
           ELSE /\ Store(id, tokens - cost)
                /\ granted' = [granted EXCEPT ![id] = @ + cost]
    /\ UNCHANGED <<now, window, cleanup_after_idle_duration, thread>>

(***************************************************************************)
(* History only: count the grants from now on.                             *)
(***************************************************************************)
OpenWindow ==
    /\ window' = now
    /\ granted' = [id \in Identifiers |-> 0]
    /\ UNCHANGED <<requests, now, cleanup_after_idle_duration, thread>>

\* Fault: a bucket is dropped however short it has been idle.
cleanup_AnyAge ==
    requests' = [id \in {i \in DOMAIN requests :
                            now - requests[i].last_refill < 1} |-> requests[id]]

cleanup ==
    requests' = [id \in {i \in DOMAIN requests :
                            now - requests[i].last_refill <= cleanup_after_idle_duration}
                     |-> requests[id]]

(***************************************************************************)
(* cleanup_loop().  The thread tests `stop` (in the while condition and in *)
(* the predicate of wait_for), then goes to sleep: the destructor does not *)
(* hold cleanup_mutex, and may set `stop` and notify in between.  A wakeup *)
(* before the timeout leads back to the test; a timeout tests `stop` once  *)
(* more and otherwise cleans up.                                           *)
(***************************************************************************)
Check ==
    /\ loop = "checking"
    /\ loop' = IF stop THEN "exited" ELSE "falling_asleep"
    /\ UNCHANGED <<buckets, now, stop, dtor>>

Sleep ==
    /\ loop = "falling_asleep"
    /\ loop' = "asleep"
    /\ UNCHANGED <<buckets, now, stop, dtor>>

SpuriousWakeup ==
    /\ loop = "asleep"
    /\ loop' = "checking"
    /\ UNCHANGED <<buckets, now, stop, dtor>>

\* Fault: wait in place of wait_for.
Timeout_Missing == FALSE /\ UNCHANGED vars

Timeout ==
    /\ loop = "asleep"
    /\ loop' = IF stop THEN "exited" ELSE "cleaning"
    /\ UNCHANGED <<buckets, now, stop, dtor>>

Clean ==
    /\ loop = "cleaning"
    /\ cleanup
    /\ loop' = "checking"
    /\ UNCHANGED <<now, stop, dtor, granted, window, cleanup_after_idle_duration>>

(***************************************************************************)
(* ~rate_limiter().                                                        *)
(***************************************************************************)
SetStop ==
    /\ dtor = "alive"
    /\ stop' = TRUE /\ dtor' = "stop_set"
    /\ UNCHANGED <<buckets, now, loop>>

Notify ==
    /\ dtor = "stop_set"
    /\ dtor' = "notified"
    /\ loop' = IF loop = "asleep" THEN "checking" ELSE loop
    /\ UNCHANGED <<buckets, now, stop>>

Join ==
    /\ dtor = "notified" /\ loop = "exited"
    /\ dtor' = "destroyed"
    /\ UNCHANGED <<buckets, now, loop, stop>>

CleanupThread == Check \/ Sleep \/ Timeout \/ Clean
Destructor == Notify \/ Join

Next ==
    \/ Tick
    \/ \E id \in Identifiers, cost \in Costs : consume(id, cost)
    \/ OpenWindow
    \/ CleanupThread \/ SpuriousWakeup
    \/ SetStop \/ Destructor

(***************************************************************************)
(* Both threads run on, and the one-minute timeout expires: wait_for fixes *)
(* its deadline once, so spurious wakeups do not put it off, and fairness  *)
(* of the timeout is strong.                                               *)
(***************************************************************************)
Fairness ==
    /\ WF_vars(Check) /\ WF_vars(Sleep) /\ WF_vars(Clean)
    /\ SF_vars(Timeout)
    /\ WF_vars(Destructor)

Spec == Init /\ [][Next]_vars /\ Fairness
-----------------------------------------------------------------------------
Entry == [tokens : 0 .. max_tokens, last_refill : Nat]

\* Types; a bucket holds between none and max_tokens tokens.
TypeOK ==
    /\ \A id \in DOMAIN requests : id \in Identifiers /\ requests[id] \in Entry
    /\ now \in Nat /\ window \in Nat
    /\ loop \in {"checking", "falling_asleep", "asleep", "cleaning", "exited"}
    /\ stop \in BOOLEAN
    /\ dtor \in {"alive", "stop_set", "notified", "destroyed"}
    /\ granted \in [Identifiers -> Nat]
    /\ cleanup_after_idle_duration \in Int

(***************************************************************************)
(* A bucket that is dropped would be full by now: the defaults of          *)
(* request_server_base satisfy this (120 s * 0.5 per s >= 50), and the     *)
(* constructor does not check it.                                          *)
(***************************************************************************)
CleanupRefills == cleanup_after_idle_duration * refill_rate >= max_tokens

(***************************************************************************)
(* What a client gains in cleanup_after_idle_duration at most: the refill, *)
(* or a full bucket if its own is dropped before it is full again.         *)
(***************************************************************************)
Gain == Greatest(cleanup_after_idle_duration * refill_rate, max_tokens)

(***************************************************************************)
(* In any stretch of time consume() admits no more than a full bucket and  *)
(* what can be gained meanwhile, whenever the idle buckets are dropped.    *)
(* With CleanupRefills that is a full bucket and refill_rate per unit of   *)
(* time; without it, a client that stays away for longer than              *)
(* cleanup_after_idle_duration is given up to max_tokens for each such     *)
(* time.  A duration that is not positive gives no bound.                  *)
(***************************************************************************)
AdmissionBounded ==
    cleanup_after_idle_duration > 0 =>
        \A id \in Identifiers :
            (granted[id] - max_tokens) * cleanup_after_idle_duration <= (now - window) * Gain

(***************************************************************************)
(* With CleanupRefills, the lazy refill in consume() and the dropping of   *)
(* idle buckets cannot be told from buckets that are refilled all the time *)
(* and never dropped.                                                      *)
(***************************************************************************)
Level(id) == IF id \in DOMAIN requests THEN Refilled(requests[id]) ELSE max_tokens

Ideal == INSTANCE TokenBucket WITH level <- [id \in Identifiers |-> Level(id)]

ImplementsTokenBucket == Ideal!Init /\ [][CleanupRefills => Ideal!Next]_(Ideal!vars)

(***************************************************************************)
(* The cleanup thread is gone when the destructor returns: nothing touches *)
(* the members of a destroyed limiter.                                     *)
(***************************************************************************)
NoThreadOutlives == dtor = "destroyed" => loop = "exited"

(***************************************************************************)
(* The destructor returns, though its notification may find the thread not *)
(* yet asleep and be lost: the timeout of wait_for makes up for it.        *)
(***************************************************************************)
DestructorReturns == dtor = "stop_set" ~> dtor = "destroyed"
=============================================================================
