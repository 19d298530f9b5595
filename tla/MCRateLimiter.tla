--------------------------- MODULE MCRateLimiter ---------------------------
(***************************************************************************)
(* Two clients of a limiter.  The costs include one that is not positive   *)
(* and one that no bucket can pay, which consume() refuses outright.  A    *)
(* bucket is full again after the longer duration, and not after the       *)
(* shorter one.                                                            *)
(***************************************************************************)
EXTENDS RateLimiter

CONSTANTS a, b

TwoClients == {a, b}
SomeCosts == 0 .. 4
SomeDurations == {1, 3}
=============================================================================
