---------------------------- MODULE MCNameboard ----------------------------
(* Three names for two places. *)
EXTENDS Nameboard

CONSTANTS a, b, c

ThreeNames == {a, b, c}
TwoTimes == {0, 1}
TwoPlaces == {2}
=============================================================================
