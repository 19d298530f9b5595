------------------------- MODULE MCHttpConnection -------------------------
(* Instances of HttpConnection for TLC. *)
EXTENDS HttpConnection

CONSTANTS c1, c2

OneConnection == {c1}
TwoConnections == {c1, c2}
=============================================================================
