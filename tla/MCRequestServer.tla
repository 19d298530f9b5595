-------------------------- MODULE MCRequestServer --------------------------
(***************************************************************************)
(* Two clients and two workers.  The bodies one client sends are empty, so *)
(* only the number of pending requests limits them; of the other client's, *)
(* one at a time fits.  The assumptions of HttpConnection and QueueData    *)
(* hold of the constants used here.                                        *)
(***************************************************************************)
EXTENDS RequestServer, TLC

CONSTANTS c1, c2, w1, w2

TwoConnections == {c1, c2}
TwoWorkers == {w1, w2}
EmptyAndLarge == c1 :> {0} @@ c2 :> {2}
=============================================================================
