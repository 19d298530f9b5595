------------------------ MODULE MCPersistentServer ------------------------
(***************************************************************************)
(* Two clients, one of which sends packets that the queue never has room   *)
(* for, and two threads that stop the server.                              *)
(***************************************************************************)
EXTENDS PersistentServer, TLC

CONSTANTS s1, s2, t1, t2

TwoSessions == {s1, s2}
TwoCallers == {t1, t2}
SmallAndLarge == s1 :> 1 @@ s2 :> 4
=============================================================================
