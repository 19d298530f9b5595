---------------------------- MODULE MapContract ----------------------------
(***************************************************************************)
(* What thread_safe_unordered_map promises: every method takes effect at   *)
(* once, and so does all that a thread does between getting a locked_value *)
(* and destroying it, or in the callbacks of one for_each.                 *)
(***************************************************************************)
EXTENDS MapData

vars == <<map, result>>

Init == DataInit

\* get_locked or try_emplace_locked, the element changed at most once, and the
\* locked_value destroyed.
Use ==
    \E k \in Keys, v \in Values, wrote \in BOOLEAN :
        LET m == Emplaced(map, k, v)
        IN  /\ map' = IF wrote THEN [m EXCEPT ![k] = Changed[m[k]]] ELSE m
            /\ Returns(wrote, Nothing)

\* try_emplace_locked tells whether it inserts before what is done with the
\* locked_value takes effect.
Inserted == \E k \in Keys : UNCHANGED map /\ Returns(map[k] = Absent, Nothing)

\* A for_each that is not ended by an exception comes to every element.
ForEach ==
    \E done \in SUBSET Present(map), ok \in BOOLEAN :
        /\ ok => done = Present(map)
        /\ map' = [k \in Keys |-> IF k \in done THEN Changed[map[k]] ELSE map[k]]
        /\ Returns(ok, Nothing)

Next == Method \/ Inserted \/ Use \/ ForEach

Spec == Init /\ [][Next]_vars
=============================================================================
