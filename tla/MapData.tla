------------------------------ MODULE MapData ------------------------------
(***************************************************************************)
(* The methods of thread_safe_unordered_map that are one critical section: *)
(* what each does to the map while it holds mutex_map, and what it returns *)
(* to the thread that called it.                                           *)
(***************************************************************************)
CONSTANTS
    Keys, Values,
    Absent,     \* stands for no value
    Changed     \* what the application makes of a value it can modify

ASSUME MapAssumption == Absent \notin Values /\ Changed \in [Values -> Values]

VARIABLES
    map,        \* the value of each key, or Absent
    result      \* what the last call returned

Slots == Values \cup {Absent}
Empty == [k \in Keys |-> Absent]
Present(m) == {k \in Keys : m[k] # Absent}

\* A result is a success flag, FALSE also for an exception, and values read.
Nothing == [k \in {} |-> Absent]
At(k) == [x \in {k} |-> map[k]]

DataInit == map = Empty /\ result = [ok |-> TRUE, values |-> Nothing]

Returns(ok, values) == result' = [ok |-> ok, values |-> values]

insert(k, v) == map' = [map EXCEPT ![k] = v] /\ Returns(TRUE, Nothing)

\* The map after try_emplace.
Emplaced(m, k, v) == IF m[k] = Absent THEN [m EXCEPT ![k] = v] ELSE m

emplace(k, v) == map' = Emplaced(map, k, v) /\ Returns(map[k] = Absent, Nothing)

\* An exception for a key that is not there.
get(k) == UNCHANGED map /\ Returns(map[k] # Absent, At(k))

try_get(k) == get(k)

contains(k) == UNCHANGED map /\ Returns(map[k] # Absent, Nothing)

erase(k) == map' = [map EXCEPT ![k] = Absent] /\ Returns(map[k] # Absent, Nothing)

extract(k) == map' = [map EXCEPT ![k] = Absent] /\ Returns(map[k] # Absent, At(k))

clear == map' = Empty /\ Returns(TRUE, Nothing)

\* size() counts what snapshot() copies.
empty == UNCHANGED map /\ Returns(map = Empty, Nothing)

snapshot == UNCHANGED map /\ Returns(map # Empty, map)

Method ==
    \/ \E k \in Keys, v \in Values : insert(k, v) \/ emplace(k, v)
    \/ \E k \in Keys :
          get(k) \/ try_get(k) \/ contains(k) \/ erase(k) \/ extract(k)
    \/ clear \/ empty \/ snapshot
=============================================================================
