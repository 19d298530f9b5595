--------------------------- MODULE ThreadSafeMap ---------------------------
(***************************************************************************)
(* thread_safe_unordered_map and locked_value used by several threads.  A  *)
(* method holds mutex_map for one step.  A locked_value holds it until it  *)
(* is destroyed, while its thread reads and writes the element through the *)
(* pointer; for_each holds it from one callback to the next.               *)
(*                                                                         *)
(* A thread makes no call while it has a locked_value or is in a callback: *)
(* it would wait for itself.                                               *)
(***************************************************************************)
EXTENDS MapData

CONSTANT Threads

VARIABLES
    mutex,      \* the threads that hold mutex_map
    pc,         \* where each thread is
    key,        \* the key a locked_value of each thread was got for
    seen,       \* the value each thread has read through the locked_value
    todo,       \* the elements its for_each has still to come to
    before      \* the map when mutex_map was taken, while it is held

local == <<key, seen, todo>>
mapVars == <<map, result, mutex, pc, local, before>>

MapInit ==
    /\ DataInit
    /\ mutex = {} /\ pc = [t \in Threads |-> "idle"]
    /\ key = [t \in Threads |-> Absent] /\ seen = [t \in Threads |-> Absent]
    /\ todo = [t \in Threads |-> {}]
    /\ before = Empty

Goto(t, label) == pc' = [pc EXCEPT ![t] = label]

Calling(t) == pc[t] = "idle" /\ mutex = {}

Call(t) == Calling(t) /\ Method /\ UNCHANGED <<mutex, pc, local, before>>

-----------------------------------------------------------------------------
(* locked_value. *)

Lock(t, label) == mutex' = {t} /\ before' = map /\ Goto(t, label)

Unlock(t) == mutex' = mutex \ {t} /\ before' = Empty /\ Goto(t, "idle")

\* Fault: the lock ends with the call.
get_locked_Unlocks(t) ==
    /\ Calling(t)
    /\ \E k \in Present(map) : key' = [key EXCEPT ![t] = k]
    /\ Goto(t, "locked") /\ before' = map
    /\ UNCHANGED <<map, result, mutex, seen, todo>>

\* For a key that is not there, the exception releases the lock again.
get_locked(t) ==
    /\ Calling(t)
    /\ \E k \in Keys :
          IF map[k] = Absent
          THEN get(k) /\ UNCHANGED <<mutex, pc, key, before>>
          ELSE /\ Lock(t, "locked")
               /\ key' = [key EXCEPT ![t] = k]
               /\ UNCHANGED <<map, result>>
    /\ UNCHANGED <<seen, todo>>

\* `inserted` is returned with the locked_value.
try_emplace_locked(t) ==
    /\ Calling(t)
    /\ \E k \in Keys, v \in Values :
          emplace(k, v) /\ key' = [key EXCEPT ![t] = k]
    /\ Lock(t, "locked")
    /\ UNCHANGED <<seen, todo>>

Read(t) ==
    /\ pc[t] = "locked"
    /\ seen' = [seen EXCEPT ![t] = map[key[t]]]
    /\ Goto(t, "read")
    /\ UNCHANGED <<map, result, mutex, key, todo, before>>

Write(t) ==
    /\ pc[t] = "read"
    /\ map' = [map EXCEPT ![key[t]] = Changed[seen[t]]]
    /\ Goto(t, "written")
    /\ UNCHANGED <<result, mutex, local, before>>

\* The unique_lock is destroyed with the locked_value, used or not.
Destroy(t) ==
    /\ pc[t] \in {"locked", "read", "written"}
    /\ Unlock(t)
    /\ key' = [key EXCEPT ![t] = Absent] /\ seen' = [seen EXCEPT ![t] = Absent]
    /\ Returns(pc[t] = "written", Nothing)
    /\ UNCHANGED <<map, todo>>

-----------------------------------------------------------------------------
(* for_each. *)

for_each(t) ==
    /\ Calling(t)
    /\ Lock(t, "each")
    /\ todo' = [todo EXCEPT ![t] = Present(map)]
    /\ UNCHANGED <<map, result, key, seen>>

\* Fault: an element is come to again.
Callback_Repeats(t) ==
    /\ pc[t] = "each"
    /\ \E k \in todo[t] : map' = [map EXCEPT ![k] = Changed[map[k]]]
    /\ UNCHANGED <<result, mutex, pc, local, before>>

Callback(t) ==
    /\ pc[t] = "each"
    /\ \E k \in todo[t] :
          /\ map' = [map EXCEPT ![k] = Changed[map[k]]]
          /\ todo' = [todo EXCEPT ![t] = @ \ {k}]
    /\ UNCHANGED <<result, mutex, pc, key, seen, before>>

\* After the last callback, or by an exception of one.
ForEachReturns(t) ==
    /\ pc[t] = "each"
    /\ Unlock(t)
    /\ todo' = [todo EXCEPT ![t] = {}]
    /\ \E ok \in BOOLEAN : (ok => todo[t] = {}) /\ Returns(ok, Nothing)
    /\ UNCHANGED <<map, key, seen>>

-----------------------------------------------------------------------------
Inside(t) == Read(t) \/ Write(t) \/ Destroy(t) \/ Callback(t) \/ ForEachReturns(t)

MapNext ==
    \E t \in Threads :
        Call(t) \/ get_locked(t) \/ try_emplace_locked(t) \/ for_each(t) \/ Inside(t)

\* A thread that has a locked_value, or is in for_each, goes on.  Nothing makes
\* it call a method, nor does std::mutex promise that it ever gets the lock.
MapFairness == \A t \in Threads : WF_mapVars(Inside(t))

MapSpec == MapInit /\ [][MapNext]_mapVars /\ MapFairness

Contract == INSTANCE MapContract WITH map <- IF mutex = {} THEN map ELSE before

-----------------------------------------------------------------------------
\* Types of the map and of what the threads hold.
MapTypeOK ==
    /\ map \in [Keys -> Slots] /\ before \in [Keys -> Slots]
    /\ mutex \in SUBSET Threads
    /\ pc \in [Threads -> {"idle", "locked", "read", "written", "each"}]
    /\ key \in [Threads -> Keys \cup {Absent}] /\ seen \in [Threads -> Slots]
    /\ todo \in [Threads -> SUBSET Keys]

(***************************************************************************)
(* The pointer of a locked_value is good as long as the locked_value: its  *)
(* element is in the map, and what its thread has read through it is still *)
(* the value when it writes, so that no update in between is lost.         *)
(***************************************************************************)
LockedValueStable ==
    \A t \in Threads :
        /\ pc[t] \in {"locked", "read", "written"} => map[key[t]] # Absent
        /\ pc[t] = "read" => map[key[t]] = seen[t]

(***************************************************************************)
(* The threads see a map on which every method, every use of a             *)
(* locked_value and every for_each takes effect at once, when the mutex is *)
(* released: no call returns anything of an update in progress.            *)
(***************************************************************************)
ImplementsContract == Contract!Spec

(***************************************************************************)
(* The mutex is released each time it has been taken: when a locked_value  *)
(* is destroyed, when for_each has come to every element, and by the       *)
(* exceptions of get_locked and of callbacks.                              *)
(***************************************************************************)
MutexReleased == []<>(mutex = {})
=============================================================================
