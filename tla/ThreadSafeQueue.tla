-------------------------- MODULE ThreadSafeQueue --------------------------
(***************************************************************************)
(* thread_safe_queue used by several threads: the critical sections of     *)
(* QueueData, plus the condition variable `waiting`.  A method that        *)
(* notifies does so after it has released mutex_queue, so other threads    *)
(* run between its critical section and its notification.  wait_and_pop    *)
(* releases the mutex and falls asleep in one step, and evaluates its      *)
(* predicate again, under the mutex, each time it wakes up.                *)
(*                                                                         *)
(* A program around the queue uses a fixed set of its methods; Programs    *)
(* are the sets considered.                                                *)
(***************************************************************************)
EXTENDS QueueData, FiniteSets

CONSTANTS Threads, Programs

CheckedCalls == {"try_push_back", "try_push_front", "pop_front", "pop_back",
                 "clear", "wait_and_pop", "stop"}

AllCalls == CheckedCalls \cup {"push_back", "push_front", "replace"}

ASSUME ThreadsAssumption == IsFiniteSet(Threads) /\ Programs \subseteq SUBSET AllCalls

VARIABLES
    pc,      \* where each thread is in the call it has made
    calls    \* the methods the program uses

vars == <<data, pc, calls>>

(***************************************************************************)
(* Between two calls; about to notify; asleep on the condition variable;   *)
(* awake again inside wait_and_pop, waiting for the mutex.                 *)
(***************************************************************************)
PCs == {"idle", "notify_one", "notify_all", "asleep", "woken"}

Asleep == {t \in Threads : pc[t] = "asleep"}
NotifyingOne == {t \in Threads : pc[t] = "notify_one"}
NotifyingAll == {t \in Threads : pc[t] = "notify_all"}
Woken == {t \in Threads : pc[t] = "woken"}

Init == DataInit /\ pc = [t \in Threads |-> "idle"] /\ calls \in Programs

Calling(t, method) == pc[t] = "idle" /\ method \in calls

Goto(t, label) == pc' = [pc EXCEPT ![t] = label] /\ UNCHANGED calls

\* Fault: no notification.
TryPush_NoNotify(t) ==
    /\ \E item \in Items :
          \/ Calling(t, "try_push_back") /\ try_push_back(item)
          \/ Calling(t, "try_push_front") /\ try_push_front(item)
    /\ UNCHANGED <<pc, calls>>

TryPush(t) ==
    /\ \E item \in Items :
          \/ Calling(t, "try_push_back") /\ try_push_back(item)
          \/ Calling(t, "try_push_front") /\ try_push_front(item)
    /\ Goto(t, "notify_one")

Push(t) ==
    /\ \E item \in Items :
          \/ Calling(t, "push_back") /\ push_back(item)
          \/ Calling(t, "push_front") /\ push_front(item)
    /\ Goto(t, "notify_one")

NotifyOne(t) ==
    /\ pc[t] = "notify_one"
    /\ \/ \E w \in Asleep : pc' = [pc EXCEPT ![t] = "idle", ![w] = "woken"]
       \/ Asleep = {} /\ Goto(t, "idle")
    /\ UNCHANGED <<data, calls>>

Pop(t) ==
    /\ \/ Calling(t, "pop_front") /\ pop_front
       \/ Calling(t, "pop_back") /\ pop_back
    /\ UNCHANGED <<pc, calls>>

Clear(t) == Calling(t, "clear") /\ clear /\ UNCHANGED <<pc, calls>>

Replace(t) ==
    /\ Calling(t, "replace")
    /\ \E items \in Vectors : replace(items)
    /\ UNCHANGED <<pc, calls>>

Stop(t) == Calling(t, "stop") /\ stop /\ Goto(t, "notify_all")

NotifyAll(t) ==
    /\ pc[t] = "notify_all"
    /\ pc' = [u \in Threads |-> IF u = t THEN "idle"
                                ELSE IF pc[u] = "asleep" THEN "woken" ELSE pc[u]]
    /\ UNCHANGED <<data, calls>>

(***************************************************************************)
(* wait_and_pop, entered or resumed: one pass of the loop in               *)
(* condition_variable::wait.                                               *)
(***************************************************************************)
\* Fault: a woken thread does not test the predicate again.
WaitAndPop_NoRecheck(t) ==
    \/ /\ Calling(t, "wait_and_pop") \/ pc[t] = "woken"
       /\ FinishWait
       /\ Goto(t, "idle")
    \/ /\ Calling(t, "wait_and_pop")
       /\ ~WaitPredicate
       /\ Goto(t, "asleep")
       /\ UNCHANGED data
    \/ /\ pc[t] = "woken"
       /\ dequeue = <<>>
       /\ Goto(t, "idle")
       /\ UNCHANGED data

WaitAndPop(t) ==
    /\ Calling(t, "wait_and_pop") \/ pc[t] = "woken"
    /\ \/ FinishWait /\ Goto(t, "idle")
       \/ ~WaitPredicate /\ Goto(t, "asleep") /\ UNCHANGED data

(***************************************************************************)
(* A condition variable may wake a thread without a notification.          *)
(***************************************************************************)
SpuriousWakeup(t) == pc[t] = "asleep" /\ Goto(t, "woken") /\ UNCHANGED data

Next ==
    \E t \in Threads :
        \/ TryPush(t) \/ Push(t) \/ NotifyOne(t)
        \/ Pop(t) \/ Clear(t) \/ Replace(t)
        \/ Stop(t) \/ NotifyAll(t)
        \/ WaitAndPop(t) \/ SpuriousWakeup(t)

(***************************************************************************)
(* A thread that is inside a call and not asleep is scheduled and gets the *)
(* mutex eventually.  Nothing obliges a thread to make a call.             *)
(***************************************************************************)
Fairness ==
    \A t \in Threads :
        /\ WF_vars(NotifyOne(t) \/ NotifyAll(t))
        /\ WF_vars(pc[t] = "woken" /\ WaitAndPop(t))

Spec == Init /\ [][Next]_vars /\ Fairness
-----------------------------------------------------------------------------
\* Types of the members, current_bytes being a size_t, and of the threads' places.
TypeOK == DataTypeOK /\ pc \in [Threads -> PCs]

(***************************************************************************)
(* current_bytes is the number of bytes in the queue, as a size_t, after   *)
(* every sequence of calls: what removal_protocol subtracts is what an     *)
(* addition or a replace counted for the same element.                     *)
(***************************************************************************)
BytesAccounted == LimitsBytes => current_bytes = Bytes(dequeue) % SizeMod

(***************************************************************************)
(* A queue that is filled through the checked methods alone is never over  *)
(* its limits, in elements or in real (unwrapped) bytes.                   *)
(***************************************************************************)
WithinLimits ==
    calls \subseteq CheckedCalls =>
        /\ LimitsSize => Len(dequeue) <= maximum_size
        /\ LimitsBytes => Bytes(dequeue) <= maximum_bytes

(***************************************************************************)
(* No wakeup is lost: while a thread sleeps in wait_and_pop, every element *)
(* of the queue has a notification on its way or a thread that is already  *)
(* awake and will look for it.  notify_one after the unlock, elements      *)
(* taken by a thread that never slept and spurious wakeups all keep it so. *)
(* replace() does not, since it notifies nobody.                           *)
(***************************************************************************)
NoLostWakeup ==
    "replace" \notin calls /\ Asleep # {} =>
        Len(dequeue) <= Cardinality(NotifyingOne \cup Woken)

(***************************************************************************)
(* Once stopped is set, a thread that still sleeps is about to be woken by *)
(* the call of stop() that set it, also when other calls of stop() have    *)
(* returned early in the meantime.                                         *)
(***************************************************************************)
StopWakesSleepers == stopped /\ Asleep # {} => NotifyingAll # {}

(***************************************************************************)
(* "Waits until an element is available": a thread asleep in wait_and_pop  *)
(* does not sleep on while the queue holds an element.                     *)
(***************************************************************************)
AvailableElementWakes ==
    \A t \in Threads : (pc[t] = "asleep" /\ dequeue # <<>>) ~>
                       (pc[t] # "asleep" \/ dequeue = <<>>)

(***************************************************************************)
(* stop() releases every thread blocked in wait_and_pop: each of them      *)
(* returns, as the code has it with an element while there is one and with *)
(* nullopt after that.  The comment of wait_and_pop has it throw: that is  *)
(* StoppedQueueThrows.                                                     *)
(***************************************************************************)
StopReleasesWaiters ==
    \A t \in Threads : (stopped /\ pc[t] \in {"asleep", "woken"}) ~> pc[t] = "idle"

(***************************************************************************)
(* "@throws std::runtime_error If the queue is stopped": a thread that     *)
(* comes out of its wait in a stopped queue leaves wait_and_pop by the     *)
(* exception, and so takes no element with it.                             *)
(***************************************************************************)
StoppedQueueThrows ==
    [][\A t \in Threads :
          stopped /\ pc[t] = "woken" /\ pc'[t] = "idle" => UNCHANGED data]_vars
=============================================================================
