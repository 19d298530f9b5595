-------------------------- MODULE PersistentServer --------------------------
(***************************************************************************)
(* persistent_server_base with server_base below it: launch(), the context *)
(* thread that accepts clients and runs the handlers of their sessions,    *)
(* the update thread, and try_stop() called by several threads.            *)
(*                                                                         *)
(* The sessions are those of WebSocketSession and the incoming packets go  *)
(* through QueueData.  The application is broadcast_server: its update()   *)
(* takes the packets one by one and broadcasts each.  The n-th packet of a *)
(* session is that session and n.  The application launches the server at  *)
(* most once, before any call of try_stop(), and calls try_stop() on       *)
(* threads of its own.                                                     *)
(***************************************************************************)
EXTENDS Integers, Sequences, FiniteSets

CONSTANTS
    Sessions,
    Callers,          \* threads of the application that call try_stop()
    PayloadSize,      \* the size of the packets each client sends
    MaxMessages, MaxPackets,                     \* bounds of WebSocketSession
    max_incoming_packets, max_incoming_bytes,    \* 0 for unlimited
    SizeMod           \* number of values of size_t

ASSUME PersistentAssumption ==
    /\ SizeMod \in Nat \ {0}
    /\ PayloadSize \in [Sessions -> 0 .. SizeMod - 1]
    /\ MaxMessages \in Nat /\ MaxPackets \in Nat
    /\ max_incoming_packets \in Nat
    /\ max_incoming_bytes \in 0 .. SizeMod - 1

VARIABLES
    session, closing,                  \* the sessions
    dequeue, stopped, current_bytes,   \* incoming_packets_queue
    active_sessions,
    context,          \* the context thread: "none", "running" or "exited"
    context_stopped,  \* asio_context.stopped()
    update_loop,      \* where the update thread is, and the sessions that
                      \* the broadcast it is making has still to come to
    stopping,
    caller            \* how far each caller of try_stop() has got

queue == <<dequeue, stopped, current_bytes>>
sessions == <<session, closing>>
control == <<context, context_stopped, stopping, caller>>
vars == <<sessions, queue, active_sessions, update_loop, control>>

S == INSTANCE WebSocketSession

incoming_packet == [session : Sessions, number : 1 .. MaxPackets]

Q == INSTANCE QueueData WITH
        Items <- incoming_packet,
        Size <- [packet \in incoming_packet |-> PayloadSize[packet.session]],
        EnableMaxSize <- TRUE, EnableMaxBytes <- TRUE,
        maximum_size <- max_incoming_packets, maximum_bytes <- max_incoming_bytes,
        LengthBound <- MaxPackets * Cardinality(Sessions)

Elements(seq) == {seq[i] : i \in DOMAIN seq}

At(pc) == [pc |-> pc, todo |-> {}]

Init ==
    /\ S!Init /\ Q!DataInit
    /\ active_sessions = {}
    /\ context = "none" /\ context_stopped = FALSE
    /\ update_loop = At("none")
    /\ stopping = FALSE /\ caller = [c \in Callers |-> "idle"]

\* launch(): a fixed_delta_time that is not positive means no update thread.
launch ==
    /\ context = "none" /\ ~stopping
    /\ context' = "running"
    /\ update_loop' \in {At("none"), At("check")}
    /\ UNCHANGED <<sessions, queue, active_sessions, context_stopped, stopping, caller>>

-----------------------------------------------------------------------------
(* The context thread. *)

is_running == ~context_stopped

ContextRuns == context = "running" /\ is_running

(***************************************************************************)
(* The accept handler: the session becomes active and starts its           *)
(* handshake.  Nothing orders the insertion and a broadcast that iterates  *)
(* over the set on the update thread: the list it walks may be relinked    *)
(* under it, so that it misses sessions or comes to some again.            *)
(***************************************************************************)
setup_client_connection(s) ==
    /\ S!start(s)
    /\ active_sessions' = active_sessions \cup {s}
    /\ IF update_loop.pc = "broadcast"
       THEN \E rest \in SUBSET active_sessions' :
               update_loop' = [update_loop EXCEPT !.todo = rest]
       ELSE UNCHANGED update_loop

\* A failed accept, like a successful one, is followed by the next.
start_accept_async(s) ==
    /\ ContextRuns
    /\ setup_client_connection(s)
    /\ UNCHANGED <<queue, control>>

Handler(s) ==
    /\ ContextRuns
    /\ \/ S!Accepted(s) \/ S!AcceptError(s) \/ S!RunPosted(s)
       \/ S!Written(s) \/ S!WriteError(s) \/ S!ReadError(s)
    /\ UNCHANGED <<queue, active_sessions, update_loop, control>>

\* Fault: a packet is taken although the queue is full.
push_incoming_packet_Unchecked(s) ==
    /\ ContextRuns
    /\ S!PacketAccepted(s)
    /\ Q!push_back([session |-> s, number |-> session[s].packets + 1])
    /\ UNCHANGED <<active_sessions, update_loop, control>>

push_incoming_packet(s) ==
    /\ ContextRuns
    /\ LET packet == [session |-> s, number |-> session[s].packets + 1]
       IN  \/ S!PacketAccepted(s) /\ Q!try_push_back(packet)
           \/ /\ S!PacketRejected(s)
              /\ ~Q!pre_addition_check_protocol(packet)
              /\ UNCHANGED queue
    /\ UNCHANGED <<active_sessions, update_loop, control>>

\* A handler that blocks in close() is not interrupted by asio_context.stop().
CloseReturns(s) ==
    /\ context = "running"
    /\ S!CloseReturns(s)
    /\ UNCHANGED <<queue, active_sessions, update_loop, control>>

\* run() returns once the context is stopped and no handler is running.
ContextExits ==
    /\ context = "running" /\ context_stopped /\ closing = {}
    /\ context' = "exited"
    /\ UNCHANGED <<sessions, queue, active_sessions, update_loop,
                   context_stopped, stopping, caller>>

-----------------------------------------------------------------------------
(* The update thread. *)

Goes(pc) == update_loop' = At(pc)

\* Fault: the loop is not left.
CheckRunning_Forever ==
    /\ update_loop.pc = "check"
    /\ Goes("update")
    /\ UNCHANGED <<sessions, queue, active_sessions, control>>

\* The test of the loop in launch().  The sleep before it takes time only.
CheckRunning ==
    /\ update_loop.pc = "check"
    /\ Goes(IF is_running THEN "update" ELSE "exited")
    /\ UNCHANGED <<sessions, queue, active_sessions, control>>

\* update(): the packets are taken while there are any.
update ==
    /\ update_loop.pc = "update"
    /\ IF dequeue = <<>>
       THEN Goes("check") /\ UNCHANGED queue
       ELSE /\ Q!pop_front
            /\ update_loop' = [pc |-> "broadcast", todo |-> active_sessions]
    /\ UNCHANGED <<sessions, active_sessions, control>>

\* Fault: the iterator stays where it is.
broadcast_Stays ==
    /\ update_loop.pc = "broadcast"
    /\ IF update_loop.todo = {}
       THEN Goes("update") /\ UNCHANGED sessions
       ELSE \E s \in update_loop.todo : S!send(s) /\ UNCHANGED update_loop
    /\ UNCHANGED <<queue, active_sessions, control>>

\* broadcast(): send() to one session, and on to the next.
broadcast ==
    /\ update_loop.pc = "broadcast"
    /\ IF update_loop.todo = {}
       THEN Goes("update") /\ UNCHANGED sessions
       ELSE \E s \in update_loop.todo :
               /\ S!send(s)
               /\ update_loop' = [update_loop EXCEPT !.todo = @ \ {s}]
    /\ UNCHANGED <<queue, active_sessions, control>>

UpdateThread == CheckRunning \/ update \/ broadcast

-----------------------------------------------------------------------------
(* try_stop() and stop(). *)

Returns(c, to) == caller' = [caller EXCEPT ![c] = to]

\* stopping.exchange(true): only the first call goes on to stop().
try_stop(c) ==
    /\ caller[c] = "idle"
    /\ stopping' = TRUE
    /\ Returns(c, IF stopping THEN "returned" ELSE "stop")
    /\ UNCHANGED <<sessions, queue, active_sessions, update_loop, context, context_stopped>>

StopContext(c) ==
    /\ caller[c] = "stop"
    /\ context_stopped' = TRUE
    /\ Returns(c, "join_context")
    /\ UNCHANGED <<sessions, queue, active_sessions, update_loop, context, stopping>>

\* A thread that was never started is not joinable, and not joined.
JoinContext(c) ==
    /\ caller[c] = "join_context"
    /\ context # "running"
    /\ Q!stop
    /\ Returns(c, "join_update")
    /\ UNCHANGED <<sessions, active_sessions, update_loop, context, context_stopped, stopping>>

\* Fault: the update thread is not waited for.
JoinUpdate_Detaches(c) ==
    /\ caller[c] = "join_update"
    /\ Returns(c, "returned")
    /\ UNCHANGED <<sessions, queue, active_sessions, update_loop, context, context_stopped, stopping>>

JoinUpdate(c) ==
    /\ caller[c] = "join_update"
    /\ update_loop.pc \in {"none", "exited"}
    /\ Returns(c, "returned")
    /\ UNCHANGED <<sessions, queue, active_sessions, update_loop, context, context_stopped, stopping>>

Stop(c) == StopContext(c) \/ JoinContext(c) \/ JoinUpdate(c)

Next ==
    \/ launch
    \/ \E s \in Sessions :
          \/ start_accept_async(s) \/ Handler(s)
          \/ push_incoming_packet(s) \/ CloseReturns(s)
    \/ ContextExits \/ UpdateThread
    \/ \E c \in Callers : try_stop(c) \/ Stop(c)

(***************************************************************************)
(* The context thread runs what is ready and a write completes, if only    *)
(* with an error (an assumption on the peer, for the code sets no timeout  *)
(* on a write); the update thread and a call of stop() go on; run()        *)
(* returns when it can.  Nothing makes a client connect, finish its        *)
(* handshake, send, or answer a close frame, nor the application call      *)
(* launch() or try_stop().                                                 *)
(***************************************************************************)
Ready(s, A) == ContextRuns /\ A /\ UNCHANGED <<queue, active_sessions, update_loop, control>>

Fairness ==
    /\ \A s \in Sessions :
          /\ SF_vars(Ready(s, S!RunPosted(s)))
          /\ SF_vars(Ready(s, S!Written(s) \/ S!WriteError(s)))
    /\ WF_vars(ContextExits)
    /\ WF_vars(UpdateThread)
    /\ \A c \in Callers : WF_vars(Stop(c))

Spec == Init /\ [][Next]_vars /\ Fairness
-----------------------------------------------------------------------------
(***************************************************************************)
(* Types of what the server adds to its sessions and its queue.  The       *)
(* sessions are active from the accept handler on and a broadcast comes to *)
(* none that is not; the limits of the queue, unless they are 0, hold, and *)
(* current_bytes is the bytes it holds when they are limited.              *)
(***************************************************************************)
TypeOK ==
    /\ S!TypeOK
    /\ active_sessions = {s \in Sessions : session[s].stream # "new"}
    /\ dequeue \in Seq(incoming_packet) /\ stopped \in BOOLEAN
    /\ Q!LimitsSize => Len(dequeue) <= max_incoming_packets
    /\ current_bytes = IF Q!LimitsBytes THEN Q!Bytes(dequeue) ELSE 0
    /\ Q!LimitsBytes => current_bytes <= max_incoming_bytes
    /\ context \in {"none", "running", "exited"} /\ context_stopped \in BOOLEAN
    /\ update_loop.pc \in {"none", "check", "update", "broadcast", "exited"}
    /\ update_loop.todo \subseteq active_sessions
    /\ stopping \in BOOLEAN
    /\ caller \in [Callers -> {"idle", "stop", "join_context", "join_update", "returned"}]

(***************************************************************************)
(* No message is lost, duplicated or overtaken between a broadcast and the *)
(* wire, whatever handlers run between the sends of the update thread.     *)
(***************************************************************************)
MessagesInOrder == S!MessagesInOrder

(***************************************************************************)
(* At most one async_write is outstanding on a stream, as Beast requires.  *)
(***************************************************************************)
OneWriteAtATime == S!OneWriteAtATime

(***************************************************************************)
(* Once try_stop() has been called and every call of it has returned, no   *)
(* thread of the server runs: the server can be destroyed, and destroying  *)
(* its std::threads does not terminate the process.  A call that returns   *)
(* while another is still in stop() says nothing of the kind.              *)
(***************************************************************************)
StoppedServerIsQuiet ==
    /\ stopping
    /\ \A c \in Callers : caller[c] \in {"idle", "returned"}
    => context # "running" /\ update_loop.pc \in {"none", "exited"}

(***************************************************************************)
(* Each call of try_stop() returns: the update thread leaves its loop in   *)
(* spite of the packets that are queued, and the context thread its        *)
(* handlers, unless a client keeps a close() waiting for good.             *)
(***************************************************************************)
StopReturns ==
    []<>(closing = {}) =>
        \A c \in Callers : caller[c] \notin {"idle", "returned"} ~> caller[c] = "returned"

(***************************************************************************)
(* A packet the queue has taken is taken from it again and its broadcast   *)
(* comes to an end, although clients connect during it and other packets   *)
(* arrive; unless there is no update thread or it has left its loop.       *)
(***************************************************************************)
PacketsBroadcast ==
    \A packet \in incoming_packet :
        packet \in Elements(dequeue) ~>
            \/ packet \notin Elements(dequeue) /\ update_loop.todo = {}
            \/ update_loop.pc \in {"none", "exited"}

(***************************************************************************)
(* While the server runs, a message broadcast to a session is written to   *)
(* it, unless a write of the session fails, as long as no close() keeps    *)
(* the context thread for good.                                            *)
(***************************************************************************)
MessagesWritten ==
    []<>(closing = {}) =>
        \A s \in Sessions : \A n \in 1 .. MaxMessages :
            n <= session[s].sends ~>
                n <= Len(session[s].sent) \/ session[s].failed \/ context_stopped
=============================================================================
