--------------------------- MODULE RequestServer ---------------------------
(***************************************************************************)
(* request_server_base: the connections, the request queue between them    *)
(* and the worker threads, and stop().  One thread runs asio_context, so   *)
(* the handlers of all the connections are steps of one thread; the        *)
(* workers and the thread that calls stop() interleave with them.          *)
(*                                                                         *)
(* The connections are those of HttpConnection, the queue is QueueData     *)
(* with wait_and_pop as one blocking step (QueueRefinement shows that the  *)
(* condition variable implements that).  An element of the queue is a      *)
(* request_task, which weighs as much as the body of its request.          *)
(***************************************************************************)
EXTENDS Integers, Sequences, FiniteSets

CONSTANTS
    Connections,
    Workers,          \* the threads of the constructor's loop
    MaxRequests,      \* bound of the model on the requests of a connection
    BodySizes,        \* sizes of the request bodies each client sends
    max_pending_requests, max_request_bytes,   \* 0 for unlimited
    SizeMod           \* number of values of size_t

ASSUME ServerAssumption ==
    /\ IsFiniteSet(Workers)
    /\ MaxRequests \in Nat
    /\ SizeMod \in Nat \ {0}
    /\ \A c \in Connections : BodySizes[c] \subseteq 0 .. SizeMod - 1
    /\ max_pending_requests \in Nat
    /\ max_request_bytes \in 0 .. SizeMod - 1

VARIABLES
    conn, aborted,                     \* the connections
    dequeue, stopped, current_bytes,   \* request_queue
    holding,    \* the task each worker is processing: <<>> or <<task>>
    exited,     \* workers that have left worker_loop
    phase       \* how far launch() and stop() have got

queue == <<dequeue, stopped, current_bytes>>
vars == <<conn, aborted, queue, holding, exited, phase>>

RequestTask ==
    [connection : Connections, sequence_id : 0 .. MaxRequests - 1,
     bytes : UNION {BodySizes[c] : c \in Connections}]

Q == INSTANCE QueueData WITH
        Items <- RequestTask,
        Size <- [task \in RequestTask |-> task.bytes],
        EnableMaxSize <- TRUE, EnableMaxBytes <- TRUE,
        maximum_size <- max_pending_requests, maximum_bytes <- max_request_bytes,
        LengthBound <- MaxRequests * Cardinality(Connections)

Elements(s) == {s[i] : i \in DOMAIN s}

(***************************************************************************)
(* The requests between read() and send_response(), as HttpConnection sees *)
(* them.                                                                   *)
(***************************************************************************)
Tasks ==
    {[connection |-> task.connection, sequence_id |-> task.sequence_id] :
        task \in Elements(dequeue) \cup UNION {Elements(holding[w]) : w \in Workers}}

HC == INSTANCE HttpConnection WITH tasks <- Tasks

Init ==
    /\ Q!DataInit
    /\ holding = [w \in Workers |-> <<>>]
    /\ exited = {}
    /\ phase = "constructed"
    /\ HC!Init

-----------------------------------------------------------------------------
(***************************************************************************)
(* The thread that runs asio_context: from launch() until asio_context     *)
(* has been stopped and the thread joined.                                 *)
(***************************************************************************)
ContextRuns == phase = "launched" /\ ~aborted

launch ==
    /\ phase = "constructed" /\ ~aborted
    /\ phase' = "launched"
    /\ UNCHANGED <<conn, aborted, queue, holding, exited>>

(***************************************************************************)
(* The accept handler starts a connection if the rate limiter lets it; if  *)
(* not, the socket is closed and there is no connection.  It accepts again *)
(* in either case.  remote_endpoint() throws if the peer has gone.         *)
(***************************************************************************)
start_accept_async(c) ==
    /\ ContextRuns
    /\ HC!Start(c)
    /\ UNCHANGED <<queue, holding, exited, phase>>

AcceptThrows(c) ==
    /\ ContextRuns
    /\ conn[c].socket = "unconnected"
    /\ aborted' = TRUE
    /\ UNCHANGED <<conn, queue, holding, exited, phase>>

(***************************************************************************)
(* read(): the task goes to the back of the queue, unless it is full.      *)
(***************************************************************************)
\* Fault: the task goes to the front.
Read_PushesFront(c) ==
    /\ ContextRuns
    /\ \E bytes \in BodySizes[c] :
          LET task == [connection |-> c, sequence_id |-> conn[c].next_sequence_id,
                       bytes |-> bytes]
          IN  \/ HC!ReadAccepted(c) /\ Q!try_push_front(task)
              \/ /\ HC!ReadRejected(c)
                 /\ ~Q!pre_addition_check_protocol(task)
                 /\ UNCHANGED queue
    /\ UNCHANGED <<holding, exited, phase>>

Read(c) ==
    /\ ContextRuns
    /\ \E bytes \in BodySizes[c] :
          LET task == [connection |-> c, sequence_id |-> conn[c].next_sequence_id,
                       bytes |-> bytes]
          IN  \/ HC!ReadAccepted(c) /\ Q!try_push_back(task)
              \/ /\ HC!ReadRejected(c)
                 /\ ~Q!pre_addition_check_protocol(task)
                 /\ UNCHANGED queue
    /\ UNCHANGED <<holding, exited, phase>>

Strand(c) ==
    /\ ContextRuns
    /\ HC!RunPosted(c) \/ HC!Written(c) \/ HC!WriteError(c)
    /\ UNCHANGED <<queue, holding, exited, phase>>

ReadFails(c) ==
    /\ ContextRuns
    /\ HC!ReadError(c) \/ HC!ReadThrows(c)
    /\ UNCHANGED <<queue, holding, exited, phase>>

-----------------------------------------------------------------------------
(***************************************************************************)
(* worker_loop().  The workers run from the constructor on.  Take is the   *)
(* return of wait_and_pop: with a task, or with nullopt, which ends the    *)
(* loop.                                                                   *)
(***************************************************************************)
Working(w) == ~aborted /\ w \notin exited

\* Fault: the loop ends once the queue is stopped, drained or not.
Take_ExitsWhenStopped(w) ==
    /\ Working(w) /\ holding[w] = <<>>
    /\ \/ /\ stopped
          /\ exited' = exited \cup {w}
          /\ UNCHANGED <<queue, holding>>
       \/ /\ ~stopped /\ Q!pop_front
          /\ holding' = [holding EXCEPT ![w] = <<Head(dequeue)>>]
          /\ UNCHANGED exited
    /\ UNCHANGED <<conn, aborted, phase>>

Take(w) ==
    /\ Working(w) /\ holding[w] = <<>>
    /\ Q!FinishWait
    /\ IF dequeue = <<>>
       THEN exited' = exited \cup {w} /\ UNCHANGED holding
       ELSE /\ holding' = [holding EXCEPT ![w] = <<Head(dequeue)>>]
            /\ UNCHANGED exited
    /\ UNCHANGED <<conn, aborted, phase>>

(***************************************************************************)
(* process_client_request() returns a response, which is posted; or throws *)
(* an exception, which nothing catches.                                    *)
(***************************************************************************)
\* Fault: a task is answered more than once.
Respond_KeepsTask(w) ==
    /\ Working(w) /\ holding[w] # <<>>
    /\ \E keep_alive \in BOOLEAN : HC!send_response(Head(holding[w]), keep_alive)
    /\ UNCHANGED <<queue, holding, exited, phase>>

Respond(w) ==
    /\ Working(w) /\ holding[w] # <<>>
    /\ \E keep_alive \in BOOLEAN : HC!send_response(Head(holding[w]), keep_alive)
    /\ holding' = [holding EXCEPT ![w] = <<>>]
    /\ UNCHANGED <<queue, exited, phase>>

ProcessThrows(w) ==
    /\ Working(w) /\ holding[w] # <<>>
    /\ aborted' = TRUE
    /\ UNCHANGED <<conn, queue, holding, exited, phase>>

-----------------------------------------------------------------------------
(***************************************************************************)
(* stop(), called once by try_stop() on a thread of the application: stop  *)
(* the context and join its thread, stop the queue, join the workers.      *)
(***************************************************************************)
StopContext ==
    /\ phase \in {"constructed", "launched"} /\ ~aborted
    /\ phase' = "context_stopped"
    /\ UNCHANGED <<conn, aborted, queue, holding, exited>>

\* Fault: request_queue is not stopped.
StopQueue_Skipped ==
    /\ phase = "context_stopped" /\ ~aborted
    /\ phase' = "queue_stopped"
    /\ UNCHANGED <<conn, aborted, queue, holding, exited>>

StopQueue ==
    /\ phase = "context_stopped" /\ ~aborted
    /\ Q!stop
    /\ phase' = "queue_stopped"
    /\ UNCHANGED <<conn, aborted, holding, exited>>

JoinWorkers ==
    /\ phase = "queue_stopped" /\ ~aborted
    /\ exited = Workers
    /\ phase' = "stopped"
    /\ UNCHANGED <<conn, aborted, queue, holding, exited>>

Stop == StopContext \/ StopQueue \/ JoinWorkers

Next ==
    \/ launch
    \/ \E c \in Connections :
          start_accept_async(c) \/ AcceptThrows(c) \/ Read(c) \/ Strand(c) \/ ReadFails(c)
    \/ \E w \in Workers : Take(w) \/ Respond(w) \/ ProcessThrows(w)
    \/ Stop

(***************************************************************************)
(* The context thread runs the handlers that are ready and a write that is *)
(* outstanding completes, if only with an error (an assumption on the      *)
(* peer, for the code sets no timeout); the application answers each       *)
(* request; stop(), once begun, goes on.  Nothing makes a client send or   *)
(* the application call launch() or stop().                                *)
(***************************************************************************)
Fairness ==
    /\ \A c \in Connections :
          /\ WF_vars(ContextRuns /\ HC!RunPosted(c) /\ UNCHANGED <<queue, holding, exited, phase>>)
          /\ WF_vars(/\ ContextRuns /\ (HC!Written(c) \/ HC!WriteError(c))
                     /\ UNCHANGED <<queue, holding, exited, phase>>)
    /\ \A w \in Workers : WF_vars(Take(w)) /\ WF_vars(Respond(w))
    /\ WF_vars(StopQueue \/ JoinWorkers)

Spec == Init /\ [][Next]_vars /\ Fairness
-----------------------------------------------------------------------------
(***************************************************************************)
(* The composed connections behave as HttpConnection says, for all that    *)
(* their tasks go through the bounded queue and the worker threads: none   *)
(* is lost, duplicated or answered by two workers.                         *)
(***************************************************************************)
ConnectionsBehave == HC!Init /\ [][HC!Next]_(HC!vars)

(***************************************************************************)
(* Requests are taken in the order they were read: the queued tasks of a   *)
(* connection have increasing ids, all greater than those being processed. *)
(***************************************************************************)
TakenInOrder ==
    /\ \A i, j \in DOMAIN dequeue :
          i < j /\ dequeue[i].connection = dequeue[j].connection =>
              dequeue[i].sequence_id < dequeue[j].sequence_id
    /\ \A w \in Workers : \A t1 \in Elements(holding[w]), t2 \in Elements(dequeue) :
          t1.connection = t2.connection => t1.sequence_id < t2.sequence_id

(***************************************************************************)
(* The limits given to the constructor, unless they are 0, bound the       *)
(* requests waiting for a worker and their bytes; with those being         *)
(* processed, at most max_pending_requests + worker_count requests are not *)
(* answered by the application.                                            *)
(***************************************************************************)
UnansweredBounded ==
    /\ Q!LimitsSize => /\ Len(dequeue) <= max_pending_requests
                       /\ Cardinality(Tasks) <= max_pending_requests + Cardinality(Workers)
    /\ Q!LimitsBytes => Q!Bytes(dequeue) <= max_request_bytes

(***************************************************************************)
(* When stop() returns, the workers have left their loops and every        *)
(* request that was accepted has been processed: the queue is drained, not *)
(* dropped.  (The constructor takes a worker_count of 0, which leaves      *)
(* nobody to drain it.)                                                    *)
(***************************************************************************)
StopDrains ==
    phase = "stopped" =>
        exited = Workers /\ (Workers # {} => dequeue = <<>> /\ Tasks = {})

(***************************************************************************)
(* stop() returns: no worker sleeps through it.                            *)
(***************************************************************************)
StopReturns == phase = "context_stopped" ~> phase = "stopped" \/ aborted

(***************************************************************************)
(* While the server runs, each request that is read is answered, unless    *)
(* its connection is closed before.                                        *)
(***************************************************************************)
ServerAnswers ==
    \A c \in Connections : \A id \in 0 .. MaxRequests - 1 :
        id < conn[c].next_sequence_id ~>
            \/ id < conn[c].next_response_sequence_id
            \/ conn[c].socket = "closed"
            \/ aborted
            \/ phase # "launched"
=============================================================================
