--------------------------- MODULE HttpConnection ---------------------------
(***************************************************************************)
(* http_connection: the HTTP connections of a request server.  All the     *)
(* handlers of a connection run on its strand, one at a time, so a handler *)
(* is one atomic step.  Between two handlers the socket may fail, further  *)
(* requests may arrive and worker threads may post responses, in an order  *)
(* that has nothing to do with the order of the requests.                  *)
(*                                                                         *)
(* A request is its sequence id; its contents matter to the application    *)
(* only.  A response is the id of the request it answers, whether it keeps *)
(* the connection alive, and whether it is the application's answer or the *)
(* 503 of reject_overloaded.                                               *)
(***************************************************************************)
EXTENDS Integers, Sequences, Functions

CONSTANTS
    Connections,
    MaxRequests     \* bound of the model on the requests of a connection

ASSUME ConnectionAssumption == MaxRequests \in Nat

VARIABLES
    conn,      \* the members of each connection, and its pending operations
    tasks,     \* requests handed to the workers and not answered yet
    aborted    \* an exception has escaped a handler and ended the process

vars == <<conn, tasks, aborted>>

Response == [id : Nat, keep_alive : BOOLEAN, status : {"answer", "overloaded"}]
Task == [connection : Connections, sequence_id : Nat]

(***************************************************************************)
(* reading: an async_read is outstanding.  posted: handlers posted to the  *)
(* strand by send_response and reject_overloaded, which run in any order   *)
(* (the workers race to post them).  in_flight: the outstanding            *)
(* async_writes, and whether the socket was open when each was started; a  *)
(* write started on a closed socket fails.  written: the responses the     *)
(* client has been sent.                                                   *)
(***************************************************************************)
NewConnection ==
    [socket |-> "unconnected", reading |-> FALSE, writing |-> FALSE,
     next_sequence_id |-> 0, next_response_sequence_id |-> 0,
     posted |-> {}, responses |-> <<>>, in_flight |-> <<>>, written |-> <<>>]

Init ==
    /\ conn = [c \in Connections |-> NewConnection]
    /\ tasks = {}
    /\ aborted = FALSE

-----------------------------------------------------------------------------
(***************************************************************************)
(* The methods of a connection k.  std::map::emplace keeps an element that *)
(* is already there.                                                       *)
(***************************************************************************)
emplace(responses, r) ==
    IF r.id \in DOMAIN responses THEN responses
    ELSE [i \in DOMAIN responses \cup {r.id} |-> IF i = r.id THEN r ELSE responses[i]]

erase(responses, id) == Restrict(responses, DOMAIN responses \ {id})

close(k) == [k EXCEPT !.socket = "closed"]

\* Fault: any stored response is written, not the next in turn.
write_AnyReady(k) ==
    IF DOMAIN k.responses = {}
    THEN [k EXCEPT !.writing = FALSE]
    ELSE [k EXCEPT !.writing = TRUE,
                   !.in_flight = Append(k.in_flight,
                       [response |-> k.responses[CHOOSE i \in DOMAIN k.responses :
                                        \A j \in DOMAIN k.responses : i <= j],
                        live |-> k.socket = "open"])]

write(k) ==
    IF k.next_response_sequence_id \notin DOMAIN k.responses
    THEN [k EXCEPT !.writing = FALSE]
    ELSE [k EXCEPT !.writing = TRUE,
                   !.in_flight = Append(k.in_flight,
                       [response |-> k.responses[k.next_response_sequence_id],
                        live |-> k.socket = "open"])]

(***************************************************************************)
(* What the handlers posted by send_response and reject_overloaded do.     *)
(***************************************************************************)
\* Fault: `writing` is not tested.
OnPosted_AlwaysWrites(k, r) ==
    write([k EXCEPT !.posted = k.posted \ {r}, !.responses = emplace(k.responses, r)])

\* Fault: the response is only stored.
OnPosted_NeverWrites(k, r) ==
    [k EXCEPT !.posted = k.posted \ {r}, !.responses = emplace(k.responses, r)]

OnPosted(k, r) ==
    LET stored == [k EXCEPT !.posted = k.posted \ {r},
                            !.responses = emplace(k.responses, r)]
    IN  IF k.writing THEN stored ELSE write(stored)

(***************************************************************************)
(* The completion handler of async_write, on success and on failure.       *)
(***************************************************************************)
\* Fault: the connection goes on after its last response.
OnWritten_IgnoresKeepAlive(k) ==
    write([k EXCEPT
             !.in_flight = Tail(k.in_flight),
             !.written = Append(k.written, Head(k.in_flight).response),
             !.responses = erase(k.responses, k.next_response_sequence_id),
             !.next_response_sequence_id = k.next_response_sequence_id + 1])

OnWritten(k) ==
    LET response == Head(k.in_flight).response
        sent == [k EXCEPT
                   !.in_flight = Tail(k.in_flight),
                   !.written = Append(k.written, response),
                   !.responses = erase(k.responses, k.next_response_sequence_id),
                   !.next_response_sequence_id = k.next_response_sequence_id + 1]
    IN  IF response.keep_alive THEN write(sent) ELSE close(sent)

OnWriteError(k) == close([k EXCEPT !.in_flight = Tail(k.in_flight)])

(***************************************************************************)
(* The completion handler of async_read: the request has been read and the *)
(* queue accepts it (read on), or rejects it (post the 503, read no more), *)
(* or the read has failed.                                                 *)
(***************************************************************************)
\* Fault: next_sequence_id is not incremented.
OnAccepted_SameId(k) == k

OnAccepted(k) == [k EXCEPT !.next_sequence_id = k.next_sequence_id + 1]

Overloaded(k) ==
    [id |-> k.next_sequence_id, keep_alive |-> FALSE, status |-> "overloaded"]

\* Fault: read() is called after a refusal.
OnRejected_ReadsOn(k) ==
    [k EXCEPT !.next_sequence_id = k.next_sequence_id + 1,
              !.posted = k.posted \cup {Overloaded(k)}]

OnRejected(k) ==
    [k EXCEPT !.next_sequence_id = k.next_sequence_id + 1,
              !.posted = k.posted \cup {Overloaded(k)},
              !.reading = FALSE]

OnReadError(k) == close([k EXCEPT !.reading = FALSE])

-----------------------------------------------------------------------------
(***************************************************************************)
(* The steps of a connection, without the queue its tasks go through.      *)
(***************************************************************************)
Update(c, k) == conn' = [conn EXCEPT ![c] = k]

Start(c) ==
    /\ ~aborted
    /\ conn[c].socket = "unconnected"
    /\ Update(c, [conn[c] EXCEPT !.socket = "open", !.reading = TRUE])
    /\ UNCHANGED aborted

(***************************************************************************)
(* A request has been read, and get_client_ip() has succeeded: the socket  *)
(* is still open.                                                          *)
(***************************************************************************)
RequestRead(c) ==
    /\ ~aborted
    /\ conn[c].reading
    /\ conn[c].socket = "open"
    /\ conn[c].next_sequence_id < MaxRequests

ReadAccepted(c) == RequestRead(c) /\ Update(c, OnAccepted(conn[c])) /\ UNCHANGED aborted

ReadRejected(c) == RequestRead(c) /\ Update(c, OnRejected(conn[c])) /\ UNCHANGED aborted

(***************************************************************************)
(* A request has been read and get_client_ip() throws, because the peer    *)
(* has gone or because a handler that ran since has closed the socket.     *)
(* Nothing catches the exception on the context thread.                    *)
(***************************************************************************)
ReadThrows(c) ==
    /\ ~aborted
    /\ conn[c].reading
    /\ aborted' = TRUE
    /\ UNCHANGED conn

(***************************************************************************)
(* The client has closed its side, sent something that is not a request,   *)
(* or the socket has been closed here while the read was outstanding.      *)
(***************************************************************************)
ReadError(c) ==
    /\ ~aborted
    /\ conn[c].reading
    /\ Update(c, OnReadError(conn[c]))
    /\ UNCHANGED aborted

RunPosted(c) ==
    /\ ~aborted
    /\ \E r \in conn[c].posted : Update(c, OnPosted(conn[c], r))
    /\ UNCHANGED aborted

Written(c) ==
    /\ ~aborted
    /\ conn[c].in_flight # <<>>
    /\ Head(conn[c].in_flight).live
    /\ Update(c, OnWritten(conn[c]))
    /\ UNCHANGED aborted

WriteError(c) ==
    /\ ~aborted
    /\ conn[c].in_flight # <<>>
    /\ Update(c, OnWriteError(conn[c]))
    /\ UNCHANGED aborted

(***************************************************************************)
(* A worker that has the answer to a task posts it.                        *)
(***************************************************************************)
send_response(task, keep_alive) ==
    /\ ~aborted
    /\ Update(task.connection,
              [conn[task.connection] EXCEPT !.posted = @ \cup
                  {[id |-> task.sequence_id, keep_alive |-> keep_alive, status |-> "answer"]}])
    /\ UNCHANGED aborted

-----------------------------------------------------------------------------
(***************************************************************************)
(* Closed with an arbitrary queue (any request may be accepted or not) and *)
(* arbitrary workers (tasks are answered in any order).                    *)
(***************************************************************************)
Accept(c) ==
    /\ ReadAccepted(c)
    /\ tasks' = tasks \cup {[connection |-> c, sequence_id |-> conn[c].next_sequence_id]}

Answer ==
    \E task \in tasks, keep_alive \in BOOLEAN :
        send_response(task, keep_alive) /\ tasks' = tasks \ {task}

(***************************************************************************)
(* An exception has escaped process_client_request on a worker thread, or  *)
(* the accept handler, and ended the process.                              *)
(***************************************************************************)
Terminate == ~aborted /\ aborted' = TRUE /\ UNCHANGED <<conn, tasks>>

Strand(c) == (RunPosted(c) \/ Written(c) \/ WriteError(c)) /\ UNCHANGED tasks

Next ==
    \/ \E c \in Connections :
          \/ Accept(c)
          \/ Strand(c)
          \/ (Start(c) \/ ReadRejected(c) \/ ReadError(c) \/ ReadThrows(c)) /\ UNCHANGED tasks
    \/ Answer
    \/ Terminate

(***************************************************************************)
(* Posted handlers run; the workers answer; a write completes, if only     *)
(* with an error.  The last is an assumption on the peer: the code sets no *)
(* timeout, so a peer that stays connected and never reads can keep a      *)
(* write outstanding.  Nothing obliges the client to send anything.        *)
(***************************************************************************)
Fairness ==
    /\ \A c \in Connections :
          /\ WF_vars(RunPosted(c) /\ UNCHANGED tasks)
          /\ WF_vars((Written(c) \/ WriteError(c)) /\ UNCHANGED tasks)
    /\ WF_vars(Answer)

Spec == Init /\ [][Next]_vars /\ Fairness
-----------------------------------------------------------------------------
\* Types of the members of the connections and of the pending operations.
TypeOK ==
    /\ \A c \in Connections : LET k == conn[c] IN
          /\ k.socket \in {"unconnected", "open", "closed"}
          /\ k.reading \in BOOLEAN /\ k.writing \in BOOLEAN
          /\ k.next_sequence_id \in Nat /\ k.next_response_sequence_id \in Nat
          /\ k.posted \subseteq Response
          /\ \A i \in DOMAIN k.responses : k.responses[i] \in Response
          /\ k.in_flight \in Seq([response : Response, live : BOOLEAN])
          /\ k.written \in Seq(Response)
    /\ tasks \subseteq Task
    /\ aborted \in BOOLEAN

(***************************************************************************)
(* Responses are written in the order of the requests: the i-th response   *)
(* on the wire answers the i-th request read from it, in whatever order    *)
(* the workers finish.                                                     *)
(***************************************************************************)
ResponsesInOrder ==
    \A c \in Connections : \A i \in 1 .. Len(conn[c].written) :
        conn[c].written[i].id = i - 1

(***************************************************************************)
(* At most one async_write is outstanding on a socket, as Beast requires:  *)
(* `writing` keeps posted handlers from starting a second one.             *)
(***************************************************************************)
OneWriteAtATime == \A c \in Connections : Len(conn[c].in_flight) <= 1

(***************************************************************************)
(* No request is forgotten or answered twice: the ids from the next one to *)
(* be written to the last one read are those held by the workers, by the   *)
(* handlers posted to the strand and by `responses`, each id once.         *)
(***************************************************************************)
TaskIds(c) == {t.sequence_id : t \in {u \in tasks : u.connection = c}}
PostedIds(c) == {r.id : r \in conn[c].posted}
StoredIds(c) == DOMAIN conn[c].responses

EveryRequestHeld ==
    \A c \in Connections :
        /\ TaskIds(c) \cup PostedIds(c) \cup StoredIds(c) =
             conn[c].next_response_sequence_id .. conn[c].next_sequence_id - 1
        /\ TaskIds(c) \cap PostedIds(c) = {}
        /\ TaskIds(c) \cap StoredIds(c) = {}
        /\ PostedIds(c) \cap StoredIds(c) = {}
        /\ \A r1, r2 \in conn[c].posted : r1.id = r2.id => r1 = r2

(***************************************************************************)
(* A response whose turn it is does not wait for nothing: on an open       *)
(* connection it is being written.  (A connection whose write failed, or   *)
(* that was told not to stay alive, keeps `writing` set for good.)         *)
(***************************************************************************)
NextResponseIsBeingWritten ==
    \A c \in Connections :
        conn[c].socket = "open" /\ conn[c].next_response_sequence_id \in StoredIds(c)
            => conn[c].in_flight # <<>>

(***************************************************************************)
(* An overloaded request is the last one its connection reads: the 503     *)
(* follows the answers to all the earlier requests, and the connection is  *)
(* closed once it has been written.                                        *)
(***************************************************************************)
RejectionIsLast ==
    \A c \in Connections : LET k == conn[c] IN
        /\ \A r \in k.posted \cup Range(k.responses) \cup Range(k.written) :
              r.status = "overloaded" => r.id = k.next_sequence_id - 1 /\ ~k.reading
        /\ \A r \in Range(k.written) : r.status = "overloaded" => k.socket = "closed"

(***************************************************************************)
(* Nothing follows a response that ends the connection.                    *)
(***************************************************************************)
LastResponseCloses ==
    \A c \in Connections : \A i \in 1 .. Len(conn[c].written) :
        ~conn[c].written[i].keep_alive =>
            i = Len(conn[c].written) /\ conn[c].socket = "closed"

(***************************************************************************)
(* Every request that is read is answered, if only with a 503, unless the  *)
(* connection is closed before.                                            *)
(***************************************************************************)
EveryRequestAnswered ==
    \A c \in Connections : \A id \in 0 .. MaxRequests - 1 :
        id < conn[c].next_sequence_id ~>
            \/ id < conn[c].next_response_sequence_id
            \/ conn[c].socket = "closed"
            \/ aborted
=============================================================================
