------------------------ MODULE RequestServerProofs ------------------------
(***************************************************************************)
(* Proofs about RequestServer for any connections, workers, body sizes,    *)
(* limits and width of size_t: first the queue and the workers, then that  *)
(* the connections behave as HttpConnection says, so that what             *)
(* HttpConnectionProofs shows of them holds in the composed server.        *)
(***************************************************************************)
EXTENDS RequestServer, SequenceLemmas, FiniteSetTheorems

-----------------------------------------------------------------------------
(* The inductive invariant.                                                *)

\* The size by which request_queue weighs a task.
BodySize == [task \in RequestTask |-> task.bytes]

\* The queue and what the workers hold.
Typed ==
    /\ dequeue \in Seq(RequestTask)
    /\ holding \in [Workers -> {<<>>} \cup {<<task>> : task \in RequestTask}]
    /\ exited \subseteq Workers

(***************************************************************************)
(* With a byte limit, current_bytes is the bytes queued: within the limit, *)
(* so that no addition wraps, and at least the size of the task removed.   *)
(***************************************************************************)
Metered ==
    /\ Q!LimitsSize => Len(dequeue) <= max_pending_requests
    /\ Q!LimitsBytes => /\ current_bytes = Total(dequeue, BodySize)
                        /\ current_bytes <= max_request_bytes

\* The connections number their requests.
Counting(k) == "next_sequence_id" \in DOMAIN k /\ k.next_sequence_id \in Nat

ConnectionsCount ==
    DOMAIN conn = Connections /\ \A c \in Connections : Counting(conn[c])

\* A task was read before the next request of its connection.
IdsUsed ==
    /\ \A i \in DOMAIN dequeue :
          dequeue[i].sequence_id < conn[dequeue[i].connection].next_sequence_id
    /\ \A w \in Workers : holding[w] # <<>> =>
          Head(holding[w]).sequence_id < conn[Head(holding[w]).connection].next_sequence_id

\* Two workers never process the same request.
HeldApart ==
    \A v, w \in Workers :
        /\ v # w /\ holding[v] # <<>> /\ holding[w] # <<>>
        /\ Head(holding[v]).connection = Head(holding[w]).connection
        => Head(holding[v]).sequence_id # Head(holding[w]).sequence_id

\* The queued tasks of a connection are in order, and follow those being processed.
QueueOrder ==
    /\ \A i, j \in DOMAIN dequeue :
          i < j /\ dequeue[i].connection = dequeue[j].connection =>
              dequeue[i].sequence_id < dequeue[j].sequence_id
    /\ \A w \in Workers, i \in DOMAIN dequeue :
          holding[w] # <<>> /\ Head(holding[w]).connection = dequeue[i].connection =>
              Head(holding[w]).sequence_id < dequeue[i].sequence_id

\* A worker leaves its loop with nothing in hand, when nothing is queued or ever will be.
Leaving ==
    /\ \A w \in exited : holding[w] = <<>>
    /\ exited # {} => stopped /\ dequeue = <<>>
    /\ phase = "stopped" => exited = Workers

IInv == Typed /\ Metered /\ ConnectionsCount /\ IdsUsed /\ HeldApart /\ QueueOrder /\ Leaving

-----------------------------------------------------------------------------
(* The connections. *)

(***************************************************************************)
(* The handlers of a connection that read no request leave its count of    *)
(* requests alone, and those that read one raise it.                       *)
(***************************************************************************)
LEMMA HandlersCount ==
    ASSUME NEW k, Counting(k), NEW r
    PROVE  /\ \A m \in {[k EXCEPT !.socket = "open", !.reading = TRUE], HC!OnReadError(k),
                        HC!OnPosted(k, r), HC!OnWritten(k), HC!OnWriteError(k),
                        [k EXCEPT !.posted = @ \cup {r}]} :
                 Counting(m) /\ m.next_sequence_id = k.next_sequence_id
           /\ \A m \in {HC!OnAccepted(k), HC!OnRejected(k)} :
                 Counting(m) /\ m.next_sequence_id = k.next_sequence_id + 1
<1> DEFINE Same(m) == DOMAIN m = DOMAIN k /\ m.next_sequence_id = k.next_sequence_id
<1>1. ASSUME NEW m, Same(m) PROVE Same(HC!write(m)) /\ Same(HC!close(m))
  BY <1>1 DEF HC!write, HC!close
<1>2. Same([k EXCEPT !.socket = "open", !.reading = TRUE]) /\ Same([k EXCEPT !.posted = @ \cup {r}])
  OBVIOUS
<1>3. Same(HC!OnReadError(k)) /\ Same(HC!OnWriteError(k))
  BY DEF HC!OnReadError, HC!OnWriteError, HC!close
<1>4. Same(HC!OnPosted(k, r))
  <2> DEFINE stored == [k EXCEPT !.posted = k.posted \ {r},
                                 !.responses = HC!emplace(k.responses, r)]
  <2>1. Same(stored)
    OBVIOUS
  <2>2. HC!OnPosted(k, r) = IF k.writing THEN stored ELSE HC!write(stored)
    BY DEF HC!OnPosted
  <2> HIDE DEF stored, Same
  <2>3. Same(HC!write(stored))
    BY <1>1, <2>1
  <2> QED BY <2>1, <2>2, <2>3
<1>5. Same(HC!OnWritten(k))
  <2> DEFINE response == Head(k.in_flight).response
             sent == [k EXCEPT
                   !.in_flight = Tail(k.in_flight),
                   !.written = Append(k.written, response),
                   !.responses = HC!erase(k.responses, k.next_response_sequence_id),
                   !.next_response_sequence_id = k.next_response_sequence_id + 1]
  <2>1. Same(sent)
    OBVIOUS
  <2>2. HC!OnWritten(k) = IF response.keep_alive THEN HC!write(sent) ELSE HC!close(sent)
    BY DEF HC!OnWritten
  <2> HIDE DEF sent, response, Same
  <2>3. Same(HC!write(sent)) /\ Same(HC!close(sent))
    BY <1>1, <2>1
  <2> QED BY <2>2, <2>3
<1>6. \A m \in {HC!OnAccepted(k), HC!OnRejected(k)} :
         DOMAIN m = DOMAIN k /\ m.next_sequence_id = k.next_sequence_id + 1
  BY Zenon DEF HC!OnAccepted, HC!OnRejected, Counting
<1>7. \A m : Same(m) => Counting(m)
  BY DEF Counting
<1>8. \A m : DOMAIN m = DOMAIN k /\ m.next_sequence_id = k.next_sequence_id + 1 => Counting(m)
  BY DEF Counting
<1> HIDE DEF Same
<1>9. \A m \in {[k EXCEPT !.socket = "open", !.reading = TRUE], HC!OnReadError(k),
                HC!OnPosted(k, r), HC!OnWritten(k), HC!OnWriteError(k),
                [k EXCEPT !.posted = @ \cup {r}]} : Same(m)
  BY <1>2, <1>3, <1>4, <1>5
<1>10. \A m : Same(m) => m.next_sequence_id = k.next_sequence_id
  BY DEF Same
<1> QED BY <1>6, <1>7, <1>8, <1>9, <1>10

\* No connection takes back an id.
CountsRise == \A c \in Connections : conn[c].next_sequence_id <= conn'[c].next_sequence_id

(***************************************************************************)
(* A handler that does not lower the count of its own connection, which    *)
(* alone it changes, keeps all of them counting.                           *)
(***************************************************************************)
LEMMA UpdateCounts ==
    ASSUME ConnectionsCount, NEW c \in Connections, NEW k, HC!Update(c, k), Counting(k),
           conn[c].next_sequence_id <= k.next_sequence_id
    PROVE  ConnectionsCount' /\ CountsRise /\ conn'[c] = k
<1>1. conn' = [conn EXCEPT ![c] = k]
  BY DEF HC!Update
<1>2. \A d \in Connections : conn'[d] = IF d = c THEN k ELSE conn[d]
  BY <1>1 DEF ConnectionsCount
<1>3. DOMAIN conn' = Connections
  BY <1>1 DEF ConnectionsCount
<1>4. \A d \in Connections : conn[d].next_sequence_id \in Nat
  BY DEF ConnectionsCount, Counting
<1> QED BY <1>2, <1>3, <1>4 DEF ConnectionsCount, CountsRise

(***************************************************************************)
(* So do the handlers that pass nothing to the queue.                      *)
(***************************************************************************)
LEMMA ConnectionStepCounts ==
    ASSUME ConnectionsCount, NEW c \in Connections,
           \/ HC!Start(c) \/ HC!ReadRejected(c) \/ HC!ReadError(c) \/ HC!ReadThrows(c)
           \/ HC!RunPosted(c) \/ HC!Written(c) \/ HC!WriteError(c)
    PROVE  ConnectionsCount' /\ CountsRise
<1>1. Counting(conn[c]) /\ conn[c].next_sequence_id \in Nat
  BY DEF ConnectionsCount, Counting
<1>2. CASE HC!ReadThrows(c)
  BY <1>2 DEF HC!ReadThrows, ConnectionsCount, CountsRise, Counting
<1>3. CASE HC!Start(c) \/ HC!ReadError(c) \/ HC!RunPosted(c) \/ HC!Written(c) \/ HC!WriteError(c)
  <2>1. PICK m : /\ HC!Update(c, m)
                 /\ Counting(m) /\ m.next_sequence_id = conn[c].next_sequence_id
    <3>1. CASE HC!RunPosted(c)
      <4>1. PICK r \in conn[c].posted : HC!Update(c, HC!OnPosted(conn[c], r))
        BY <3>1 DEF HC!RunPosted
      <4>2. /\ Counting(HC!OnPosted(conn[c], r))
            /\ HC!OnPosted(conn[c], r).next_sequence_id = conn[c].next_sequence_id
        BY <1>1, HandlersCount, Zenon
      <4> QED BY <4>1, <4>2
    <3>2. CASE HC!Start(c)
      <4> DEFINE k == [conn[c] EXCEPT !.socket = "open", !.reading = TRUE]
      <4>1. HC!Update(c, k)
        BY <3>2 DEF HC!Start
      <4>2. Counting(k) /\ k.next_sequence_id = conn[c].next_sequence_id
        BY <1>1 DEF Counting
      <4> HIDE DEF k
      <4> QED BY <4>1, <4>2
    <3>3. CASE HC!ReadError(c) \/ HC!Written(c) \/ HC!WriteError(c)
      BY <3>3, <1>1, HandlersCount, Zenon DEF HC!ReadError, HC!Written, HC!WriteError
    <3> QED BY <1>3, <3>1, <3>2, <3>3
  <2> QED BY <1>1, <2>1, UpdateCounts
<1>4. CASE HC!ReadRejected(c)
  <2>1. HC!Update(c, HC!OnRejected(conn[c]))
    BY <1>4 DEF HC!ReadRejected
  <2>2. /\ Counting(HC!OnRejected(conn[c]))
        /\ HC!OnRejected(conn[c]).next_sequence_id = conn[c].next_sequence_id + 1
    BY <1>1, HandlersCount, Zenon
  <2> QED BY <1>1, <2>1, <2>2, UpdateCounts
<1> QED BY <1>2, <1>3, <1>4

(***************************************************************************)
(* read() gives the next request of its connection the next id.            *)
(***************************************************************************)
LEMMA AcceptCounts ==
    ASSUME ConnectionsCount, NEW c \in Connections, HC!ReadAccepted(c)
    PROVE  /\ ConnectionsCount' /\ CountsRise
           /\ conn'[c].next_sequence_id = conn[c].next_sequence_id + 1
<1>1. Counting(conn[c]) /\ conn[c].next_sequence_id \in Nat
  BY DEF ConnectionsCount, Counting
<1>2. HC!Update(c, HC!OnAccepted(conn[c]))
  BY DEF HC!ReadAccepted
<1>3. /\ Counting(HC!OnAccepted(conn[c]))
      /\ HC!OnAccepted(conn[c]).next_sequence_id = conn[c].next_sequence_id + 1
  BY <1>1, HandlersCount, Zenon
<1> QED BY <1>1, <1>2, <1>3, UpdateCounts

(***************************************************************************)
(* send_response posts to the strand and reads nothing.                    *)
(***************************************************************************)
LEMMA SendCounts ==
    ASSUME ConnectionsCount, NEW task, task.connection \in Connections, NEW keep_alive,
           HC!send_response(task, keep_alive)
    PROVE  ConnectionsCount' /\ CountsRise
<1> DEFINE c == task.connection
           r == [id |-> task.sequence_id, keep_alive |-> keep_alive, status |-> "answer"]
           k == [conn[c] EXCEPT !.posted = @ \cup {r}]
<1>1. Counting(conn[c]) /\ conn[c].next_sequence_id \in Nat
  BY DEF ConnectionsCount, Counting
<1>2. HC!Update(c, k)
  BY DEF HC!send_response
<1>3. Counting(k) /\ k.next_sequence_id = conn[c].next_sequence_id
  <2> HIDE DEF r, c
  <2> QED BY <1>1, HandlersCount, Zenon
<1> HIDE DEF k
<1> QED BY <1>1, <1>2, <1>3, UpdateCounts

-----------------------------------------------------------------------------
(* The queue. *)

(***************************************************************************)
(* The queue weighs its tasks by the sizes of their bodies, which a size_t *)
(* holds.                                                                  *)
(***************************************************************************)
LEMMA QueueBytes ==
    /\ BodySize \in [RequestTask -> Nat]
    /\ \A s : Q!Bytes(s) = Total(s, BodySize)
<1>1. ASSUME NEW task \in RequestTask PROVE task.bytes \in Nat
  <2>1. PICK c \in Connections : task.bytes \in BodySizes[c]
    BY DEF RequestTask
  <2> QED BY <2>1, ServerAssumption
<1> QED BY <1>1 DEF BodySize, Q!Bytes, Total

(***************************************************************************)
(* A task that try_push_back accepts keeps the limits and the counter, and *)
(* adds the task at the end of a queue that is not stopped.                *)
(***************************************************************************)
LEMMA PushMetered ==
    ASSUME Typed, Metered, NEW task \in RequestTask, Q!try_push_back(task)
    PROVE  /\ Metered' /\ ~stopped /\ stopped' = stopped
           /\ dequeue' = Append(dequeue, task)
<1> DEFINE n == Total(dequeue, BodySize)
           b == task.bytes
<1>1. /\ dequeue' = Append(dequeue, task) /\ ~stopped /\ stopped' = stopped
      /\ Q!pre_addition_check_protocol(task) /\ Q!unchecked_addition_protocol(task)
  BY DEF Q!try_push_back, Q!push_back, Q!pre_addition_check_protocol
<1>2. /\ n \in Nat /\ b \in Nat /\ BodySize[task] = b
      /\ Total(dequeue', BodySize) = n + b
      /\ Len(dequeue) \in Nat /\ Len(dequeue') = Len(dequeue) + 1
  <2>1. dequeue \in Seq(RequestTask) /\ BodySize \in [RequestTask -> Nat]
    BY QueueBytes DEF Typed
  <2>2. n \in Nat /\ Total(Append(dequeue, task), BodySize) = n + BodySize[task]
    BY <2>1, TotalType, TotalAppend
  <2>3. BodySize[task] = b /\ b \in Nat
    BY <2>1 DEF BodySize
  <2> QED BY <1>1, <2>1, <2>2, <2>3, AppendProperties, LenProperties
<1>3. Q!LimitsSize => Len(dequeue') <= max_pending_requests
  BY <1>1, <1>2, ServerAssumption DEF Q!pre_addition_check_protocol, Metered
<1>4. ASSUME Q!LimitsBytes
      PROVE  current_bytes' = n + b /\ n + b <= max_request_bytes
  <2>1. current_bytes = n /\ [t \in RequestTask |-> t.bytes][task] = b
    BY <1>4 DEF Metered
  <2>2. b <= max_request_bytes - n
    BY <1>1, <1>4, <2>1 DEF Q!pre_addition_check_protocol
  <2>3. n + b <= max_request_bytes /\ n + b < SizeMod
    BY <1>2, <2>2, ServerAssumption
  <2>4. current_bytes' = Q!AddSize(n, b)
    BY <1>1, <1>4, <2>1 DEF Q!unchecked_addition_protocol
  <2> QED BY <2>3, <2>4 DEF Q!AddSize
<1> QED BY <1>1, <1>2, <1>3, <1>4 DEF Metered, Q!LimitsSize, Q!LimitsBytes

(***************************************************************************)
(* pop_front keeps the limits and the counter.                             *)
(***************************************************************************)
LEMMA PopMetered ==
    ASSUME Typed, Metered, Q!pop_front
    PROVE  /\ Metered' /\ stopped' = stopped
           /\ dequeue # <<>> /\ dequeue' = Tail(dequeue)
<1> DEFINE n == Total(dequeue, BodySize)
           m == Total(Tail(dequeue), BodySize)
           b == Head(dequeue).bytes
<1>1. /\ dequeue # <<>> /\ dequeue' = Tail(dequeue) /\ stopped' = stopped
      /\ Q!removal_protocol(Head(dequeue))
  BY DEF Q!pop_front
<1>2. /\ n \in Nat /\ m \in Nat /\ b \in Nat /\ n = m + b
      /\ Len(dequeue) \in Nat /\ Len(dequeue') = Len(dequeue) - 1
      /\ Head(dequeue) \in RequestTask
  <2>1. dequeue \in Seq(RequestTask) /\ BodySize \in [RequestTask -> Nat]
    BY QueueBytes DEF Typed
  <2>2. Head(dequeue) \in RequestTask /\ Tail(dequeue) \in Seq(RequestTask)
    BY <1>1, <2>1, HeadTailProperties
  <2>3. n \in Nat /\ m \in Nat /\ n = m + BodySize[Head(dequeue)]
    BY <1>1, <2>1, <2>2, TotalType, TotalTail, Zenon
  <2>4. BodySize[Head(dequeue)] = b /\ b \in Nat
    BY <2>1, <2>2 DEF BodySize
  <2> QED BY <1>1, <2>1, <2>2, <2>3, <2>4, HeadTailProperties, LenProperties
<1>3. Q!LimitsSize => Len(dequeue') <= max_pending_requests
  BY <1>2, ServerAssumption DEF Metered
<1>4. ASSUME Q!LimitsBytes
      PROVE  current_bytes' = m /\ m <= max_request_bytes
  <2>1. current_bytes = n /\ n <= max_request_bytes
    BY <1>4 DEF Metered
  <2>2. [t \in RequestTask |-> t.bytes][Head(dequeue)] = b
    BY <1>2
  <2>3. current_bytes' = Q!SubSize(n, b)
    BY <1>1, <1>4, <2>1, <2>2 DEF Q!removal_protocol
  <2> QED BY <1>2, <2>1, <2>3, ServerAssumption DEF Q!SubSize
<1> QED BY <1>1, <1>3, <1>4 DEF Metered, Q!LimitsSize, Q!LimitsBytes

-----------------------------------------------------------------------------
(* The invariant is inductive. *)

(***************************************************************************)
(* What is queued and what a worker holds are request_tasks.               *)
(***************************************************************************)
LEMMA TaskFields ==
    ASSUME Typed
    PROVE  /\ \A task \in RequestTask : task.connection \in Connections /\ task.sequence_id \in Nat
           /\ \A i \in DOMAIN dequeue : dequeue[i] \in RequestTask
           /\ DOMAIN dequeue = 1 .. Len(dequeue) /\ Len(dequeue) \in Nat
           /\ \A w \in Workers : holding[w] # <<>> =>
                 Head(holding[w]) \in RequestTask /\ holding[w] = <<Head(holding[w])>>
<1>1. \A task \in RequestTask : task.connection \in Connections /\ task.sequence_id \in Nat
  BY ServerAssumption DEF RequestTask
<1>2. /\ \A i \in DOMAIN dequeue : dequeue[i] \in RequestTask
      /\ DOMAIN dequeue = 1 .. Len(dequeue) /\ Len(dequeue) \in Nat
  BY ElementOfSeq, LenProperties DEF Typed
<1>3. ASSUME NEW w \in Workers, holding[w] # <<>>
      PROVE  Head(holding[w]) \in RequestTask /\ holding[w] = <<Head(holding[w])>>
  <2>1. PICK task \in RequestTask : holding[w] = <<task>>
    BY <1>3 DEF Typed
  <2> QED BY <2>1
<1> QED BY <1>1, <1>2, <1>3

(***************************************************************************)
(* A step that touches neither the queue nor the workers.                  *)
(***************************************************************************)
LEMMA ConnectionStep ==
    ASSUME IInv, UNCHANGED <<queue, holding, exited>>, ConnectionsCount', CountsRise,
           phase' = "stopped" => exited = Workers
    PROVE  IInv'
<1>1. UNCHANGED <<dequeue, stopped, current_bytes, holding, exited>>
  BY DEF queue
<1>2. Typed' /\ Metered' /\ HeldApart' /\ QueueOrder' /\ Leaving'
  BY <1>1 DEF IInv, Typed, Metered, HeldApart, QueueOrder, Leaving, Q!LimitsSize, Q!LimitsBytes
<1>3. IdsUsed'
  <2>1. \A task \in RequestTask :
           task.sequence_id < conn[task.connection].next_sequence_id =>
               task.sequence_id < conn'[task.connection].next_sequence_id
    <3> SUFFICES ASSUME NEW task \in RequestTask,
                        task.sequence_id < conn[task.connection].next_sequence_id
                 PROVE  task.sequence_id < conn'[task.connection].next_sequence_id
      OBVIOUS
    <3>1. task.connection \in Connections /\ task.sequence_id \in Nat
      BY TaskFields DEF IInv
    <3>2. /\ conn[task.connection].next_sequence_id \in Nat
          /\ conn'[task.connection].next_sequence_id \in Nat
          /\ conn[task.connection].next_sequence_id <= conn'[task.connection].next_sequence_id
      BY <3>1 DEF IInv, ConnectionsCount, Counting, CountsRise
    <3> QED BY <3>1, <3>2
  <2> QED BY <1>1, <2>1, TaskFields DEF IInv, IdsUsed
<1> QED BY <1>2, <1>3 DEF IInv

(***************************************************************************)
(* The queue accepts a request.                                            *)
(***************************************************************************)
LEMMA AcceptStep ==
    ASSUME IInv, NEW c \in Connections, HC!ReadAccepted(c), NEW bytes \in BodySizes[c],
           Q!try_push_back([connection |-> c, sequence_id |-> conn[c].next_sequence_id,
                            bytes |-> bytes]),
           UNCHANGED <<holding, exited, phase>>
    PROVE  IInv'
<1> DEFINE task == [connection |-> c, sequence_id |-> conn[c].next_sequence_id, bytes |-> bytes]
           n == Len(dequeue)
<1>1. task \in RequestTask
  <2>1. conn[c].next_sequence_id \in Nat /\ conn[c].next_sequence_id < MaxRequests
    BY DEF HC!ReadAccepted, HC!RequestRead, IInv, ConnectionsCount, Counting
  <2>2. bytes \in UNION {BodySizes[d] : d \in Connections}
    OBVIOUS
  <2> QED BY <2>1, <2>2, ServerAssumption DEF RequestTask
<1>2. task.connection = c /\ task.sequence_id = conn[c].next_sequence_id
  OBVIOUS
<1>3. /\ Metered' /\ ~stopped /\ stopped' = stopped
      /\ dequeue' = Append(dequeue, task)
  BY <1>1, PushMetered DEF IInv
<1>4. /\ ConnectionsCount' /\ CountsRise
      /\ conn'[c].next_sequence_id = conn[c].next_sequence_id + 1
  BY AcceptCounts DEF IInv
<1> HIDE DEF task
<1>5. /\ dequeue \in Seq(RequestTask) /\ n \in Nat
      /\ dequeue' \in Seq(RequestTask) /\ Len(dequeue') = n + 1
      /\ DOMAIN dequeue = 1 .. n /\ DOMAIN dequeue' = 1 .. n + 1
      /\ \A i \in 1 .. n : dequeue'[i] = dequeue[i] /\ dequeue[i] \in RequestTask
      /\ dequeue'[n + 1] = task
  BY <1>1, <1>3, TaskFields, AppendProperties, LenProperties DEF IInv, Typed
<1>6. Typed'
  BY <1>5 DEF IInv, Typed
<1>7. /\ \A i \in 1 .. n : dequeue[i].connection \in Connections /\ dequeue[i].sequence_id \in Nat
      /\ \A w \in Workers : holding[w] # <<>> =>
            Head(holding[w]).connection \in Connections /\ Head(holding[w]).sequence_id \in Nat
  BY <1>5, TaskFields DEF IInv
<1>8. \A d \in Connections : /\ conn[d].next_sequence_id \in Nat
                             /\ conn'[d].next_sequence_id \in Nat
                             /\ conn[d].next_sequence_id <= conn'[d].next_sequence_id
  BY <1>4 DEF IInv, ConnectionsCount, Counting, CountsRise
<1>9. IdsUsed'
  <2>1. ASSUME NEW i \in 1 .. n + 1
        PROVE  dequeue'[i].sequence_id < conn'[dequeue'[i].connection].next_sequence_id
    <3>1. CASE i = n + 1
      BY <3>1, <1>2, <1>4, <1>5, <1>8
    <3>2. CASE i \in 1 .. n
      <4>1. dequeue[i].sequence_id < conn[dequeue[i].connection].next_sequence_id
        BY <3>2, <1>5 DEF IInv, IdsUsed
      <4> QED BY <3>2, <4>1, <1>5, <1>7, <1>8
    <3> QED BY <3>1, <3>2, <1>5
  <2>2. ASSUME NEW w \in Workers, holding[w] # <<>>
        PROVE  Head(holding[w]).sequence_id < conn'[Head(holding[w]).connection].next_sequence_id
    <3>1. Head(holding[w]).sequence_id < conn[Head(holding[w]).connection].next_sequence_id
      BY <2>2 DEF IInv, IdsUsed
    <3> QED BY <2>2, <3>1, <1>7, <1>8
  <2> QED BY <2>1, <2>2, <1>5 DEF IdsUsed
<1>10. QueueOrder'
  <2>1. ASSUME NEW i \in 1 .. n + 1, NEW j \in 1 .. n + 1, i < j,
               dequeue'[i].connection = dequeue'[j].connection
        PROVE  dequeue'[i].sequence_id < dequeue'[j].sequence_id
    <3>1. i \in 1 .. n
      BY <2>1, <1>5
    <3>2. CASE j \in 1 .. n
      BY <2>1, <3>1, <3>2, <1>5 DEF IInv, QueueOrder
    <3>3. CASE j = n + 1
      <4>1. dequeue[i].sequence_id < conn[dequeue[i].connection].next_sequence_id
        BY <3>1, <1>5 DEF IInv, IdsUsed
      <4> QED BY <2>1, <3>1, <3>3, <4>1, <1>2, <1>5
    <3> QED BY <3>2, <3>3, <1>5
  <2>2. ASSUME NEW w \in Workers, NEW i \in 1 .. n + 1, holding[w] # <<>>,
               Head(holding[w]).connection = dequeue'[i].connection
        PROVE  Head(holding[w]).sequence_id < dequeue'[i].sequence_id
    <3>1. CASE i \in 1 .. n
      BY <2>2, <3>1, <1>5 DEF IInv, QueueOrder
    <3>2. CASE i = n + 1
      <4>1. Head(holding[w]).sequence_id < conn[Head(holding[w]).connection].next_sequence_id
        BY <2>2 DEF IInv, IdsUsed
      <4> QED BY <2>2, <3>2, <4>1, <1>2, <1>5
    <3> QED BY <3>1, <3>2, <1>5
  <2> QED BY <2>1, <2>2, <1>5 DEF QueueOrder
<1>11. HeldApart' /\ Leaving'
  BY <1>3 DEF IInv, HeldApart, Leaving
<1> QED BY <1>3, <1>4, <1>6, <1>9, <1>10, <1>11 DEF IInv

(***************************************************************************)
(* wait_and_pop returns a task, which passes from the head of the queue to *)
(* the worker; or nullopt, and the worker leaves.                          *)
(***************************************************************************)
LEMMA PopStep ==
    ASSUME IInv, NEW w \in Workers, holding[w] = <<>>, Q!pop_front,
           holding' = [holding EXCEPT ![w] = <<Head(dequeue)>>],
           UNCHANGED <<conn, aborted, exited, phase>>
    PROVE  IInv'
<1> DEFINE n == Len(dequeue)
           first == dequeue[1]
<1>1. /\ Metered' /\ stopped' = stopped
      /\ dequeue # <<>> /\ dequeue' = Tail(dequeue)
  BY PopMetered DEF IInv
<1>2. /\ dequeue \in Seq(RequestTask) /\ n \in Nat \ {0}
      /\ dequeue' \in Seq(RequestTask) /\ Head(dequeue) = first
      /\ DOMAIN dequeue = 1 .. n /\ DOMAIN dequeue' = 1 .. n - 1
      /\ \A i \in 1 .. n - 1 : i + 1 \in 1 .. n /\ dequeue'[i] = dequeue[i + 1]
      /\ \A i \in 1 .. n : dequeue[i] \in RequestTask
  <2>1. dequeue \in Seq(RequestTask) /\ n \in Nat /\ DOMAIN dequeue = 1 .. n
        /\ \A i \in 1 .. n : dequeue[i] \in RequestTask
    BY TaskFields DEF IInv, Typed
  <2>2. n # 0
    BY <1>1, <2>1, EmptySeq
  <2>3. /\ Tail(dequeue) \in Seq(RequestTask) /\ Len(Tail(dequeue)) = n - 1
        /\ \A i \in 1 .. n - 1 : Tail(dequeue)[i] = dequeue[i + 1]
    BY <1>1, <2>1, <2>2, HeadTailProperties
  <2>4. DOMAIN Tail(dequeue) = 1 .. n - 1
    BY <2>3, LenProperties
  <2>5. \A i \in 1 .. n - 1 : i + 1 \in 1 .. n
    BY <2>1
  <2> QED BY <1>1, <2>1, <2>2, <2>3, <2>4, <2>5
<1>3. first \in RequestTask /\ 1 \in 1 .. n
  BY <1>2
<1> HIDE DEF first, n
<1>4. \A v \in Workers : holding'[v] = IF v = w THEN <<first>> ELSE holding[v]
  BY <1>2 DEF IInv, Typed
<1>5. Head(<<first>>) = first /\ <<first>> # <<>>
  OBVIOUS
<1>6. Typed'
  BY <1>2, <1>3 DEF IInv, Typed
<1>7. ConnectionsCount' /\ IdsUsed'
  <2>1. \A i \in 1 .. n - 1 : dequeue'[i].sequence_id < conn[dequeue'[i].connection].next_sequence_id
    BY <1>2, ZenonT(30) DEF IInv, IdsUsed
  <2>2. \A v \in Workers : holding'[v] # <<>> =>
           Head(holding'[v]).sequence_id < conn[Head(holding'[v]).connection].next_sequence_id
    <3>1. first.sequence_id < conn[first.connection].next_sequence_id
      BY <1>2, <1>3 DEF IInv, IdsUsed, first
    <3> QED BY <3>1, <1>4, <1>5 DEF IInv, IdsUsed
  <2> QED BY <1>2, <2>1, <2>2 DEF IInv, IdsUsed, ConnectionsCount
<1>8. \A v \in Workers :
         holding[v] # <<>> /\ Head(holding[v]).connection = first.connection =>
             /\ Head(holding[v]).sequence_id < first.sequence_id
             /\ Head(holding[v]).sequence_id # first.sequence_id
  <2> SUFFICES ASSUME NEW v \in Workers, holding[v] # <<>>,
                      Head(holding[v]).connection = first.connection
               PROVE  /\ Head(holding[v]).sequence_id < first.sequence_id
                      /\ Head(holding[v]).sequence_id # first.sequence_id
    OBVIOUS
  <2>1. Head(holding[v]).sequence_id < first.sequence_id
    BY <1>2, <1>3, ZenonT(30) DEF IInv, QueueOrder, first
  <2>2. Head(holding[v]).sequence_id \in Nat /\ first.sequence_id \in Nat
    BY <1>3, TaskFields DEF IInv
  <2> QED BY <2>1, <2>2
<1>9. HeldApart'
  <2> SUFFICES ASSUME NEW u \in Workers, NEW v \in Workers, u # v,
                      holding'[u] # <<>>, holding'[v] # <<>>,
                      Head(holding'[u]).connection = Head(holding'[v]).connection
               PROVE  Head(holding'[u]).sequence_id # Head(holding'[v]).sequence_id
    BY DEF HeldApart
  <2>1. CASE u = w
    BY <2>1, <1>4, <1>5, <1>8
  <2>2. CASE v = w
    BY <2>2, <1>4, <1>5, <1>8
  <2>3. CASE u # w /\ v # w
    BY <2>3, <1>4 DEF IInv, HeldApart
  <2> QED BY <2>1, <2>2, <2>3
<1>10. QueueOrder'
  <2>1. ASSUME NEW i \in 1 .. n - 1, NEW j \in 1 .. n - 1, i < j,
               dequeue'[i].connection = dequeue'[j].connection
        PROVE  dequeue'[i].sequence_id < dequeue'[j].sequence_id
    <3>1. i + 1 \in DOMAIN dequeue /\ j + 1 \in DOMAIN dequeue /\ i + 1 < j + 1
      BY <2>1, <1>2
    <3>2. dequeue'[i] = dequeue[i + 1] /\ dequeue'[j] = dequeue[j + 1]
      BY <1>2
    <3> QED BY <2>1, <3>1, <3>2 DEF IInv, QueueOrder
  <2>2. ASSUME NEW v \in Workers, NEW i \in 1 .. n - 1, holding'[v] # <<>>,
               Head(holding'[v]).connection = dequeue'[i].connection
        PROVE  Head(holding'[v]).sequence_id < dequeue'[i].sequence_id
    <3>1. i + 1 \in DOMAIN dequeue /\ 1 \in DOMAIN dequeue /\ 1 < i + 1
      BY <1>2
    <3>2. dequeue'[i] = dequeue[i + 1]
      BY <1>2
    <3>3. CASE v = w
      <4>1. Head(holding'[v]) = first
        BY <3>3, <1>4, <1>5
      <4> QED BY <2>2, <3>1, <3>2, <4>1 DEF IInv, QueueOrder, first
    <3>4. CASE v # w
      BY <2>2, <3>1, <3>2, <3>4, <1>4 DEF IInv, QueueOrder
    <3> QED BY <3>3, <3>4
  <2> QED BY <1>2, <2>1, <2>2, Zenon DEF QueueOrder
<1>11. Leaving'
  <2>1. exited = {} /\ exited' = {}
    BY <1>1 DEF IInv, Leaving
  <2>2. phase' # "stopped"
    BY <2>1 DEF IInv, Leaving
  <2> QED BY <2>1, <2>2 DEF Leaving
<1> QED BY <1>1, <1>6, <1>7, <1>9, <1>10, <1>11 DEF IInv

(***************************************************************************)
(* The whole of wait_and_pop, with and without a task.                     *)
(***************************************************************************)
LEMMA TakeStep ==
    ASSUME IInv, NEW w \in Workers, Take(w)
    PROVE  IInv'
<1>1. CASE dequeue = <<>>
  <2>1. /\ UNCHANGED <<conn, dequeue, stopped, current_bytes, holding, phase>>
        /\ exited' = exited \cup {w} /\ stopped /\ holding[w] = <<>>
    BY <1>1 DEF Take, Q!FinishWait, Q!WaitPredicate, Q!data, Q!pop_front
  <2>2. Typed' /\ Metered' /\ ConnectionsCount' /\ IdsUsed' /\ HeldApart' /\ QueueOrder'
    BY <2>1 DEF IInv, Typed, Metered, ConnectionsCount, IdsUsed, HeldApart, QueueOrder,
                Q!LimitsSize, Q!LimitsBytes
  <2>3. Leaving'
    BY <1>1, <2>1 DEF IInv, Leaving, Typed
  <2> QED BY <2>2, <2>3 DEF IInv
<1>2. CASE dequeue # <<>>
  BY <1>2, PopStep DEF Take, Q!FinishWait
<1> QED BY <1>1, <1>2

(***************************************************************************)
(* A worker posts its answer and has nothing in hand.                      *)
(***************************************************************************)
LEMMA RespondStep ==
    ASSUME IInv, NEW w \in Workers, Respond(w)
    PROVE  IInv'
<1>1. /\ UNCHANGED <<dequeue, stopped, current_bytes, exited, phase>>
      /\ holding' = [holding EXCEPT ![w] = <<>>] /\ holding[w] # <<>>
  BY DEF Respond, queue
<1>2. \A v \in Workers : holding'[v] = IF v = w THEN <<>> ELSE holding[v]
  BY <1>1 DEF IInv, Typed
<1>3. ConnectionsCount' /\ CountsRise
  <2>1. Head(holding[w]).connection \in Connections
    BY <1>1, TaskFields DEF IInv
  <2>2. PICK keep_alive \in BOOLEAN : HC!send_response(Head(holding[w]), keep_alive)
    BY DEF Respond
  <2> QED BY <2>1, <2>2, SendCounts DEF IInv
<1>4. Typed' /\ Metered'
  BY <1>1 DEF IInv, Typed, Metered, Q!LimitsSize, Q!LimitsBytes
<1>5. \A task \in RequestTask :
         task.sequence_id < conn[task.connection].next_sequence_id =>
             task.sequence_id < conn'[task.connection].next_sequence_id
  <2> SUFFICES ASSUME NEW task \in RequestTask,
                      task.sequence_id < conn[task.connection].next_sequence_id
               PROVE  task.sequence_id < conn'[task.connection].next_sequence_id
    OBVIOUS
  <2>1. task.connection \in Connections /\ task.sequence_id \in Nat
    BY TaskFields DEF IInv
  <2>2. /\ conn[task.connection].next_sequence_id \in Nat
        /\ conn'[task.connection].next_sequence_id \in Nat
        /\ conn[task.connection].next_sequence_id <= conn'[task.connection].next_sequence_id
    BY <2>1, <1>3 DEF IInv, ConnectionsCount, Counting, CountsRise
  <2> QED BY <2>1, <2>2
<1>6. IdsUsed'
  <2>1. \A i \in DOMAIN dequeue :
           dequeue[i].sequence_id < conn'[dequeue[i].connection].next_sequence_id
    BY <1>5, TaskFields DEF IInv, IdsUsed
  <2>2. \A v \in Workers : holding'[v] # <<>> =>
           Head(holding'[v]).sequence_id < conn'[Head(holding'[v]).connection].next_sequence_id
    BY <1>2, <1>5, TaskFields DEF IInv, IdsUsed
  <2> QED BY <1>1, <2>1, <2>2 DEF IdsUsed
<1>7. HeldApart' /\ QueueOrder'
  BY <1>1, <1>2 DEF IInv, HeldApart, QueueOrder
<1>8. Leaving'
  BY <1>1, <1>2 DEF IInv, Leaving, Typed
<1> QED BY <1>3, <1>4, <1>6, <1>7, <1>8 DEF IInv

(***************************************************************************)
(* The constructor establishes the invariant.                              *)
(***************************************************************************)
LEMMA InitIInv == Init => IInv
<1> SUFFICES ASSUME Init PROVE IInv
  OBVIOUS
<1>1. /\ dequeue = <<>> /\ stopped = FALSE /\ current_bytes = 0
      /\ holding = [w \in Workers |-> <<>>] /\ exited = {} /\ phase = "constructed"
      /\ conn = [c \in Connections |-> HC!NewConnection]
  BY DEF Init, Q!DataInit, HC!Init
<1>2. Typed
  BY <1>1 DEF Typed
<1>3. Metered
  <2>1. Total(<<>>, BodySize) = 0
    BY QueueBytes, TotalEmpty
  <2> QED BY <1>1, <2>1, ServerAssumption DEF Metered
<1>4. ConnectionsCount
  BY <1>1 DEF ConnectionsCount, Counting, HC!NewConnection
<1>5. IdsUsed /\ HeldApart /\ QueueOrder /\ Leaving
  BY <1>1 DEF IdsUsed, HeldApart, QueueOrder, Leaving
<1> QED BY <1>2, <1>3, <1>4, <1>5 DEF IInv

(***************************************************************************)
(* Every handler, every iteration of worker_loop and every part of stop()  *)
(* keeps it.                                                               *)
(***************************************************************************)
LEMMA NextIInv == IInv /\ [Next]_vars => IInv'
<1> SUFFICES ASSUME IInv, [Next]_vars PROVE IInv'
  OBVIOUS
<1>1. ASSUME UNCHANGED conn PROVE ConnectionsCount' /\ CountsRise
  BY <1>1 DEF IInv, ConnectionsCount, CountsRise, Counting
<1>2. phase = "stopped" => exited = Workers
  BY DEF IInv, Leaving
<1>3. CASE launch \/ StopContext \/ JoinWorkers
  <2>1. /\ UNCHANGED conn /\ UNCHANGED <<queue, holding, exited>>
        /\ phase' = "stopped" => exited = Workers
    BY <1>3 DEF launch, StopContext, JoinWorkers
  <2> QED BY <1>1, <2>1, ConnectionStep
<1>4. ASSUME NEW c \in Connections,
             start_accept_async(c) \/ AcceptThrows(c) \/ Strand(c) \/ ReadFails(c)
      PROVE  IInv'
  <2>1. UNCHANGED <<queue, holding, exited>> /\ phase' = phase
    BY <1>4 DEF start_accept_async, AcceptThrows, Strand, ReadFails
  <2>2. ConnectionsCount' /\ CountsRise
    <3>1. CASE AcceptThrows(c)
      BY <1>1, <3>1 DEF AcceptThrows
    <3>2. CASE start_accept_async(c) \/ Strand(c) \/ ReadFails(c)
      BY <3>2, ConnectionStepCounts DEF IInv, start_accept_async, Strand, ReadFails
    <3> QED BY <1>4, <3>1, <3>2
  <2> QED BY <1>2, <2>1, <2>2, ConnectionStep
<1>5. ASSUME NEW c \in Connections, Read(c) PROVE IInv'
  <2>1. PICK bytes \in BodySizes[c] :
           LET task == [connection |-> c, sequence_id |-> conn[c].next_sequence_id,
                        bytes |-> bytes]
           IN  \/ HC!ReadAccepted(c) /\ Q!try_push_back(task)
               \/ HC!ReadRejected(c) /\ UNCHANGED queue
    BY <1>5 DEF Read
  <2>2. UNCHANGED <<holding, exited, phase>>
    BY <1>5 DEF Read
  <2>3. CASE HC!ReadRejected(c) /\ UNCHANGED queue
    <3>1. ConnectionsCount' /\ CountsRise
      BY <2>3, ConnectionStepCounts DEF IInv
    <3> QED BY <1>2, <2>2, <2>3, <3>1, ConnectionStep
  <2>4. CASE /\ HC!ReadAccepted(c)
             /\ Q!try_push_back([connection |-> c, sequence_id |-> conn[c].next_sequence_id,
                                 bytes |-> bytes])
    BY <2>2, <2>4, AcceptStep
  <2> QED BY <2>1, <2>3, <2>4
<1>6. ASSUME NEW w \in Workers, ProcessThrows(w) PROVE IInv'
  <2>1. UNCHANGED <<queue, holding, exited>> /\ UNCHANGED conn /\ phase' = phase
    BY <1>6 DEF ProcessThrows
  <2> QED BY <1>1, <1>2, <2>1, ConnectionStep
<1>7. CASE StopQueue
  <2>1. UNCHANGED <<conn, dequeue, current_bytes, holding, exited>>
        /\ stopped' = TRUE /\ phase' = "queue_stopped"
    BY <1>7 DEF StopQueue, Q!stop
  <2>2. Typed' /\ Metered' /\ ConnectionsCount' /\ IdsUsed' /\ HeldApart' /\ QueueOrder'
    BY <2>1 DEF IInv, Typed, Metered, ConnectionsCount, IdsUsed, HeldApart, QueueOrder,
                Q!LimitsSize, Q!LimitsBytes
  <2>3. Leaving'
    BY <2>1 DEF IInv, Leaving
  <2> QED BY <2>2, <2>3 DEF IInv
<1>8. CASE UNCHANGED vars
  <2>1. UNCHANGED conn /\ UNCHANGED <<queue, holding, exited>> /\ phase' = phase
    BY <1>8 DEF vars
  <2> QED BY <1>1, <1>2, <2>1, ConnectionStep
<1> QED BY <1>3, <1>4, <1>5, <1>6, <1>7, <1>8, TakeStep, RespondStep DEF Next, Stop

(***************************************************************************)
(* So it holds throughout.                                                 *)
(***************************************************************************)
LEMMA Invariance == Spec => []IInv
<1> QED BY InitIInv, NextIInv, PTL DEF Spec

-----------------------------------------------------------------------------
(* The requests on their way through the server. *)

Key(task) == [connection |-> task.connection, sequence_id |-> task.sequence_id]
QueuedKeys == {Key(dequeue[i]) : i \in DOMAIN dequeue}
Busy == {w \in Workers : holding[w] # <<>>}
HeldKeys == {Key(Head(holding[w])) : w \in Busy}

TasksSplit == Tasks = QueuedKeys \cup HeldKeys

(***************************************************************************)
(* The requests between read() and send_response() are those queued and    *)
(* those in the hands of the workers.                                      *)
(***************************************************************************)
LEMMA TasksQueuedOrHeld == Typed => TasksSplit
<1> SUFFICES ASSUME Typed PROVE Tasks = QueuedKeys \cup HeldKeys
  BY DEF TasksSplit
<1>1. ASSUME NEW w \in Workers
      PROVE  Elements(holding[w]) = IF w \in Busy THEN {Head(holding[w])} ELSE {}
  <2>1. CASE holding[w] = <<>>
    BY <2>1 DEF Elements, Busy
  <2>2. CASE holding[w] # <<>>
    <3>1. PICK task : holding[w] = <<task>>
      BY <2>2, TaskFields
    <3> QED BY <2>2, <3>1 DEF Elements, Busy
  <2> QED BY <2>1, <2>2
<1>2. UNION {Elements(holding[w]) : w \in Workers} = {Head(holding[w]) : w \in Busy}
  <2>1. ASSUME NEW x \in UNION {Elements(holding[w]) : w \in Workers}
        PROVE  x \in {Head(holding[w]) : w \in Busy}
    <3>1. PICK w \in Workers : x \in Elements(holding[w])
      OBVIOUS
    <3> QED BY <3>1, <1>1, Zenon
  <2>2. ASSUME NEW x \in {Head(holding[w]) : w \in Busy}
        PROVE  x \in UNION {Elements(holding[w]) : w \in Workers}
    <3>1. PICK w \in Busy : x = Head(holding[w])
      OBVIOUS
    <3>2. w \in Workers
      BY DEF Busy
    <3> QED BY <3>1, <3>2, <1>1, Zenon
  <2> QED BY <2>1, <2>2
<1>3. Tasks = {Key(task) : task \in Elements(dequeue) \cup {Head(holding[w]) : w \in Busy}}
  BY <1>2, Zenon DEF Tasks, Key
<1> QED BY <1>3, Zenon DEF Elements, QueuedKeys, HeldKeys

(***************************************************************************)
(* Requests are taken from the queue in the order their connection read    *)
(* them: worker_loop and try_push_back never let one overtake another.     *)
(***************************************************************************)
THEOREM InOrder == Spec => []TakenInOrder
<1>1. IInv => TakenInOrder
  <2> SUFFICES ASSUME IInv PROVE TakenInOrder
    OBVIOUS
  <2>1. ASSUME NEW w \in Workers, NEW t1 \in Elements(holding[w]), NEW t2 \in Elements(dequeue),
               t1.connection = t2.connection
        PROVE  t1.sequence_id < t2.sequence_id
    <3>1. PICK i \in DOMAIN dequeue : t2 = dequeue[i]
      BY DEF Elements
    <3>2. holding[w] # <<>> /\ t1 = Head(holding[w])
      <4>1. holding[w] # <<>>
        BY DEF Elements
      <4>2. PICK task : holding[w] = <<task>>
        BY <4>1, TaskFields DEF IInv
      <4> QED BY <4>1, <4>2 DEF Elements
    <3> QED BY <2>1, <3>1, <3>2 DEF IInv, QueueOrder
  <2> QED BY <2>1 DEF IInv, QueueOrder, TakenInOrder
<1> QED BY <1>1, Invariance, PTL

(***************************************************************************)
(* When stop() has joined the workers, no accepted request is left.        *)
(***************************************************************************)
THEOREM Drains == Spec => []StopDrains
<1>1. IInv => StopDrains
  <2> SUFFICES ASSUME IInv, phase = "stopped"
               PROVE  exited = Workers /\ (Workers # {} => dequeue = <<>> /\ Tasks = {})
    BY DEF StopDrains
  <2>1. exited = Workers
    BY DEF IInv, Leaving
  <2>2. ASSUME Workers # {} PROVE dequeue = <<>> /\ Tasks = {}
    <3>1. dequeue = <<>> /\ Busy = {}
      BY <2>1, <2>2 DEF IInv, Leaving, Busy
    <3>2. QueuedKeys = {} /\ HeldKeys = {}
      BY <3>1 DEF QueuedKeys, HeldKeys
    <3> QED BY <3>1, <3>2, TasksQueuedOrHeld DEF IInv, TasksSplit
  <2> QED BY <2>1, <2>2
<1> QED BY <1>1, Invariance, PTL

(***************************************************************************)
(* A function has no more values than arguments.                           *)
(***************************************************************************)
LEMMA ImageBound ==
    ASSUME NEW S, IsFiniteSet(S), NEW f, DOMAIN f = S
    PROVE  LET T == {f[x] : x \in S}
           IN  IsFiniteSet(T) /\ Cardinality(T) <= Cardinality(S)
<1> DEFINE T == {f[x] : x \in S}
           g == [x \in S |-> f[x]]
<1>1. g \in Surjection(S, T)
  BY DEF Surjection
<1> HIDE DEF g, T
<1>2. IsFiniteSet(T) /\ Cardinality(T) <= Cardinality(S)
  BY <1>1, FS_Surjection
<1> QED BY <1>2 DEF T

(***************************************************************************)
(* max_pending_requests and max_request_bytes bound what waits for a       *)
(* worker, and with the workers what is not answered.                      *)
(***************************************************************************)
THEOREM Bounded == Spec => []UnansweredBounded
<1>1. IInv => UnansweredBounded
  <2> SUFFICES ASSUME IInv PROVE UnansweredBounded
    OBVIOUS
  <2>1. /\ Q!LimitsSize => Len(dequeue) <= max_pending_requests
        /\ Q!LimitsBytes => Q!Bytes(dequeue) <= max_request_bytes
    BY QueueBytes DEF IInv, Metered
  <2>2. IsFiniteSet(QueuedKeys) /\ Cardinality(QueuedKeys) <= Len(dequeue)
    <3> DEFINE f == [i \in 1 .. Len(dequeue) |-> Key(dequeue[i])]
    <3>1. Len(dequeue) \in Nat /\ DOMAIN dequeue = 1 .. Len(dequeue)
      BY TaskFields DEF IInv
    <3>2. IsFiniteSet(1 .. Len(dequeue)) /\ Cardinality(1 .. Len(dequeue)) = Len(dequeue)
      <4>1. 1 \in Int /\ Len(dequeue) \in Int
        BY <3>1
      <4>2. /\ IsFiniteSet(1 .. Len(dequeue))
            /\ Cardinality(1 .. Len(dequeue)) =
                  IF 1 > Len(dequeue) THEN 0 ELSE Len(dequeue) - 1 + 1
        BY <4>1, FS_Interval
      <4> QED BY <3>1, <4>2
    <3>3. QueuedKeys = {f[i] : i \in 1 .. Len(dequeue)} /\ DOMAIN f = 1 .. Len(dequeue)
      BY <3>1 DEF QueuedKeys
    <3> HIDE DEF f
    <3> QED BY <3>2, <3>3, ImageBound
  <2>3. IsFiniteSet(HeldKeys) /\ Cardinality(HeldKeys) <= Cardinality(Workers)
    <3> DEFINE f == [w \in Busy |-> Key(Head(holding[w]))]
    <3>1. /\ IsFiniteSet(Busy) /\ IsFiniteSet(Workers)
          /\ Cardinality(Busy) <= Cardinality(Workers)
      BY FS_Subset, ServerAssumption DEF Busy
    <3>2. HeldKeys = {f[w] : w \in Busy} /\ DOMAIN f = Busy
      BY DEF HeldKeys
    <3> HIDE DEF f
    <3>3. IsFiniteSet(HeldKeys) /\ Cardinality(HeldKeys) <= Cardinality(Busy)
      BY <3>1, <3>2, ImageBound
    <3>4. Cardinality(HeldKeys) \in Nat /\ Cardinality(Busy) \in Nat /\ Cardinality(Workers) \in Nat
      BY <3>1, <3>3, FS_CardinalityType
    <3> QED BY <3>1, <3>3, <3>4
  <2>4. Cardinality(Tasks) <= Len(dequeue) + Cardinality(Workers)
    <3>1. Tasks = QueuedKeys \cup HeldKeys
      BY TasksQueuedOrHeld DEF IInv, TasksSplit
    <3>2. Cardinality(Tasks) = Cardinality(QueuedKeys) + Cardinality(HeldKeys)
                                 - Cardinality(QueuedKeys \cap HeldKeys)
      BY <2>2, <2>3, <3>1, FS_Union
    <3>3. IsFiniteSet(QueuedKeys \cap HeldKeys)
      BY <2>2, FS_Subset
    <3>4. /\ Cardinality(QueuedKeys) \in Nat /\ Cardinality(HeldKeys) \in Nat
          /\ Cardinality(QueuedKeys \cap HeldKeys) \in Nat
          /\ Cardinality(Workers) \in Nat /\ Len(dequeue) \in Nat
      BY <2>2, <2>3, <3>3, FS_CardinalityType, ServerAssumption, TaskFields DEF IInv
    <3> QED BY <2>2, <2>3, <3>2, <3>4
  <2>5. /\ Cardinality(Workers) \in Nat /\ Len(dequeue) \in Nat
        /\ Cardinality(Tasks) \in Nat /\ max_pending_requests \in Nat
    <3>1. IsFiniteSet(Tasks)
      BY <2>2, <2>3, TasksQueuedOrHeld, FS_Union, ZenonT(30) DEF IInv, TasksSplit
    <3> QED BY <3>1, FS_CardinalityType, ServerAssumption, TaskFields DEF IInv
  <2> QED BY <2>1, <2>4, <2>5 DEF UnansweredBounded
<1> QED BY <1>1, Invariance, PTL

-----------------------------------------------------------------------------
(* The refinement of HttpConnection. *)

(***************************************************************************)
(* A step that moves no task leaves them all where they are.               *)
(***************************************************************************)
LEMMA SameTasks ==
    ASSUME UNCHANGED <<queue, holding>>
    PROVE  Tasks' = Tasks
BY DEF queue, Tasks, Elements

(***************************************************************************)
(* try_push_back adds one task to those on their way.                      *)
(***************************************************************************)
LEMMA AcceptTasks ==
    ASSUME Typed, Typed', NEW task \in RequestTask, dequeue' = Append(dequeue, task),
           UNCHANGED holding
    PROVE  Tasks' = Tasks \cup {Key(task)}
<1>1. HeldKeys' = HeldKeys
  BY DEF HeldKeys, Busy
<1>2. QueuedKeys' = QueuedKeys \cup {Key(task)}
  <2>1. /\ DOMAIN dequeue = 1 .. Len(dequeue) /\ Len(dequeue) \in Nat
        /\ DOMAIN dequeue' = 1 .. Len(dequeue) + 1
        /\ \A i \in 1 .. Len(dequeue) : dequeue'[i] = dequeue[i]
        /\ dequeue'[Len(dequeue) + 1] = task
    BY AppendProperties, LenProperties DEF Typed
  <2>2. \A i \in 1 .. Len(dequeue) + 1 : i \in 1 .. Len(dequeue) \/ i = Len(dequeue) + 1
    BY <2>1
  <2>3. \A i \in 1 .. Len(dequeue) : i \in 1 .. Len(dequeue) + 1
    BY <2>1
  <2>4. Len(dequeue) + 1 \in 1 .. Len(dequeue) + 1
    BY <2>1
  <2> QED BY <2>1, <2>2, <2>3, <2>4, Zenon DEF QueuedKeys
<1>3. Tasks = QueuedKeys \cup HeldKeys /\ Tasks' = QueuedKeys' \cup HeldKeys'
  <2>1. (Typed => TasksSplit)'
    BY TasksQueuedOrHeld, PTL
  <2> QED BY <2>1, TasksQueuedOrHeld DEF TasksSplit
<1> QED BY <1>1, <1>2, <1>3

(***************************************************************************)
(* wait_and_pop hands a task over: it neither leaves nor enters the        *)
(* server.                                                                 *)
(***************************************************************************)
LEMMA TakeTasks ==
    ASSUME Typed, Typed', NEW w \in Workers, holding[w] = <<>>, Q!pop_front,
           holding' = [holding EXCEPT ![w] = <<Head(dequeue)>>]
    PROVE  Tasks' = Tasks
<1> DEFINE n == Len(dequeue)
<1>1. /\ dequeue \in Seq(RequestTask) /\ dequeue # <<>> /\ dequeue' = Tail(dequeue)
  BY DEF Typed, Q!pop_front
<1>2. n \in Nat \ {0} /\ DOMAIN dequeue = 1 .. n /\ Head(dequeue) = dequeue[1]
  BY <1>1, EmptySeq, LenProperties
<1>3. /\ DOMAIN dequeue' = 1 .. n - 1
      /\ \A i \in 1 .. n - 1 : dequeue'[i] = dequeue[i + 1]
  <2>1. /\ Tail(dequeue) \in Seq(RequestTask) /\ Len(Tail(dequeue)) = n - 1
        /\ \A i \in 1 .. n - 1 : Tail(dequeue)[i] = dequeue[i + 1]
    BY <1>1, <1>2, HeadTailProperties
  <2> QED BY <1>1, <2>1, LenProperties
<1> HIDE DEF n
<1>4. \A v \in Workers : holding'[v] = IF v = w THEN <<dequeue[1]>> ELSE holding[v]
  BY <1>2 DEF Typed
<1>5. Busy' = Busy \cup {w} /\ w \notin Busy
  BY <1>4 DEF Busy
<1>6. HeldKeys' = HeldKeys \cup {Key(dequeue[1])}
  <2>1. Head(<<dequeue[1]>>) = dequeue[1]
    OBVIOUS
  <2>2. Head(holding'[w]) = dequeue[1] /\ \A v \in Busy : holding'[v] = holding[v]
    BY <1>4, <1>5, <2>1 DEF Busy
  <2> QED BY <1>5, <2>2 DEF HeldKeys
<1>7. QueuedKeys = QueuedKeys' \cup {Key(dequeue[1])}
  <2>1. ASSUME NEW i \in 1 .. n, i # 1 PROVE Key(dequeue[i]) \in QueuedKeys'
    <3>1. i - 1 \in 1 .. n - 1 /\ (i - 1) + 1 = i
      BY <2>1, <1>2
    <3>2. dequeue'[i - 1] = dequeue[i]
      BY <3>1, <1>3
    <3> QED BY <3>1, <3>2, <1>3 DEF QueuedKeys
  <2>2. ASSUME NEW i \in 1 .. n - 1 PROVE Key(dequeue'[i]) \in QueuedKeys
    <3>1. i + 1 \in 1 .. n
      BY <1>2
    <3> QED BY <3>1, <1>2, <1>3 DEF QueuedKeys
  <2>3. 1 \in 1 .. n
    BY <1>2
  <2> QED BY <1>2, <1>3, <2>1, <2>2, <2>3 DEF QueuedKeys
<1>8. Tasks = QueuedKeys \cup HeldKeys /\ Tasks' = QueuedKeys' \cup HeldKeys'
  <2>1. (Typed => TasksSplit)'
    BY TasksQueuedOrHeld, PTL
  <2> QED BY <2>1, TasksQueuedOrHeld DEF TasksSplit
<1> QED BY <1>6, <1>7, <1>8

(***************************************************************************)
(* send_response ends the way of one task, which no other worker holds and *)
(* which is not queued: of tasks with its id there is no second.           *)
(***************************************************************************)
LEMMA RespondTasks ==
    ASSUME IInv, Typed', NEW w \in Workers, holding[w] # <<>>, UNCHANGED queue,
           holding' = [holding EXCEPT ![w] = <<>>]
    PROVE  LET key == Key(Head(holding[w])) IN key \in Tasks /\ Tasks' = Tasks \ {key}
<1> DEFINE key == Key(Head(holding[w]))
<1>1. \A v \in Workers : holding'[v] = IF v = w THEN <<>> ELSE holding[v]
  BY DEF IInv, Typed
<1>2. Busy' = Busy \ {w} /\ w \in Busy
  BY <1>1 DEF Busy
<1>3. \A v \in Busy \ {w} : Key(Head(holding[v])) # key
  BY <1>2 DEF IInv, HeldApart, Busy, Key
<1>4. HeldKeys' = HeldKeys \ {key} /\ key \in HeldKeys
  <2>1. \A v \in Busy \ {w} : holding'[v] = holding[v]
    BY <1>1 DEF Busy
  <2> QED BY <1>2, <1>3, <2>1 DEF HeldKeys
<1>5. key \notin QueuedKeys
  <2>1. ASSUME NEW i \in DOMAIN dequeue PROVE Key(dequeue[i]) # key
    <3>1. /\ dequeue[i].sequence_id \in Nat /\ Head(holding[w]).sequence_id \in Nat
          /\ Head(holding[w]).connection = dequeue[i].connection =>
                Head(holding[w]).sequence_id < dequeue[i].sequence_id
      BY TaskFields DEF IInv, QueueOrder
    <3> QED BY <3>1 DEF Key
  <2> QED BY <2>1 DEF QueuedKeys
<1>6. QueuedKeys' = QueuedKeys
  BY DEF queue, QueuedKeys
<1>7. Tasks = QueuedKeys \cup HeldKeys /\ Tasks' = QueuedKeys' \cup HeldKeys'
  <2>1. (Typed => TasksSplit)'
    BY TasksQueuedOrHeld, PTL
  <2> QED BY <2>1, TasksQueuedOrHeld DEF IInv, TasksSplit
<1> QED BY <1>4, <1>5, <1>6, <1>7

(***************************************************************************)
(* Every step of the server is a step of its connections, or one they do   *)
(* not see: launch(), a worker taking a task, stop().                      *)
(***************************************************************************)
LEMMA StepRefines == IInv /\ [Next]_vars => [HC!Next]_(HC!vars)
<1> SUFFICES ASSUME IInv, [Next]_vars PROVE HC!Next \/ UNCHANGED HC!vars
  OBVIOUS
<1>1. IInv' /\ Typed /\ Typed'
  BY NextIInv DEF IInv
<1>2. ASSUME UNCHANGED <<conn, aborted>>, Tasks' = Tasks PROVE UNCHANGED HC!vars
  BY <1>2 DEF HC!vars
<1>3. CASE launch \/ StopContext \/ StopQueue \/ JoinWorkers \/ UNCHANGED vars
  <2>1. UNCHANGED <<conn, aborted, dequeue, holding>>
    BY <1>3 DEF launch, StopContext, StopQueue, JoinWorkers, vars, queue, Q!stop
  <2>2. Tasks' = Tasks
    BY <2>1 DEF Tasks, Elements
  <2> QED BY <1>2, <2>1, <2>2
<1>4. ASSUME NEW c \in Connections,
             start_accept_async(c) \/ AcceptThrows(c) \/ Strand(c) \/ ReadFails(c)
      PROVE  HC!Next
  <2>1. Tasks' = Tasks
    BY <1>4, SameTasks DEF start_accept_async, AcceptThrows, Strand, ReadFails
  <2>2. CASE AcceptThrows(c)
    BY <2>1, <2>2 DEF AcceptThrows, ContextRuns, HC!Terminate, HC!Next
  <2>3. CASE start_accept_async(c)
    BY <2>1, <2>3 DEF start_accept_async, HC!Next
  <2>4. CASE Strand(c)
    BY <2>1, <2>4 DEF Strand, HC!Strand, HC!Next
  <2>5. CASE ReadFails(c)
    BY <2>1, <2>5 DEF ReadFails, HC!Next
  <2> QED BY <1>4, <2>2, <2>3, <2>4, <2>5
<1>5. ASSUME NEW c \in Connections, Read(c) PROVE HC!Next
  <2>1. PICK bytes \in BodySizes[c] :
           LET task == [connection |-> c, sequence_id |-> conn[c].next_sequence_id,
                        bytes |-> bytes]
           IN  \/ HC!ReadAccepted(c) /\ Q!try_push_back(task)
               \/ HC!ReadRejected(c) /\ UNCHANGED queue
    BY <1>5 DEF Read
  <2>2. UNCHANGED holding
    BY <1>5 DEF Read
  <2>3. CASE HC!ReadRejected(c) /\ UNCHANGED queue
    <3>1. Tasks' = Tasks
      BY <2>2, <2>3, SameTasks
    <3> QED BY <2>3, <3>1 DEF HC!Next
  <2> DEFINE task == [connection |-> c, sequence_id |-> conn[c].next_sequence_id,
                      bytes |-> bytes]
  <2>4. CASE HC!ReadAccepted(c) /\ Q!try_push_back(task)
    <3>1. task \in RequestTask
      <4>1. conn[c].next_sequence_id \in Nat /\ conn[c].next_sequence_id < MaxRequests
        BY <2>4 DEF HC!ReadAccepted, HC!RequestRead, IInv, ConnectionsCount, Counting
      <4>2. bytes \in UNION {BodySizes[d] : d \in Connections}
        OBVIOUS
      <4> QED BY <4>1, <4>2, ServerAssumption DEF RequestTask
    <3>2. dequeue' = Append(dequeue, task)
      BY <2>4 DEF Q!try_push_back, Q!push_back
    <3>3. Key(task) = [connection |-> c, sequence_id |-> conn[c].next_sequence_id]
      BY DEF Key
    <3>4. Tasks' = Tasks \cup {Key(task)}
      <4> HIDE DEF task
      <4> QED BY <1>1, <2>2, <3>1, <3>2, AcceptTasks
    <3> QED BY <2>4, <3>3, <3>4 DEF HC!Accept, HC!Next
  <2> QED BY <2>1, <2>3, <2>4
<1>6. ASSUME NEW w \in Workers, Take(w) PROVE UNCHANGED HC!vars
  <2>1. UNCHANGED <<conn, aborted>> /\ holding[w] = <<>>
    BY <1>6 DEF Take
  <2>2. CASE dequeue = <<>>
    <3>1. UNCHANGED <<queue, holding>>
      BY <1>6, <2>2 DEF Take, Q!FinishWait, Q!data, Q!pop_front, queue
    <3> QED BY <1>2, <2>1, <3>1, SameTasks
  <2>3. CASE dequeue # <<>>
    <3>1. Q!pop_front /\ holding' = [holding EXCEPT ![w] = <<Head(dequeue)>>]
      BY <1>6, <2>3 DEF Take, Q!FinishWait
    <3> QED BY <1>1, <1>2, <2>1, <3>1, TakeTasks, Zenon
  <2> QED BY <2>2, <2>3
<1>7. ASSUME NEW w \in Workers, Respond(w) PROVE HC!Next
  <2> DEFINE task == Head(holding[w])
  <2>1. /\ holding[w] # <<>> /\ UNCHANGED queue
        /\ holding' = [holding EXCEPT ![w] = <<>>]
    BY <1>7 DEF Respond
  <2>2. PICK keep_alive \in BOOLEAN : HC!send_response(task, keep_alive)
    BY <1>7 DEF Respond
  <2>3. Key(task) \in Tasks /\ Tasks' = Tasks \ {Key(task)}
    BY <1>1, <2>1, RespondTasks, Zenon
  <2> HIDE DEF task
  <2>4. HC!send_response(Key(task), keep_alive)
    BY <2>2 DEF HC!send_response, HC!Update, Key
  <2> QED BY <2>3, <2>4 DEF HC!Answer, HC!Next
<1>8. ASSUME NEW w \in Workers, ProcessThrows(w) PROVE HC!Next
  <2>1. Tasks' = Tasks
    BY <1>8, SameTasks DEF ProcessThrows
  <2> QED BY <1>8, <2>1 DEF ProcessThrows, Working, HC!Terminate, HC!Next
<1> QED BY <1>3, <1>4, <1>5, <1>6, <1>7, <1>8 DEF Next, Stop

(***************************************************************************)
(* In the composed server the connections behave as HttpConnection says,   *)
(* whose invariants therefore hold in it: the queue and the workers pass   *)
(* each task on once, lose none and answer none twice.                     *)
(***************************************************************************)
THEOREM ConnectionsRefined == Spec => ConnectionsBehave
<1>1. Init => HC!Init
  BY DEF Init
<1> QED BY <1>1, Invariance, StepRefines, PTL DEF Spec, ConnectionsBehave
=============================================================================
