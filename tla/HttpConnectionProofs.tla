------------------------ MODULE HttpConnectionProofs ------------------------
(***************************************************************************)
(* Proofs about HttpConnection for any connections and any number of       *)
(* requests.  ConnInv is the inductive invariant of one connection k whose *)
(* requests with ids in T are with the workers: Core says where each       *)
(* request is, Linked ties `writing` and the outstanding write to it.      *)
(* Each handler is a function of the connection, so that it keeps ConnInv  *)
(* is a statement without actions; the last part lifts these to the steps. *)
(***************************************************************************)
EXTENDS HttpConnection, SequenceTheorems, TLAPS

PartialResponses == UNION {[D -> Response] : D \in SUBSET Nat}
Write == [response : Response, live : BOOLEAN]

ConnType ==
    [socket : {"unconnected", "open", "closed"},
     reading : BOOLEAN, writing : BOOLEAN,
     next_sequence_id : Nat, next_response_sequence_id : Nat,
     posted : SUBSET Response, responses : PartialResponses,
     in_flight : Seq(Write), written : Seq(Response)]

Rejected(k, r) == r.id = k.next_sequence_id - 1 /\ ~k.reading /\ ~r.keep_alive

Partition(k, T) ==
    LET P == {r.id : r \in k.posted}
        S == DOMAIN k.responses
    IN  /\ T \cup P \cup S = k.next_response_sequence_id .. k.next_sequence_id - 1
        /\ T \cap P = {} /\ T \cap S = {} /\ P \cap S = {}
        /\ \A r1, r2 \in k.posted : r1.id = r2.id => r1 = r2

Core(k, T) ==
    /\ k \in ConnType
    /\ Partition(k, T)
    /\ k.next_response_sequence_id <= k.next_sequence_id
    /\ \A i \in DOMAIN k.responses : k.responses[i].id = i
    /\ Len(k.written) = k.next_response_sequence_id
    /\ \A i \in 1 .. Len(k.written) : k.written[i].id = i - 1
    /\ \A r \in k.posted : r.status = "overloaded" => Rejected(k, r)
    /\ \A i \in DOMAIN k.responses :
          k.responses[i].status = "overloaded" => Rejected(k, k.responses[i])
    /\ \A i \in 1 .. Len(k.written) :
          k.written[i].status = "overloaded" => Rejected(k, k.written[i])
    /\ k.socket = "unconnected" => k = NewConnection

AllAlive(k) == \A i \in 1 .. Len(k.written) : k.written[i].keep_alive

Linked(k) ==
    /\ Len(k.in_flight) <= 1
    /\ k.in_flight # <<>> =>
          /\ k.writing /\ AllAlive(k)
          /\ k.next_response_sequence_id \in DOMAIN k.responses
          /\ Head(k.in_flight).response = k.responses[k.next_response_sequence_id]
    /\ k.in_flight = <<>> /\ ~k.writing =>
          /\ AllAlive(k)
          /\ k.next_response_sequence_id \notin DOMAIN k.responses
    /\ k.in_flight = <<>> /\ k.writing => k.socket = "closed"
    /\ \A i \in 1 .. Len(k.written) : ~k.written[i].keep_alive => i = Len(k.written)

ConnInv(k, T) == Core(k, T) /\ Linked(k)

-----------------------------------------------------------------------------
(***************************************************************************)
(* A member of PartialResponses is a function from some ids to responses,  *)
(* as the std::map `responses` is.                                         *)
(***************************************************************************)
LEMMA PartialType ==
    ASSUME NEW f \in PartialResponses
    PROVE  /\ DOMAIN f \in SUBSET Nat
           /\ f \in [DOMAIN f -> Response]
           /\ \A i \in DOMAIN f : f[i] \in Response
BY DEF PartialResponses

(***************************************************************************)
(* Any function from some ids to responses is a value `responses` may      *)
(* have.                                                                   *)
(***************************************************************************)
LEMMA PartialIntro ==
    ASSUME NEW D \in SUBSET Nat, NEW f \in [D -> Response]
    PROVE  f \in PartialResponses
BY DEF PartialResponses

(***************************************************************************)
(* A connection that has just been constructed, with no request read,      *)
(* satisfies the invariant.                                                *)
(***************************************************************************)
LEMMA NewInv == ConnInv(NewConnection, {})
<1> DEFINE k == NewConnection
<1>1. /\ k.socket = "unconnected" /\ k.reading = FALSE /\ k.writing = FALSE
      /\ k.next_sequence_id = 0 /\ k.next_response_sequence_id = 0
      /\ k.posted = {} /\ k.responses = <<>> /\ k.in_flight = <<>> /\ k.written = <<>>
  BY DEF NewConnection
<1>2. <<>> \in PartialResponses /\ DOMAIN <<>> = {} /\ Len(<<>>) = 0
  <2>1. {} \in SUBSET Nat /\ DOMAIN <<>> = {} /\ Len(<<>>) = 0
    OBVIOUS
  <2>2. <<>> \in [{} -> Response]
    BY <2>1
  <2> QED BY <2>1, <2>2, PartialIntro
<1>3. k \in ConnType
  BY <1>2 DEF ConnType, NewConnection
<1>4. Partition(k, {})
  BY <1>1, <1>2 DEF Partition
<1>5. Core(k, {})
  <2> HIDE DEF k
  <2> QED BY <1>1, <1>2, <1>3, <1>4 DEF Core, k
<1>6. Linked(k)
  BY <1>1, <1>2 DEF Linked, AllAlive
<1> QED BY <1>5, <1>6 DEF ConnInv

(***************************************************************************)
(* responses.emplace with an id that is not there adds that response and   *)
(* leaves the others.                                                      *)
(***************************************************************************)
LEMMA EmplaceFresh ==
    ASSUME NEW f \in PartialResponses, NEW r \in Response, r.id \notin DOMAIN f
    PROVE  /\ emplace(f, r) \in PartialResponses
           /\ DOMAIN emplace(f, r) = DOMAIN f \cup {r.id}
           /\ emplace(f, r)[r.id] = r
           /\ \A i \in DOMAIN f : emplace(f, r)[i] = f[i]
<1> DEFINE D == DOMAIN f \cup {r.id}
           g == [i \in D |-> IF i = r.id THEN r ELSE f[i]]
<1>1. emplace(f, r) = g
  BY DEF emplace
<1>2. D \in SUBSET Nat
  BY PartialType DEF Response
<1>3. g \in [D -> Response]
  BY PartialType
<1>4. g \in PartialResponses
  BY <1>2, <1>3, PartialIntro
<1> QED BY <1>1, <1>4

(***************************************************************************)
(* responses.erase removes one id and leaves the others.                   *)
(***************************************************************************)
LEMMA EraseOne ==
    ASSUME NEW f \in PartialResponses, NEW n
    PROVE  /\ erase(f, n) \in PartialResponses
           /\ DOMAIN erase(f, n) = DOMAIN f \ {n}
           /\ \A i \in DOMAIN f \ {n} : erase(f, n)[i] = f[i]
<1> DEFINE D == DOMAIN f \ {n}
           g == [i \in D |-> f[i]]
<1>1. erase(f, n) = g
  BY DEF erase, Restrict
<1>2. D \in SUBSET Nat /\ g \in [D -> Response]
  BY PartialType
<1>3. g \in PartialResponses
  BY <1>2, PartialIntro
<1> QED BY <1>1, <1>3

(***************************************************************************)
(* write(), called when no write is outstanding and every response so far  *)
(* has kept the connection alive, establishes the whole invariant.         *)
(***************************************************************************)
LEMMA WriteKeeps ==
    ASSUME NEW k, NEW T, Core(k, T), k.in_flight = <<>>, AllAlive(k),
           k.socket # "unconnected"
    PROVE  ConnInv(write(k), T)
<1> DEFINE n == k.next_response_sequence_id
           w == [response |-> k.responses[n], live |-> k.socket = "open"]
           idle == [k EXCEPT !.writing = FALSE]
           busy == [k EXCEPT !.writing = TRUE, !.in_flight = Append(k.in_flight, w)]
<1>0. k \in ConnType
  BY DEF Core
<1>1. CASE n \notin DOMAIN k.responses
  <2>1. write(k) = idle
    BY <1>1 DEF write
  <2>2. idle \in ConnType
    BY <1>0 DEF ConnType
  <2>3. Core(idle, T)
    BY <1>0, <2>2 DEF Core, ConnType, Partition, Rejected
  <2>4. Linked(idle)
    BY <1>0, <1>1 DEF Linked, AllAlive, ConnType, Core
  <2> QED BY <2>1, <2>3, <2>4 DEF ConnInv
<1>2. CASE n \in DOMAIN k.responses
  <2>1. write(k) = busy
    BY <1>2 DEF write
  <2>2. w \in Write /\ Append(k.in_flight, w) = <<w>> /\ <<w>> \in Seq(Write)
    BY <1>0, <1>2, PartialType DEF ConnType, Write
  <2>3. busy \in ConnType
    BY <1>0, <2>2 DEF ConnType
  <2>4. Core(busy, T)
    BY <1>0, <2>3 DEF Core, ConnType, Partition, Rejected
  <2>5. Linked(busy)
    BY <1>0, <1>2, <2>2 DEF Linked, AllAlive, ConnType, Core
  <2> QED BY <2>1, <2>4, <2>5 DEF ConnInv
<1> QED BY <1>1, <1>2

(***************************************************************************)
(* Reading a request (next_sequence_id++) adds its id to those that are    *)
(* not answered.                                                           *)
(***************************************************************************)
LEMMA RangeGrows ==
    ASSUME NEW a \in Nat, NEW n \in Nat, a <= n
    PROVE  /\ a .. ((n + 1) - 1) = (a .. (n - 1)) \cup {n}
           /\ n \notin a .. (n - 1)
OBVIOUS

(***************************************************************************)
(* Writing a response (next_response_sequence_id++) removes its id from    *)
(* those that are not answered.                                            *)
(***************************************************************************)
LEMMA RangeShrinks ==
    ASSUME NEW a \in Nat, NEW n \in Nat
    PROVE  (a + 1) .. (n - 1) = (a .. (n - 1)) \ {a}
OBVIOUS

(***************************************************************************)
(* While a read is outstanding the connection has been started and no      *)
(* request of it has been rejected: reject_overloaded ends the reading.    *)
(***************************************************************************)
LEMMA ReadingFacts ==
    ASSUME NEW k, NEW T, ConnInv(k, T), k.reading
    PROVE  /\ k \in ConnType
           /\ k.socket # "unconnected"
           /\ \A r \in k.posted : r.status # "overloaded"
           /\ \A i \in DOMAIN k.responses : k.responses[i].status # "overloaded"
           /\ \A i \in 1 .. Len(k.written) : k.written[i].status # "overloaded"
<1>1. NewConnection.reading = FALSE
  BY DEF NewConnection
<1> QED BY <1>1 DEF ConnInv, Core, Rejected

(***************************************************************************)
(* start() keeps the invariant of a connection.                            *)
(***************************************************************************)
LEMMA StartKeeps ==
    ASSUME NEW k, NEW T, ConnInv(k, T), k.socket = "unconnected"
    PROVE  ConnInv([k EXCEPT !.socket = "open", !.reading = TRUE], T)
<1> DEFINE s == [k EXCEPT !.socket = "open", !.reading = TRUE]
<1>1. k \in ConnType /\ k = NewConnection /\ s \in ConnType
  BY DEF ConnInv, Core, ConnType
<1>2. k.written = <<>> /\ k.posted = {} /\ DOMAIN k.responses = {} /\ k.writing = FALSE
  BY <1>1 DEF NewConnection
<1>3. Core(s, T)
  BY <1>1, <1>2 DEF ConnInv, Core, ConnType, Partition
<1>4. Linked(s)
  BY <1>1, <1>2 DEF ConnInv, Linked, AllAlive, ConnType
<1> QED BY <1>3, <1>4 DEF ConnInv

(***************************************************************************)
(* A read whose request the queue accepts keeps the invariant, the new id  *)
(* being the workers'.                                                     *)
(***************************************************************************)
LEMMA AcceptKeeps ==
    ASSUME NEW k, NEW T, ConnInv(k, T), k.reading
    PROVE  ConnInv(OnAccepted(k), T \cup {k.next_sequence_id})
<1> DEFINE s == [k EXCEPT !.next_sequence_id = k.next_sequence_id + 1]
           U == T \cup {k.next_sequence_id}
<1>1. k \in ConnType /\ s \in ConnType
  BY DEF ConnInv, Core, ConnType
<1>2. k.socket # "unconnected"
  BY ReadingFacts
<1>3. Partition(s, U)
  <2> DEFINE P == {r.id : r \in k.posted}
             S == DOMAIN k.responses
             n == k.next_sequence_id
             a == k.next_response_sequence_id
  <2>1. /\ s.posted = k.posted /\ s.responses = k.responses
        /\ s.next_response_sequence_id = a /\ s.next_sequence_id = n + 1
    BY <1>1 DEF ConnType
  <2>2. /\ T \cup P \cup S = a .. (n - 1)
        /\ T \cap P = {} /\ T \cap S = {} /\ P \cap S = {}
        /\ \A r1, r2 \in k.posted : r1.id = r2.id => r1 = r2
    BY DEF ConnInv, Core, Partition
  <2>3. a .. ((n + 1) - 1) = (a .. (n - 1)) \cup {n} /\ n \notin a .. (n - 1)
    BY <1>1, RangeGrows DEF ConnInv, Core, ConnType
  <2> HIDE DEF P, S, n, a
  <2>4. /\ U \cup P \cup S = a .. ((n + 1) - 1)
        /\ U \cap P = {} /\ U \cap S = {}
    BY <2>2, <2>3 DEF n
  <2> QED BY <2>1, <2>2, <2>4 DEF Partition, P, S
<1>4. Core(s, U)
  <2>1. /\ s.socket = k.socket /\ s.posted = k.posted /\ s.responses = k.responses
        /\ s.written = k.written /\ s.next_sequence_id = k.next_sequence_id + 1
        /\ s.next_response_sequence_id = k.next_response_sequence_id
    BY <1>1 DEF ConnType
  <2>2. s.next_response_sequence_id <= s.next_sequence_id
    BY <1>1, <2>1 DEF ConnInv, Core, ConnType
  <2> HIDE DEF s
  <2> QED BY <1>1, <1>2, <1>3, <2>1, <2>2, ReadingFacts DEF ConnInv, Core
<1>5. Linked(s)
  BY <1>1 DEF ConnInv, Linked, AllAlive, ConnType
<1> QED BY <1>4, <1>5 DEF ConnInv, OnAccepted

(***************************************************************************)
(* A read whose request the queue rejects keeps the invariant, the new id  *)
(* being that of the posted 503.                                           *)
(***************************************************************************)
LEMMA RejectKeeps ==
    ASSUME NEW k, NEW T, ConnInv(k, T), k.reading
    PROVE  ConnInv(OnRejected(k), T)
<1> DEFINE o == Overloaded(k)
           s == [k EXCEPT !.next_sequence_id = k.next_sequence_id + 1,
                          !.posted = k.posted \cup {o},
                          !.reading = FALSE]
<1>1. k \in ConnType
  BY DEF ConnInv, Core
<1>2. o \in Response /\ o.id = k.next_sequence_id /\ ~o.keep_alive
  BY <1>1 DEF Overloaded, Response, ConnType
<1> HIDE DEF o
<1>3. s \in ConnType
  <2>1. k.posted \cup {o} \in SUBSET Response /\ k.next_sequence_id + 1 \in Nat
    BY <1>1, <1>2 DEF ConnType
  <2> QED BY <1>1, <2>1 DEF ConnType
<1>4. k.socket # "unconnected"
  BY ReadingFacts
<1>5. Partition(s, T)
  <2> DEFINE P == {r.id : r \in k.posted}
             Q == {r.id : r \in k.posted \cup {o}}
             S == DOMAIN k.responses
             n == k.next_sequence_id
             a == k.next_response_sequence_id
  <2>1. /\ s.posted = k.posted \cup {o} /\ s.responses = k.responses
        /\ s.next_response_sequence_id = a /\ s.next_sequence_id = n + 1
    BY <1>1 DEF ConnType
  <2>2. /\ T \cup P \cup S = a .. (n - 1)
        /\ T \cap P = {} /\ T \cap S = {} /\ P \cap S = {}
        /\ \A r1, r2 \in k.posted : r1.id = r2.id => r1 = r2
    BY DEF ConnInv, Core, Partition
  <2>3. a .. ((n + 1) - 1) = (a .. (n - 1)) \cup {n} /\ n \notin a .. (n - 1)
    BY <1>1, RangeGrows DEF ConnInv, Core, ConnType
  <2>4. Q = P \cup {n}
    BY <1>2
  <2>5. \A r1, r2 \in k.posted \cup {o} : r1.id = r2.id => r1 = r2
    BY <1>2, <2>2, <2>3
  <2> HIDE DEF P, Q, S, n, a
  <2>6. /\ T \cup Q \cup S = a .. ((n + 1) - 1)
        /\ T \cap Q = {} /\ T \cap S = {} /\ Q \cap S = {}
    BY <2>2, <2>3, <2>4
  <2> QED BY <2>1, <2>5, <2>6 DEF Partition, Q, S
<1>6. Core(s, T)
  BY <1>1, <1>2, <1>3, <1>4, <1>5 DEF ConnInv, Core, ConnType, Rejected
<1>7. Linked(s)
  BY <1>1 DEF ConnInv, Linked, AllAlive, ConnType
<1> QED BY <1>6, <1>7 DEF ConnInv, OnRejected, o

(***************************************************************************)
(* A failed read, which closes the socket, keeps the invariant.            *)
(***************************************************************************)
LEMMA ReadErrorKeeps ==
    ASSUME NEW k, NEW T, ConnInv(k, T)
    PROVE  ConnInv(OnReadError(k), T)
<1> DEFINE s == [k EXCEPT !.socket = "closed", !.reading = FALSE]
<1>1. k \in ConnType /\ s \in ConnType
  BY DEF ConnInv, Core, ConnType
<1>2. OnReadError(k) = s
  BY <1>1 DEF OnReadError, close, ConnType
<1>3. Core(s, T)
  BY <1>1 DEF ConnInv, Core, ConnType, Partition, Rejected
<1>4. Linked(s)
  BY <1>1 DEF ConnInv, Linked, AllAlive, ConnType
<1> QED BY <1>2, <1>3, <1>4 DEF ConnInv

(***************************************************************************)
(* send_response moves an id from the workers to the posted handlers and   *)
(* keeps the invariant.                                                    *)
(***************************************************************************)
LEMMA AnswerKeeps ==
    ASSUME NEW k, NEW T, ConnInv(k, T), NEW i \in T,
           NEW r \in Response, r.id = i, r.status = "answer"
    PROVE  ConnInv([k EXCEPT !.posted = @ \cup {r}], T \ {i})
<1> DEFINE s == [k EXCEPT !.posted = @ \cup {r}]
<1>1. k \in ConnType /\ s \in ConnType
  BY DEF ConnInv, Core, ConnType
<1>2. k.socket # "unconnected"
  BY DEF ConnInv, Core, Partition, NewConnection
<1>3. Partition(s, T \ {i})
  BY <1>1 DEF ConnInv, Core, Partition, ConnType
<1>4. Core(s, T \ {i})
  BY <1>1, <1>2, <1>3 DEF ConnInv, Core, ConnType, Rejected
<1>5. Linked(s)
  BY <1>1 DEF ConnInv, Linked, AllAlive, ConnType
<1> QED BY <1>4, <1>5 DEF ConnInv

(***************************************************************************)
(* Storing a posted response keeps all the invariant but, when no write is *)
(* outstanding, the link between `writing` and the response whose turn it  *)
(* is.                                                                     *)
(***************************************************************************)
LEMMA StoreKeeps ==
    ASSUME NEW k, NEW T, ConnInv(k, T), NEW r \in k.posted
    PROVE  LET s == [k EXCEPT !.posted = k.posted \ {r},
                              !.responses = emplace(k.responses, r)]
           IN  /\ Core(s, T)
               /\ k.writing => Linked(s)
               /\ s.in_flight = k.in_flight /\ s.written = k.written
               /\ s.socket = k.socket /\ s.socket # "unconnected"
<1> DEFINE f == emplace(k.responses, r)
           p == k.posted \ {r}
           s == [k EXCEPT !.posted = p, !.responses = f]
<1>1. k \in ConnType /\ r \in Response /\ k.responses \in PartialResponses
  BY DEF ConnInv, Core, ConnType
<1>2. k.socket # "unconnected"
  <2>1. NewConnection.posted = {}
    BY DEF NewConnection
  <2> QED BY <2>1 DEF ConnInv, Core
<1>3. r.id \notin DOMAIN k.responses
  BY DEF ConnInv, Core, Partition
<1>4. /\ f \in PartialResponses
      /\ DOMAIN f = DOMAIN k.responses \cup {r.id}
      /\ f[r.id] = r
      /\ \A i \in DOMAIN k.responses : f[i] = k.responses[i]
  BY <1>1, <1>3, EmplaceFresh
<1> HIDE DEF f
<1>5. p \in SUBSET Response
  BY <1>1 DEF ConnType
<1>6. /\ s \in ConnType
      /\ s.posted = p /\ s.responses = f /\ s.socket = k.socket
      /\ s.written = k.written /\ s.in_flight = k.in_flight
      /\ s.writing = k.writing /\ s.reading = k.reading
      /\ s.next_sequence_id = k.next_sequence_id
      /\ s.next_response_sequence_id = k.next_response_sequence_id
  BY <1>1, <1>4, <1>5 DEF ConnType
<1> HIDE DEF s
<1>7. Partition(s, T)
  <2> DEFINE P == {x.id : x \in k.posted}
             Q == {x.id : x \in p}
             S == DOMAIN k.responses
             I == k.next_response_sequence_id .. k.next_sequence_id - 1
  <2>1. /\ T \cup P \cup S = I
        /\ T \cap P = {} /\ T \cap S = {} /\ P \cap S = {}
        /\ \A r1, r2 \in k.posted : r1.id = r2.id => r1 = r2
    BY DEF ConnInv, Core, Partition
  <2>2. Q = P \ {r.id} /\ r.id \in P
    BY <2>1
  <2>3. \A r1, r2 \in p : r1.id = r2.id => r1 = r2
    BY <2>1
  <2> HIDE DEF P, Q, S, I
  <2>4. LET S2 == S \cup {r.id} IN
          T \cup Q \cup S2 = I /\ T \cap Q = {} /\ T \cap S2 = {} /\ Q \cap S2 = {}
    BY <2>1, <2>2
  <2> QED BY <1>4, <1>6, <2>3, <2>4 DEF Partition, Q, S, I
<1>8. Core(s, T)
  <2>1. \A i \in DOMAIN f : f[i].id = i
    BY <1>4 DEF ConnInv, Core
  <2>2. \A i \in DOMAIN f : f[i].status = "overloaded" => Rejected(k, f[i])
    BY <1>4 DEF ConnInv, Core
  <2>3. \A x : Rejected(s, x) <=> Rejected(k, x)
    BY <1>6 DEF Rejected
  <2> QED BY <1>2, <1>6, <1>7, <2>1, <2>2, <2>3 DEF ConnInv, Core
<1>9. ASSUME k.writing PROVE Linked(s)
  BY <1>4, <1>6, <1>9 DEF ConnInv, Linked, AllAlive
<1> QED BY <1>2, <1>6, <1>8, <1>9 DEF s, f

(***************************************************************************)
(* A posted handler, which stores its response and calls write() unless    *)
(* `writing`, keeps the invariant.                                         *)
(***************************************************************************)
LEMMA PostedKeeps ==
    ASSUME NEW k, NEW T, ConnInv(k, T), NEW r \in k.posted
    PROVE  ConnInv(OnPosted(k, r), T)
<1> DEFINE s == [k EXCEPT !.posted = k.posted \ {r},
                          !.responses = emplace(k.responses, r)]
<1>1. /\ Core(s, T)
      /\ k.writing => Linked(s)
      /\ s.in_flight = k.in_flight /\ s.written = k.written
      /\ s.socket # "unconnected"
  BY StoreKeeps
<1>2. OnPosted(k, r) = IF k.writing THEN s ELSE write(s)
  BY DEF OnPosted
<1> HIDE DEF s
<1>3. CASE k.writing
  BY <1>1, <1>2, <1>3 DEF ConnInv
<1>4. CASE ~k.writing
  <2>1. k.in_flight = <<>> /\ AllAlive(k)
    BY <1>4 DEF ConnInv, Linked
  <2>2. s.in_flight = <<>> /\ AllAlive(s)
    BY <1>1, <2>1 DEF AllAlive
  <2>3. ConnInv(write(s), T)
    BY <1>1, <2>2, WriteKeeps
  <2> QED BY <1>2, <1>4, <2>3
<1> QED BY <1>3, <1>4

(***************************************************************************)
(* What the completion handler of a write does before it calls write() or  *)
(* close() leaves no write outstanding, and the response just sent last.   *)
(***************************************************************************)
LEMMA SentKeeps ==
    ASSUME NEW k, NEW T, ConnInv(k, T), k.in_flight # <<>>
    PROVE  LET response == Head(k.in_flight).response
               s == [k EXCEPT
                       !.in_flight = Tail(k.in_flight),
                       !.written = Append(k.written, response),
                       !.responses = erase(k.responses, k.next_response_sequence_id),
                       !.next_response_sequence_id = k.next_response_sequence_id + 1]
           IN  /\ Core(s, T)
               /\ s.in_flight = <<>> /\ s.writing
               /\ s.socket # "unconnected"
               /\ \A i \in 1 .. Len(s.written) : ~s.written[i].keep_alive => i = Len(s.written)
               /\ response.keep_alive => AllAlive(s)
<1> DEFINE a == k.next_response_sequence_id
           n == k.next_sequence_id
           r == Head(k.in_flight).response
           f == erase(k.responses, a)
           w == Append(k.written, r)
           s == [k EXCEPT !.in_flight = Tail(k.in_flight), !.written = w,
                          !.responses = f, !.next_response_sequence_id = a + 1]
<1>1. k \in ConnType /\ k.responses \in PartialResponses /\ a \in Nat /\ n \in Nat
  BY DEF ConnInv, Core, ConnType
<1>2. /\ k.writing /\ AllAlive(k) /\ a \in DOMAIN k.responses /\ r = k.responses[a]
      /\ Len(k.in_flight) <= 1
  BY DEF ConnInv, Linked
<1>3. r \in Response /\ r.id = a /\ (r.status = "overloaded" => Rejected(k, r))
  BY <1>1, <1>2, PartialType DEF ConnInv, Core
<1>4. k.socket # "unconnected"
  <2>1. NewConnection.in_flight = <<>>
    BY DEF NewConnection
  <2> QED BY <2>1 DEF ConnInv, Core
<1>5. /\ f \in PartialResponses /\ DOMAIN f = DOMAIN k.responses \ {a}
      /\ \A i \in DOMAIN f : f[i] = k.responses[i]
  BY <1>1, EraseOne
<1>6. Tail(k.in_flight) = <<>>
  BY <1>1, <1>2 DEF ConnType
<1> HIDE DEF r, f
<1>7. /\ w \in Seq(Response) /\ Len(w) = a + 1 /\ w[a + 1] = r
      /\ \A i \in 1 .. a : w[i] = k.written[i]
      /\ Len(k.written) = a
  BY <1>1, <1>3 DEF ConnInv, Core, ConnType
<1> HIDE DEF w
<1>8. /\ s \in ConnType
      /\ s.posted = k.posted /\ s.responses = f /\ s.socket = k.socket
      /\ s.written = w /\ s.in_flight = <<>>
      /\ s.writing = k.writing /\ s.reading = k.reading
      /\ s.next_sequence_id = n /\ s.next_response_sequence_id = a + 1
  <2>1. <<>> \in Seq(Write) /\ a + 1 \in Nat
    BY <1>1
  <2> QED BY <1>1, <1>5, <1>6, <1>7, <2>1 DEF ConnType
<1> HIDE DEF s
<1>9. Partition(s, T)
  <2> DEFINE P == {x.id : x \in k.posted}
             S == DOMAIN k.responses
             I == a .. (n - 1)
  <2>1. /\ T \cup P \cup S = I
        /\ T \cap P = {} /\ T \cap S = {} /\ P \cap S = {}
        /\ \A r1, r2 \in k.posted : r1.id = r2.id => r1 = r2
    BY DEF ConnInv, Core, Partition
  <2>2. (a + 1) .. (n - 1) = I \ {a}
    BY <1>1, RangeShrinks
  <2> HIDE DEF P, I
  <2>3. LET S2 == S \ {a} IN
          /\ T \cup P \cup S2 = (a + 1) .. (n - 1)
          /\ T \cap P = {} /\ T \cap S2 = {} /\ P \cap S2 = {}
    <3> HIDE DEF a, n
    <3>1. a \in S
      BY <1>2
    <3> HIDE DEF S
    <3> QED BY <2>1, <2>2, <3>1
  <2> QED BY <1>5, <1>8, <2>1, <2>3 DEF Partition, P
<1>10. a + 1 <= n
  <2>1. a \in a .. (n - 1)
    BY <1>2 DEF ConnInv, Core, Partition
  <2> QED BY <1>1, <2>1
<1>11. \A x : Rejected(s, x) <=> Rejected(k, x)
  BY <1>8 DEF Rejected
<1>12. \A i \in 1 .. a + 1 :
          w[i].id = i - 1 /\ (w[i].status = "overloaded" => Rejected(k, w[i]))
  <2>1. \A i \in 1 .. a :
          w[i].id = i - 1 /\ (w[i].status = "overloaded" => Rejected(k, w[i]))
    BY <1>7 DEF ConnInv, Core
  <2> QED BY <1>1, <1>3, <1>7, <2>1
<1>13. Core(s, T)
  <2>1. \A i \in DOMAIN f :
          f[i].id = i /\ (f[i].status = "overloaded" => Rejected(k, f[i]))
    BY <1>5 DEF ConnInv, Core
  <2>2. \A x \in k.posted : x.status = "overloaded" => Rejected(k, x)
    BY DEF ConnInv, Core
  <2> HIDE DEF a, n
  <2> QED BY <1>4, <1>7, <1>8, <1>9, <1>10, <1>11, <1>12, <2>1, <2>2 DEF Core
<1>14. \A i \in 1 .. a : w[i].keep_alive
  BY <1>2, <1>7 DEF AllAlive
<1>15. \A i \in 1 .. Len(w) : ~w[i].keep_alive => i = Len(w)
  BY <1>1, <1>7, <1>14
<1>16. r.keep_alive => AllAlive(s)
  <2>1. r.keep_alive => \A i \in 1 .. Len(w) : w[i].keep_alive
    BY <1>1, <1>7, <1>14
  <2> QED BY <1>8, <2>1 DEF AllAlive
<1>17. /\ s.in_flight = <<>> /\ s.writing /\ s.socket # "unconnected"
       /\ \A i \in 1 .. Len(s.written) : ~s.written[i].keep_alive => i = Len(s.written)
  BY <1>2, <1>4, <1>8, <1>15
<1> QED BY <1>13, <1>16, <1>17 DEF s, w, f, r

(***************************************************************************)
(* close(), called from the completion handler of a write, establishes the *)
(* invariant: `writing` stays set on a closed socket.                      *)
(***************************************************************************)
LEMMA CloseKeeps ==
    ASSUME NEW k, NEW T, Core(k, T), k.in_flight = <<>>, k.writing,
           \A i \in 1 .. Len(k.written) : ~k.written[i].keep_alive => i = Len(k.written)
    PROVE  ConnInv(close(k), T)
<1> DEFINE s == [k EXCEPT !.socket = "closed"]
<1>1. k \in ConnType /\ s \in ConnType
  BY DEF Core, ConnType
<1>2. Core(s, T)
  BY <1>1 DEF Core, ConnType, Partition, Rejected
<1>3. Linked(s)
  BY <1>1 DEF Linked, AllAlive, ConnType
<1> QED BY <1>2, <1>3 DEF ConnInv, close

(***************************************************************************)
(* The completion handler of a successful write keeps the invariant.       *)
(***************************************************************************)
LEMMA WrittenKeeps ==
    ASSUME NEW k, NEW T, ConnInv(k, T), k.in_flight # <<>>
    PROVE  ConnInv(OnWritten(k), T)
<1> DEFINE r == Head(k.in_flight).response
           s == [k EXCEPT
                   !.in_flight = Tail(k.in_flight),
                   !.written = Append(k.written, r),
                   !.responses = erase(k.responses, k.next_response_sequence_id),
                   !.next_response_sequence_id = k.next_response_sequence_id + 1]
<1>1. /\ Core(s, T)
      /\ s.in_flight = <<>> /\ s.writing
      /\ s.socket # "unconnected"
      /\ \A i \in 1 .. Len(s.written) : ~s.written[i].keep_alive => i = Len(s.written)
      /\ r.keep_alive => AllAlive(s)
  BY SentKeeps
<1>2. OnWritten(k) = IF r.keep_alive THEN write(s) ELSE close(s)
  BY DEF OnWritten
<1> HIDE DEF s
<1>3. CASE r.keep_alive
  BY <1>1, <1>2, <1>3, WriteKeeps
<1>4. CASE ~r.keep_alive
  BY <1>1, <1>2, <1>4, CloseKeeps
<1> QED BY <1>3, <1>4

(***************************************************************************)
(* The completion handler of a failed write keeps the invariant.           *)
(***************************************************************************)
LEMMA WriteErrorKeeps ==
    ASSUME NEW k, NEW T, ConnInv(k, T), k.in_flight # <<>>
    PROVE  ConnInv(OnWriteError(k), T)
<1> DEFINE s == [k EXCEPT !.in_flight = Tail(k.in_flight)]
<1>1. k \in ConnType /\ k.writing /\ k.socket # "unconnected"
  <2>1. NewConnection.in_flight = <<>>
    BY DEF NewConnection
  <2> QED BY <2>1 DEF ConnInv, Core, Linked
<1>2. Tail(k.in_flight) = <<>>
  BY <1>1 DEF ConnInv, Linked, ConnType
<1>3. s \in ConnType
  <2>1. <<>> \in Seq(Write)
    OBVIOUS
  <2> QED BY <1>1, <1>2, <2>1 DEF ConnType
<1>4. Core(s, T)
  BY <1>1, <1>3 DEF ConnInv, Core, ConnType, Partition, Rejected
<1>5. /\ s.in_flight = <<>> /\ s.writing
      /\ \A i \in 1 .. Len(s.written) : ~s.written[i].keep_alive => i = Len(s.written)
  BY <1>1, <1>2 DEF ConnInv, Linked, AllAlive, ConnType
<1> HIDE DEF s
<1> QED BY <1>4, <1>5, CloseKeeps DEF OnWriteError, s

-----------------------------------------------------------------------------
(***************************************************************************)
(* The inductive invariant of the whole, and its lift to the steps.        *)
(***************************************************************************)
IInv ==
    /\ conn \in [Connections -> ConnType]
    /\ tasks \subseteq Task
    /\ aborted \in BOOLEAN
    /\ \A c \in Connections : ConnInv(conn[c], TaskIds(c))

(***************************************************************************)
(* The invariant holds before any connection is started.                   *)
(***************************************************************************)
LEMMA InitHolds == Init => IInv
<1> SUFFICES ASSUME Init PROVE IInv
  OBVIOUS
<1>1. ConnInv(NewConnection, {}) /\ NewConnection \in ConnType
  BY NewInv DEF ConnInv, Core
<1>2. \A c \in Connections : TaskIds(c) = {} /\ conn[c] = NewConnection
  BY DEF Init, TaskIds
<1> QED BY <1>1, <1>2 DEF Init, IInv

(***************************************************************************)
(* A handler that keeps the invariant of its own connection and hands no   *)
(* task over keeps the invariant of all.                                   *)
(***************************************************************************)
LEMMA LocalStep ==
    ASSUME IInv, NEW c \in Connections, NEW k, Update(c, k),
           ConnInv(k, TaskIds(c)), UNCHANGED tasks, aborted' \in BOOLEAN
    PROVE  IInv'
<1>1. k \in ConnType
  BY DEF ConnInv, Core
<1>2. conn' \in [Connections -> ConnType]
  BY <1>1 DEF IInv, Update
<1>3. \A d \in Connections : TaskIds(d)' = TaskIds(d)
  BY DEF TaskIds
<1>4. ASSUME NEW d \in Connections PROVE ConnInv(conn'[d], TaskIds(d)')
  <2>1. conn'[d] = IF d = c THEN k ELSE conn[d]
    BY DEF Update, IInv
  <2> QED BY <1>3, <2>1 DEF IInv
<1> QED BY <1>2, <1>4 DEF IInv

(***************************************************************************)
(* Accepting a request keeps the invariant: the task is new and belongs to *)
(* this connection.                                                        *)
(***************************************************************************)
LEMMA AcceptStep ==
    ASSUME IInv, NEW c \in Connections, Accept(c)
    PROVE  IInv'
<1> DEFINE n == conn[c].next_sequence_id
           t == [connection |-> c, sequence_id |-> n]
<1>1. ConnInv(OnAccepted(conn[c]), TaskIds(c) \cup {n})
  BY AcceptKeeps DEF IInv, Accept, ReadAccepted, RequestRead
<1>2. OnAccepted(conn[c]) \in ConnType /\ n \in Nat
  BY <1>1 DEF ConnInv, Core, IInv, ConnType
<1>3. t \in Task /\ t.connection = c /\ t.sequence_id = n /\ tasks' = tasks \cup {t}
  BY <1>2 DEF Task, Accept
<1> HIDE DEF t, n
<1>4. conn' = [conn EXCEPT ![c] = OnAccepted(conn[c])] /\ aborted' = aborted
  BY DEF Accept, ReadAccepted, Update
<1>5. conn' \in [Connections -> ConnType] /\ tasks' \subseteq Task /\ aborted' \in BOOLEAN
  BY <1>2, <1>3, <1>4 DEF IInv
<1>6. ASSUME NEW d \in Connections PROVE ConnInv(conn'[d], TaskIds(d)')
  <2>1. TaskIds(d)' = IF d = c THEN TaskIds(c) \cup {n} ELSE TaskIds(d)
    BY <1>3 DEF TaskIds
  <2>2. conn'[d] = IF d = c THEN OnAccepted(conn[c]) ELSE conn[d]
    BY <1>4 DEF IInv
  <2> QED BY <1>1, <2>1, <2>2 DEF IInv
<1> QED BY <1>5, <1>6 DEF IInv

(***************************************************************************)
(* Answering a task keeps the invariant: no other task has its connection  *)
(* and id.                                                                 *)
(***************************************************************************)
LEMMA AnswerStep ==
    ASSUME IInv, Answer
    PROVE  IInv'
<1>1. PICK t \in tasks, b \in BOOLEAN : send_response(t, b) /\ tasks' = tasks \ {t}
  BY DEF Answer
<1> DEFINE c == t.connection
           i == t.sequence_id
           r == [id |-> i, keep_alive |-> b, status |-> "answer"]
           k == [conn[c] EXCEPT !.posted = @ \cup {r}]
<1>2. t \in Task /\ c \in Connections /\ i \in Nat
  BY DEF IInv, Task
<1>3. i \in TaskIds(c)
  BY DEF TaskIds
<1>4. r \in Response /\ r.id = i /\ r.status = "answer"
  BY <1>2 DEF Response
<1>5. conn' = [conn EXCEPT ![c] = k] /\ aborted' = aborted
  BY <1>1 DEF send_response, Update
<1> HIDE DEF r
<1>6. ConnInv(k, TaskIds(c) \ {i})
  BY <1>2, <1>3, <1>4, AnswerKeeps DEF IInv
<1>7. k \in ConnType
  BY <1>6 DEF ConnInv, Core
<1> HIDE DEF k
<1>8. conn' \in [Connections -> ConnType] /\ tasks' \subseteq Task /\ aborted' \in BOOLEAN
  BY <1>1, <1>2, <1>5, <1>7 DEF IInv
<1>9. ASSUME NEW d \in Connections PROVE ConnInv(conn'[d], TaskIds(d)')
  <2>1. TaskIds(d)' = IF d = c THEN TaskIds(c) \ {i} ELSE TaskIds(d)
    <3>1. \A u \in tasks : u.connection = c /\ u.sequence_id = i => u = t
      BY <1>2 DEF IInv, Task
    <3> QED BY <1>1, <3>1 DEF TaskIds
  <2>2. conn'[d] = IF d = c THEN k ELSE conn[d]
    BY <1>2, <1>5 DEF IInv
  <2> QED BY <1>6, <2>1, <2>2 DEF IInv
<1> QED BY <1>8, <1>9 DEF IInv

(***************************************************************************)
(* Every step of the connections and the workers keeps the invariant.      *)
(***************************************************************************)
LEMMA NextStep == IInv /\ [Next]_vars => IInv'
<1> SUFFICES ASSUME IInv, [Next]_vars PROVE IInv'
  OBVIOUS
<1>1. CASE UNCHANGED vars
  BY <1>1 DEF vars, IInv, TaskIds
<1>2. ASSUME NEW c \in Connections, Accept(c) PROVE IInv'
  BY <1>2, AcceptStep
<1>3. CASE Answer
  BY <1>3, AnswerStep
<1>4. ASSUME NEW c \in Connections, Strand(c) PROVE IInv'
  <2>1. aborted' \in BOOLEAN /\ UNCHANGED tasks
    BY <1>4 DEF Strand, RunPosted, Written, WriteError, IInv
  <2>2. CASE RunPosted(c)
    <3>1. PICK r \in conn[c].posted : Update(c, OnPosted(conn[c], r))
      BY <2>2 DEF RunPosted
    <3> QED BY <2>1, <3>1, PostedKeeps, LocalStep DEF IInv
  <2>3. CASE Written(c)
    BY <2>1, <2>3, WrittenKeeps, LocalStep DEF IInv, Written
  <2>4. CASE WriteError(c)
    BY <2>1, <2>4, WriteErrorKeeps, LocalStep DEF IInv, WriteError
  <2> QED BY <1>4, <2>2, <2>3, <2>4 DEF Strand
<1>5. ASSUME NEW c \in Connections, Start(c), UNCHANGED tasks PROVE IInv'
  BY <1>5, StartKeeps, LocalStep DEF IInv, Start
<1>6. ASSUME NEW c \in Connections, ReadRejected(c), UNCHANGED tasks PROVE IInv'
  BY <1>6, RejectKeeps, LocalStep DEF IInv, ReadRejected, RequestRead
<1>7. ASSUME NEW c \in Connections, ReadError(c), UNCHANGED tasks PROVE IInv'
  BY <1>7, ReadErrorKeeps, LocalStep DEF IInv, ReadError
<1>8. ASSUME NEW c \in Connections, ReadThrows(c), UNCHANGED tasks PROVE IInv'
  BY <1>8 DEF IInv, ReadThrows, TaskIds
<1>9. CASE Terminate
  BY <1>9 DEF IInv, Terminate, TaskIds
<1> QED BY <1>1, <1>2, <1>3, <1>4, <1>5, <1>6, <1>7, <1>8, <1>9 DEF Next

(***************************************************************************)
(* The inductive invariant holds throughout: the base of the theorems      *)
(* below.                                                                  *)
(***************************************************************************)
THEOREM Invariance == Init /\ [][Next]_vars => []IInv
BY InitHolds, NextStep, PTL

(***************************************************************************)
(* The members of a connection and the workers' tasks keep their types.    *)
(***************************************************************************)
THEOREM TypeCorrect == Spec => []TypeOK
<1>1. IInv => TypeOK
  <2> SUFFICES ASSUME IInv, NEW c \in Connections
               PROVE  LET k == conn[c] IN
                        /\ k.socket \in {"unconnected", "open", "closed"}
                        /\ k.reading \in BOOLEAN /\ k.writing \in BOOLEAN
                        /\ k.next_sequence_id \in Nat /\ k.next_response_sequence_id \in Nat
                        /\ k.posted \subseteq Response
                        /\ \A i \in DOMAIN k.responses : k.responses[i] \in Response
                        /\ k.in_flight \in Seq([response : Response, live : BOOLEAN])
                        /\ k.written \in Seq(Response)
    BY DEF IInv, TypeOK
  <2>1. conn[c] \in ConnType
    BY DEF IInv
  <2>2. conn[c].responses \in PartialResponses
    BY <2>1 DEF ConnType
  <2> QED BY <2>1, <2>2, PartialType DEF ConnType, Write
<1> QED BY <1>1, Invariance, PTL DEF Spec

(***************************************************************************)
(* However the workers finish, and whatever fails, the i-th response       *)
(* written by write() is the one to the i-th request read by read().       *)
(***************************************************************************)
THEOREM InOrder == Spec => []ResponsesInOrder
<1>1. IInv => ResponsesInOrder
  BY DEF IInv, ConnInv, Core, ResponsesInOrder
<1> QED BY <1>1, Invariance, PTL DEF Spec

(***************************************************************************)
(* The `writing` flag lets at most one async_write be outstanding.         *)
(***************************************************************************)
THEOREM SingleWriter == Spec => []OneWriteAtATime
<1>1. IInv => OneWriteAtATime
  BY DEF IInv, ConnInv, Linked, OneWriteAtATime
<1> QED BY <1>1, Invariance, PTL DEF Spec

(***************************************************************************)
(* Every request read and not yet answered is in exactly one place: with   *)
(* the workers, in a handler posted to the strand, or in `responses`.      *)
(***************************************************************************)
THEOREM NothingForgotten == Spec => []EveryRequestHeld
<1>1. IInv => EveryRequestHeld
  BY DEF IInv, ConnInv, Core, Partition, EveryRequestHeld, PostedIds, StoredIds
<1> QED BY <1>1, Invariance, PTL DEF Spec

(***************************************************************************)
(* While the socket is open, `writing` never keeps a response whose turn   *)
(* has come from being written.                                            *)
(***************************************************************************)
THEOREM NoStall == Spec => []NextResponseIsBeingWritten
<1>1. IInv => NextResponseIsBeingWritten
  <2> SUFFICES ASSUME IInv, NEW c \in Connections,
                      conn[c].socket = "open",
                      conn[c].next_response_sequence_id \in StoredIds(c)
               PROVE  conn[c].in_flight # <<>>
    BY DEF NextResponseIsBeingWritten
  <2>1. Linked(conn[c])
    BY DEF IInv, ConnInv
  <2> QED BY <2>1 DEF Linked, StoredIds
<1> QED BY <1>1, Invariance, PTL DEF Spec

(***************************************************************************)
(* The 503 of reject_overloaded is the answer to the last request read,    *)
(* and the connection is closed once it has been written.                  *)
(***************************************************************************)
THEOREM RejectedLast == Spec => []RejectionIsLast
<1>1. IInv => RejectionIsLast
  <2> SUFFICES ASSUME IInv, NEW c \in Connections
               PROVE  LET k == conn[c] IN
                        /\ \A r \in k.posted \cup Range(k.responses) \cup Range(k.written) :
                              r.status = "overloaded" =>
                                r.id = k.next_sequence_id - 1 /\ ~k.reading
                        /\ \A r \in Range(k.written) :
                              r.status = "overloaded" => k.socket = "closed"
    BY DEF RejectionIsLast
  <2> DEFINE k == conn[c]
  <2>1. Core(k, TaskIds(c)) /\ Linked(k) /\ k \in ConnType
    BY DEF IInv, ConnInv
  <2> HIDE DEF k
  <2>2. \A r \in Range(k.responses) : \E i \in DOMAIN k.responses : r = k.responses[i]
    BY DEF Range
  <2>3. \A r \in Range(k.written) : \E i \in 1 .. Len(k.written) : r = k.written[i]
    BY <2>1 DEF Range, ConnType
  <2>4. \A r \in k.posted \cup Range(k.responses) \cup Range(k.written) :
           r.status = "overloaded" => Rejected(k, r)
    BY <2>1, <2>2, <2>3 DEF Core
  <2>5. \A r \in Range(k.written) : r.status = "overloaded" => k.socket = "closed"
    BY <2>1, <2>3 DEF Core, Linked, AllAlive, Rejected
  <2> QED BY <2>4, <2>5 DEF Rejected, k
<1> QED BY <1>1, Invariance, PTL DEF Spec

(***************************************************************************)
(* A response without keep-alive is the last one on its connection.        *)
(***************************************************************************)
THEOREM ClosesLast == Spec => []LastResponseCloses
<1>1. IInv => LastResponseCloses
  BY DEF IInv, ConnInv, Linked, AllAlive, LastResponseCloses
<1> QED BY <1>1, Invariance, PTL DEF Spec
=============================================================================
