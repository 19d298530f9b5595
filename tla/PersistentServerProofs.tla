----------------------- MODULE PersistentServerProofs -----------------------
(***************************************************************************)
(* For any number of sessions, callers, packets and messages: messages are *)
(* written once and in order, one at a time, and a server that has been    *)
(* stopped has no thread left.                                             *)
(***************************************************************************)
EXTENDS PersistentServer, SequenceLemmas

-----------------------------------------------------------------------------
(* One session. *)

SessionType ==
    [stream : {"new", "handshake", "open", "closed"}, accepting : BOOLEAN,
     reading : BOOLEAN, packets : Nat, sends : Nat, posted : Seq(Nat),
     write_queue : Seq(Nat), writes : Seq([live : BOOLEAN]), sent : Seq(Nat),
     failed : BOOLEAN]

\* The messages are in order, and there is at most one write, of a message that
\* is still in write_queue.
Good(k) ==
    /\ k \in SessionType
    /\ k.sent \o k.write_queue \o k.posted = [i \in 1 .. k.sends |-> i]
    /\ Len(k.writes) <= 1
    /\ k.writes # <<>> => k.write_queue # <<>>

(***************************************************************************)
(* Handlers that leave the messages and writes of a session alone.         *)
(***************************************************************************)
LEMMA GoodQuiet ==
    ASSUME NEW k, Good(k), NEW j \in SessionType,
           j.sent = k.sent, j.write_queue = k.write_queue, j.posted = k.posted,
           j.sends = k.sends, j.writes = k.writes
    PROVE  Good(j)
BY Zenon DEF Good

(***************************************************************************)
(* send() posts the next message.                                          *)
(***************************************************************************)
LEMMA GoodSend ==
    ASSUME NEW k, Good(k),
           NEW j, j = [k EXCEPT !.sends = @ + 1, !.posted = Append(@, k.sends + 1)]
    PROVE  Good(j)
<1>1. /\ k.sent \in Seq(Nat) /\ k.write_queue \in Seq(Nat) /\ k.posted \in Seq(Nat)
      /\ k.sends \in Nat
  BY DEF Good, SessionType
<1>2. /\ j \in SessionType /\ j.sent = k.sent /\ j.write_queue = k.write_queue
      /\ j.writes = k.writes /\ j.sends = k.sends + 1
      /\ j.posted = Append(k.posted, k.sends + 1)
  <2>1. k.sends + 1 \in Nat /\ Append(k.posted, k.sends + 1) \in Seq(Nat)
    BY <1>1
  <2> QED BY <2>1, Zenon DEF Good, SessionType
<1>3. k.sent \o k.write_queue \in Seq(Nat)
  BY <1>1, Joined
<1>4. (k.sent \o k.write_queue) \o Append(k.posted, k.sends + 1)
        = [i \in 1 .. k.sends + 1 |-> i]
  BY <1>1, <1>3, NextMessage, Zenon DEF Good
<1> QED BY <1>2, <1>4, Zenon DEF Good

(***************************************************************************)
(* The posted handler moves the message to write_queue, and starts a write *)
(* if the queue was empty, when there can be none.                         *)
(***************************************************************************)
LEMMA GoodPosted ==
    ASSUME NEW k, Good(k), k.posted # <<>> PROVE Good(S!OnPosted(k))
<1>1. /\ k.sent \in Seq(Nat) /\ k.write_queue \in Seq(Nat) /\ k.posted \in Seq(Nat)
      /\ k.writes \in Seq([live : BOOLEAN])
  BY DEF Good, SessionType
<1> DEFINE w == Append(k.write_queue, Head(k.posted))
           p == Tail(k.posted)
           j == [k EXCEPT !.posted = p, !.write_queue = w]
<1>2. w \in Seq(Nat) /\ p \in Seq(Nat) /\ w \o p = k.write_queue \o k.posted
  BY <1>1, MoveHead, Zenon
<1>2a. w # <<>>
  <2>1. Len(w) = Len(k.write_queue) + 1 /\ Len(k.write_queue) \in Nat
    BY <1>1
  <2> HIDE DEF w
  <2> QED BY <1>2, <2>1
<1>3. /\ j \in SessionType /\ j.sent = k.sent /\ j.sends = k.sends
      /\ j.writes = k.writes /\ j.write_queue = w /\ j.posted = p
  <2> HIDE DEF w, p
  <2> QED BY <1>2, Zenon DEF Good, SessionType
<1>4. (k.sent \o w) \o p = (k.sent \o k.write_queue) \o k.posted
  <2> HIDE DEF w, p
  <2>1. (k.sent \o w) \o p = k.sent \o (w \o p)
    <3>1. k.sent \in Seq(Nat)
      BY <1>1
    <3> QED BY <1>2, <3>1, Associative, Zenon
  <2>2. (k.sent \o k.write_queue) \o k.posted = k.sent \o (k.write_queue \o k.posted)
    BY <1>1, Associative, Zenon
  <2> QED BY <1>2, <2>1, <2>2, Zenon
<1>5. Good(j)
  <2> HIDE DEF w, p, j
  <2> QED BY <1>2a, <1>3, <1>4 DEF Good
<1>6. CASE k.write_queue # <<>>
  BY <1>5, <1>6 DEF S!OnPosted
<1>7. CASE k.write_queue = <<>>
  <2>1. k.writes = <<>>
    BY <1>7 DEF Good
  <2> DEFINE l == [j EXCEPT !.writes = Append(@, [live |-> j.stream # "closed"])]
  <2>2. S!OnPosted(k) = l
    BY <1>7 DEF S!OnPosted, S!write_message_async
  <2> HIDE DEF w, p, j
  <2>3. /\ Append(j.writes, [live |-> j.stream # "closed"]) \in Seq([live : BOOLEAN])
        /\ Len(Append(j.writes, [live |-> j.stream # "closed"])) = 1
    BY <1>3, <2>1
  <2>4. /\ l \in SessionType /\ l.sent = j.sent /\ l.sends = j.sends
        /\ l.write_queue = j.write_queue /\ l.posted = j.posted /\ Len(l.writes) = 1
    BY <1>3, <2>3, Zenon DEF SessionType
  <2> HIDE DEF l
  <2>5. l.sent \o l.write_queue \o l.posted = [i \in 1 .. l.sends |-> i]
    BY <1>5, <2>4, Zenon DEF Good
  <2>6. l.write_queue # <<>>
    BY <1>3, <1>2a, <2>4, Zenon
  <2>7. Good(l)
    BY <2>4, <2>5, <2>6 DEF Good
  <2> QED BY <2>2, <2>7, Zenon
<1> QED BY <1>6, <1>7

(***************************************************************************)
(* The handler of a write moves the message from write_queue to the wire,  *)
(* and starts the next write if a message is left.                         *)
(***************************************************************************)
LEMMA GoodWritten ==
    ASSUME NEW k, Good(k), k.writes # <<>> PROVE Good(S!OnWritten(k))
<1>1. /\ k.sent \in Seq(Nat) /\ k.write_queue \in Seq(Nat) /\ k.posted \in Seq(Nat)
      /\ k.writes \in Seq([live : BOOLEAN])
  BY DEF Good, SessionType
<1>2. k.write_queue # <<>> /\ Tail(k.writes) = <<>> /\ <<>> \in Seq([live : BOOLEAN])
  BY <1>1 DEF Good
<1> DEFINE a == Append(k.sent, Head(k.write_queue))
           w == Tail(k.write_queue)
           j == [k EXCEPT !.writes = Tail(@), !.sent = a, !.write_queue = w]
<1>3. a \in Seq(Nat) /\ w \in Seq(Nat) /\ a \o w = k.sent \o k.write_queue
  BY <1>1, <1>2, MoveHead, Zenon
<1>4. /\ j \in SessionType /\ j.sent = a /\ j.sends = k.sends
      /\ j.writes = <<>> /\ j.write_queue = w /\ j.posted = k.posted
  <2> HIDE DEF a, w
  <2> QED BY <1>2, <1>3, Zenon DEF Good, SessionType
<1>5. (a \o w) \o k.posted = [i \in 1 .. k.sends |-> i]
  <2> HIDE DEF a, w
  <2> QED BY <1>3, Zenon DEF Good
<1>6. Good(j)
  <2> HIDE DEF a, w, j
  <2>1. j.sent \o j.write_queue \o j.posted = [i \in 1 .. j.sends |-> i]
    BY <1>4, <1>5, Zenon
  <2>2. Len(j.writes) <= 1
    BY <1>4
  <2> QED BY <1>4, <2>1, <2>2 DEF Good
<1>7. CASE w = <<>>
  <2>1. S!OnWritten(k) = j
    BY <1>4, <1>7 DEF S!OnWritten
  <2> HIDE DEF a, w, j
  <2> QED BY <1>6, <2>1, Zenon
<1>8. CASE w # <<>>
  <2> DEFINE l == [j EXCEPT !.writes = Append(@, [live |-> j.stream # "closed"])]
  <2>1. S!OnWritten(k) = l
    BY <1>4, <1>8 DEF S!OnWritten, S!write_message_async
  <2> HIDE DEF a, w, j
  <2>2. /\ Append(j.writes, [live |-> j.stream # "closed"]) \in Seq([live : BOOLEAN])
        /\ Len(Append(j.writes, [live |-> j.stream # "closed"])) = 1
    BY <1>2, <1>4
  <2>3. /\ l \in SessionType /\ l.sent = j.sent /\ l.sends = j.sends
        /\ l.write_queue = j.write_queue /\ l.posted = j.posted /\ Len(l.writes) = 1
    BY <1>4, <2>2, Zenon DEF SessionType
  <2> HIDE DEF l
  <2>4. l.sent \o l.write_queue \o l.posted = [i \in 1 .. l.sends |-> i]
    BY <1>6, <2>3, Zenon DEF Good
  <2>5. l.write_queue # <<>>
    BY <1>4, <1>8, <2>3, Zenon
  <2>6. Good(l)
    BY <2>3, <2>4, <2>5 DEF Good
  <2> QED BY <2>1, <2>6, Zenon
<1> QED BY <1>7, <1>8

(***************************************************************************)
(* The handler of a write that failed leaves the message where it is.      *)
(***************************************************************************)
LEMMA GoodError ==
    ASSUME NEW k, Good(k), k.writes # <<>> PROVE Good(S!OnWriteError(k))
<1> DEFINE j == S!OnWriteError(k)
<1>1. k.writes \in Seq([live : BOOLEAN])
  BY DEF Good, SessionType
<1>2. Tail(k.writes) = <<>> /\ <<>> \in Seq([live : BOOLEAN])
  BY <1>1 DEF Good
<1>3. /\ j \in SessionType /\ j.sent = k.sent /\ j.sends = k.sends
      /\ j.writes = <<>> /\ j.write_queue = k.write_queue /\ j.posted = k.posted
  BY <1>2, Zenon DEF S!OnWriteError, Good, SessionType
<1> HIDE DEF j
<1>4. j.sent \o j.write_queue \o j.posted = [i \in 1 .. j.sends |-> i]
  BY <1>3, Zenon DEF Good
<1>5. Len(j.writes) <= 1
  BY <1>3
<1>6. Good(j)
  BY <1>3, <1>4, <1>5, Zenon DEF Good
<1> QED BY <1>6 DEF j

-----------------------------------------------------------------------------
(* The sessions of the server. *)

SessionsGood ==
    /\ session \in [Sessions -> SessionType]
    /\ \A s \in Sessions : Good(session[s])

(***************************************************************************)
(* A handler changes one session.                                          *)
(***************************************************************************)
LEMMA UpdateGood ==
    ASSUME SessionsGood, NEW s \in Sessions, NEW k, Good(k), S!Update(s, k)
    PROVE  SessionsGood'
<1>1. k \in SessionType
  BY DEF Good
<1>2. session' = [session EXCEPT ![s] = k]
  BY DEF S!Update
<1>3. session' \in [Sessions -> SessionType]
  BY <1>1, <1>2 DEF SessionsGood
<1>4. ASSUME NEW u \in Sessions PROVE Good(session'[u])
  <2>1. CASE u = s
    BY <1>2, <2>1 DEF SessionsGood
  <2>2. CASE u # s
    BY <1>2, <2>2 DEF SessionsGood
  <2> QED BY <2>1, <2>2
<1> QED BY <1>3, <1>4 DEF SessionsGood

(***************************************************************************)
(* The handshake, the handlers of reads and close().                       *)
(***************************************************************************)
LEMMA QuietHandlers ==
    ASSUME SessionsGood, NEW s \in Sessions,
           \/ S!start(s) \/ S!Accepted(s) \/ S!AcceptError(s) \/ S!ReadError(s)
           \/ S!PacketAccepted(s) \/ S!PacketRejected(s) \/ S!CloseReturns(s)
    PROVE  SessionsGood'
<1> DEFINE k == session[s]
           Same(j) == /\ j.sent = k.sent /\ j.write_queue = k.write_queue
                      /\ j.posted = k.posted /\ j.sends = k.sends /\ j.writes = k.writes
<1>1. Good(k) /\ k \in SessionType
  BY DEF SessionsGood
<1>2. k.packets + 1 \in Nat
  BY <1>1 DEF SessionType
<1>3. PICK j \in SessionType : S!Update(s, j) /\ Same(j)
  <2>1. CASE S!start(s)
    <3> DEFINE n == [k EXCEPT !.stream = "handshake", !.accepting = TRUE]
    <3>1. S!Update(s, n)
      BY <2>1 DEF S!start
    <3>2. n \in SessionType /\ Same(n)
      BY <1>1, Zenon DEF SessionType
    <3> HIDE DEF n
    <3> QED BY <3>1, <3>2
  <2>2. CASE S!Accepted(s)
    <3> DEFINE n == [k EXCEPT !.accepting = FALSE, !.stream = "open", !.reading = TRUE]
    <3>1. S!Update(s, n)
      BY <2>2 DEF S!Accepted
    <3>2. n \in SessionType /\ Same(n)
      BY <1>1, Zenon DEF SessionType
    <3> HIDE DEF n
    <3> QED BY <3>1, <3>2
  <2>3. CASE S!AcceptError(s)
    <3> DEFINE n == [k EXCEPT !.accepting = FALSE, !.stream = "closed"]
    <3>1. S!Update(s, n)
      BY <2>3 DEF S!AcceptError
    <3>2. n \in SessionType /\ Same(n)
      BY <1>1, Zenon DEF SessionType
    <3> HIDE DEF n
    <3> QED BY <3>1, <3>2
  <2>4. CASE S!ReadError(s)
    <3> DEFINE n == [k EXCEPT !.reading = FALSE, !.stream = "closed"]
    <3>1. S!Update(s, n)
      BY <2>4 DEF S!ReadError
    <3>2. n \in SessionType /\ Same(n)
      BY <1>1, Zenon DEF SessionType
    <3> HIDE DEF n
    <3> QED BY <3>1, <3>2
  <2>5. CASE S!PacketAccepted(s)
    <3> DEFINE n == [k EXCEPT !.packets = @ + 1]
    <3>1. S!Update(s, n)
      BY <2>5 DEF S!PacketAccepted
    <3>2. n \in SessionType /\ Same(n)
      BY <1>1, <1>2, Zenon DEF SessionType
    <3> HIDE DEF n
    <3> QED BY <3>1, <3>2
  <2>6. CASE S!PacketRejected(s)
    <3> DEFINE n == [k EXCEPT !.packets = @ + 1, !.reading = FALSE]
    <3>1. S!Update(s, n)
      BY <2>6 DEF S!PacketRejected
    <3>2. n \in SessionType /\ Same(n)
      BY <1>1, <1>2, Zenon DEF SessionType
    <3> HIDE DEF n
    <3> QED BY <3>1, <3>2
  <2>7. CASE S!CloseReturns(s)
    <3> DEFINE n == [k EXCEPT !.stream = "closed", !.reading = TRUE]
    <3>1. S!Update(s, n)
      BY <2>7 DEF S!CloseReturns
    <3>2. n \in SessionType /\ Same(n)
      BY <1>1, ZenonT(30) DEF SessionType
    <3> HIDE DEF n
    <3> QED BY <3>1, <3>2
  <2> QED BY <2>1, <2>2, <2>3, <2>4, <2>5, <2>6, <2>7
<1> HIDE DEF k
<1>4. Good(j)
  BY <1>1, <1>3, GoodQuiet
<1> QED BY <1>3, <1>4, UpdateGood

(***************************************************************************)
(* send() and the handlers of posts and writes.                            *)
(***************************************************************************)
LEMMA MessageHandlers ==
    ASSUME SessionsGood, NEW s \in Sessions,
           S!send(s) \/ S!RunPosted(s) \/ S!Written(s) \/ S!WriteError(s)
    PROVE  SessionsGood'
<1>1. Good(session[s])
  BY DEF SessionsGood
<1>2. CASE S!send(s)
  <2> DEFINE j == [session[s] EXCEPT !.sends = @ + 1,
                                     !.posted = Append(@, session[s].sends + 1)]
  <2>1. S!Update(s, j)
    BY <1>2 DEF S!send
  <2>2. Good(j)
    BY <1>1, GoodSend, Zenon
  <2> HIDE DEF j
  <2> QED BY <2>1, <2>2, UpdateGood
<1>3. CASE S!RunPosted(s)
  <2>1. Good(S!OnPosted(session[s])) /\ S!Update(s, S!OnPosted(session[s]))
    BY <1>1, <1>3, GoodPosted DEF S!RunPosted
  <2> QED BY <2>1, UpdateGood
<1>4. CASE S!Written(s)
  <2>1. Good(S!OnWritten(session[s])) /\ S!Update(s, S!OnWritten(session[s]))
    BY <1>1, <1>4, GoodWritten DEF S!Written
  <2> QED BY <2>1, UpdateGood
<1>5. CASE S!WriteError(s)
  <2>1. Good(S!OnWriteError(session[s])) /\ S!Update(s, S!OnWriteError(session[s]))
    BY <1>1, <1>5, GoodError DEF S!WriteError
  <2> QED BY <2>1, UpdateGood
<1> QED BY <1>2, <1>3, <1>4, <1>5

-----------------------------------------------------------------------------
(* The streams of the sessions. *)

\* The handshake of the session is over.
Settled(k) == k.stream \in {"open", "closed"}

\* A read is outstanding only after the handshake, and nothing before start().
Steady(k) ==
    /\ k.stream = "new" => ~k.accepting /\ k.posted = <<>> /\ k.writes = <<>>
    /\ k.stream = "handshake" => k.accepting
    /\ k.reading => Settled(k)

SessionsSteady ==
    /\ closing \subseteq Sessions
    /\ \A s \in Sessions : Steady(session[s])
    /\ \A s \in closing : Settled(session[s])

\* j follows k, and a stream that is not new stays so.
Follows(k, j) ==
    /\ Steady(j)
    /\ Settled(k) => Settled(j)
    /\ j.stream = "new" <=> k.stream = "new"

(***************************************************************************)
(* A write is started with the stream as it is.                            *)
(***************************************************************************)
LEMMA WriteFollows ==
    ASSUME NEW k, NEW j \in SessionType, Follows(k, j), j.stream # "new"
    PROVE  Follows(k, S!write_message_async(j))
<1> DEFINE l == S!write_message_async(j)
<1>1. l = [j EXCEPT !.writes = Append(@, [live |-> j.stream # "closed"])]
  BY DEF S!write_message_async
<1>2. l.stream = j.stream /\ l.accepting = j.accepting /\ l.reading = j.reading
  BY <1>1 DEF SessionType
<1> HIDE DEF l
<1>3. Follows(k, l)
  BY <1>2 DEF Follows, Steady, Settled
<1> QED BY <1>3 DEF l

(***************************************************************************)
(* The handlers of posts and of writes.                                    *)
(***************************************************************************)
LEMMA MessagesFollow ==
    ASSUME NEW k, Good(k), Steady(k)
    PROVE  /\ k.stream # "new" =>
                 Follows(k, [k EXCEPT !.sends = @ + 1, !.posted = Append(@, k.sends + 1)])
           /\ k.posted # <<>> => Follows(k, S!OnPosted(k))
           /\ k.writes # <<>> => Follows(k, S!OnWritten(k)) /\ Follows(k, S!OnWriteError(k))
<1>1. k \in SessionType
  BY DEF Good
<1>2. Follows(k, k)
  BY DEF Follows
<1>3. k.stream # "new" =>
        Follows(k, [k EXCEPT !.sends = @ + 1, !.posted = Append(@, k.sends + 1)])
  BY <1>1 DEF Follows, Steady, Settled, SessionType
<1>4. ASSUME k.posted # <<>> PROVE Follows(k, S!OnPosted(k))
  <2> DEFINE j == [k EXCEPT !.posted = Tail(@), !.write_queue = Append(@, Head(k.posted))]
  <2>1. j \in SessionType /\ j.writes = k.writes
    <3>1. /\ Tail(k.posted) \in Seq(Nat)
          /\ Append(k.write_queue, Head(k.posted)) \in Seq(Nat)
      BY <1>1, <1>4 DEF SessionType
    <3> QED BY <1>1, <3>1, Zenon DEF SessionType
  <2>2. Follows(k, j) /\ j.stream # "new"
    <3>1. k.stream # "new" /\ j.stream = k.stream /\ j.accepting = k.accepting
          /\ j.reading = k.reading
      BY <1>1, <1>4 DEF Steady, SessionType
    <3> HIDE DEF j
    <3> QED BY <3>1 DEF Follows, Steady, Settled
  <2>3. S!OnPosted(k) = IF k.write_queue = <<>> THEN S!write_message_async(j) ELSE j
    BY DEF S!OnPosted
  <2> HIDE DEF j
  <2> QED BY <2>1, <2>2, <2>3, WriteFollows
<1>5. ASSUME k.writes # <<>> PROVE Tail(k.writes) = <<>> /\ <<>> \in Seq([live : BOOLEAN])
  BY <1>1, <1>5 DEF Good, SessionType
<1>6. ASSUME k.writes # <<>> PROVE Follows(k, S!OnWritten(k))
  <2> DEFINE j == [k EXCEPT !.writes = Tail(@), !.sent = Append(@, Head(k.write_queue)),
                            !.write_queue = Tail(@)]
  <2>1. j \in SessionType /\ j.writes = <<>>
    <3>1. k.write_queue # <<>>
      BY <1>6 DEF Good
    <3>2. /\ Tail(k.write_queue) \in Seq(Nat)
          /\ Append(k.sent, Head(k.write_queue)) \in Seq(Nat)
      BY <1>1, <3>1 DEF SessionType
    <3> QED BY <1>1, <1>5, <1>6, <3>2, Zenon DEF SessionType
  <2>2. /\ j.stream = k.stream /\ j.accepting = k.accepting /\ j.reading = k.reading
        /\ k.stream # "new"
    BY <1>1, <1>6 DEF SessionType, Steady
  <2>3. S!OnWritten(k) = IF j.write_queue = <<>> THEN j ELSE S!write_message_async(j)
    BY DEF S!OnWritten
  <2> HIDE DEF j
  <2>4. Follows(k, j)
    BY <2>2 DEF Follows, Steady, Settled
  <2> QED BY <2>1, <2>2, <2>3, <2>4, WriteFollows
<1>7. ASSUME k.writes # <<>> PROVE Follows(k, S!OnWriteError(k))
  <2> DEFINE j == S!OnWriteError(k)
  <2>1. j.stream = "closed"
    BY <1>1 DEF S!OnWriteError, SessionType
  <2>2. k.stream # "new"
    BY <1>7 DEF Steady
  <2> HIDE DEF j
  <2>3. Follows(k, j)
    BY <2>1, <2>2 DEF Follows, Steady, Settled
  <2> QED BY <2>3 DEF j
<1> QED BY <1>3, <1>4, <1>6, <1>7

\* The sessions whose streams are new are the same after a step.
SameNew == \A u \in Sessions : session'[u].stream = "new" <=> session[u].stream = "new"

(***************************************************************************)
(* A handler moves the stream of one session on.                           *)
(***************************************************************************)
LEMMA UpdateSteady ==
    ASSUME SessionsGood, SessionsSteady, NEW s \in Sessions, NEW j, S!Update(s, j),
           Steady(j), Settled(session[s]) => Settled(j),
           closing' \subseteq closing \cup {s}, s \in closing' => Settled(j)
    PROVE  /\ SessionsSteady'
           /\ \A u \in Sessions : session'[u] = IF u = s THEN j ELSE session[u]
<1>1. session' = [session EXCEPT ![s] = j]
  BY DEF S!Update
<1>2. \A u \in Sessions : session'[u] = IF u = s THEN j ELSE session[u]
  BY <1>1 DEF SessionsGood
<1>3. closing' \subseteq Sessions
  BY DEF SessionsSteady
<1>4. \A u \in closing' : Settled(session'[u])
  BY <1>2, <1>3 DEF SessionsSteady
<1>5. \A u \in Sessions : Steady(session'[u])
  BY <1>2 DEF SessionsSteady
<1> QED BY <1>2, <1>3, <1>4, <1>5 DEF SessionsSteady

(***************************************************************************)
(* The same of a handler that follows the state of its session.            *)
(***************************************************************************)
LEMMA UpdateFollows ==
    ASSUME SessionsGood, SessionsSteady, NEW s \in Sessions, NEW j, S!Update(s, j),
           Follows(session[s], j),
           closing' \subseteq closing \cup {s}, s \in closing' => Settled(j)
    PROVE  SessionsSteady' /\ SameNew
<1>1. /\ SessionsSteady'
      /\ \A u \in Sessions : session'[u] = IF u = s THEN j ELSE session[u]
  BY UpdateSteady DEF Follows
<1> QED BY <1>1 DEF Follows, SameNew

(***************************************************************************)
(* start() begins the handshake of a new session; close(), the handlers    *)
(* and send() leave none new and make none so.                             *)
(***************************************************************************)
LEMMA StartSteady ==
    ASSUME SessionsGood, SessionsSteady, NEW s \in Sessions, S!start(s)
    PROVE  /\ SessionsSteady'
           /\ \A u \in Sessions : session'[u].stream = "new" <=> session[u].stream = "new" /\ u # s
<1> DEFINE k == session[s]
           j == [k EXCEPT !.stream = "handshake", !.accepting = TRUE]
<1>1. k \in SessionType /\ Steady(k) /\ k.stream = "new"
  BY DEF SessionsGood, SessionsSteady, S!start
<1>2. S!Update(s, j) /\ closing' = closing /\ s \notin closing
  BY <1>1 DEF S!start, SessionsSteady, Settled
<1>3. ~Settled(k)
  BY <1>1 DEF Settled
<1>4. j.stream = "handshake" /\ j.accepting = TRUE /\ j.reading = k.reading /\ j.writes = k.writes
  BY <1>1 DEF SessionType
<1> HIDE DEF j
<1>5. Steady(j)
  BY <1>1, <1>3, <1>4 DEF Steady, Settled
<1>6. /\ SessionsSteady'
      /\ \A u \in Sessions : session'[u] = IF u = s THEN j ELSE session[u]
  BY <1>2, <1>3, <1>5, UpdateSteady
<1> QED BY <1>4, <1>6

(***************************************************************************)
(* The handlers of one session, from its accept to its close, leave every  *)
(* session steady.                                                         *)
(***************************************************************************)
LEMMA HandlersSteady ==
    ASSUME SessionsGood, SessionsSteady, NEW s \in Sessions,
           \/ S!Accepted(s) \/ S!AcceptError(s) \/ S!ReadError(s)
           \/ S!PacketAccepted(s) \/ S!PacketRejected(s) \/ S!CloseReturns(s)
           \/ S!send(s) \/ S!RunPosted(s) \/ S!Written(s) \/ S!WriteError(s)
    PROVE  SessionsSteady' /\ SameNew
<1> DEFINE k == session[s]
<1>1. k \in SessionType /\ Good(k) /\ Steady(k) /\ (s \in closing => Settled(k))
  BY DEF SessionsGood, SessionsSteady
<1>2. PICK j : /\ S!Update(s, j) /\ Follows(k, j)
               /\ closing' \subseteq closing \cup {s}
               /\ s \in closing' => Settled(j)
  <2>1. CASE S!Accepted(s)
    <3> DEFINE n == [k EXCEPT !.accepting = FALSE, !.stream = "open", !.reading = TRUE]
    <3>1. S!Update(s, n) /\ closing' = closing /\ k.accepting
      BY <2>1 DEF S!Accepted
    <3>2. Follows(k, n) /\ Settled(n)
      BY <1>1, <3>1 DEF Follows, Steady, Settled, SessionType
    <3> HIDE DEF n
    <3> QED BY <3>1, <3>2
  <2>2. CASE S!AcceptError(s)
    <3> DEFINE n == [k EXCEPT !.accepting = FALSE, !.stream = "closed"]
    <3>1. S!Update(s, n) /\ closing' = closing /\ k.accepting
      BY <2>2 DEF S!AcceptError
    <3>2. Follows(k, n) /\ Settled(n)
      BY <1>1, <3>1 DEF Follows, Steady, Settled, SessionType
    <3> HIDE DEF n
    <3> QED BY <3>1, <3>2
  <2>3. CASE S!ReadError(s)
    <3> DEFINE n == [k EXCEPT !.reading = FALSE, !.stream = "closed"]
    <3>1. S!Update(s, n) /\ closing' = closing /\ k.reading
      BY <2>3 DEF S!ReadError
    <3>2. Follows(k, n) /\ Settled(n)
      BY <1>1, <3>1 DEF Follows, Steady, Settled, SessionType
    <3> HIDE DEF n
    <3> QED BY <3>1, <3>2
  <2>4. CASE S!PacketAccepted(s)
    <3> DEFINE n == [k EXCEPT !.packets = @ + 1]
    <3>1. S!Update(s, n) /\ closing' = closing
      BY <2>4 DEF S!PacketAccepted
    <3>2. Follows(k, n) /\ (Settled(k) => Settled(n))
      BY <1>1 DEF Follows, Steady, Settled, SessionType
    <3> HIDE DEF n
    <3> QED BY <1>1, <3>1, <3>2
  <2>5. CASE S!PacketRejected(s)
    <3> DEFINE n == [k EXCEPT !.packets = @ + 1, !.reading = FALSE]
    <3>1. S!Update(s, n) /\ closing' = closing \cup {s} /\ k.stream = "open"
      BY <2>5 DEF S!PacketRejected, S!PacketRead
    <3>2. Follows(k, n) /\ Settled(n)
      BY <1>1, <3>1 DEF Follows, Steady, Settled, SessionType
    <3> HIDE DEF n
    <3> QED BY <3>1, <3>2
  <2>6. CASE S!CloseReturns(s)
    <3> DEFINE n == [k EXCEPT !.stream = "closed", !.reading = TRUE]
    <3>1. S!Update(s, n) /\ closing' = closing \ {s} /\ Settled(k)
      BY <1>1, <2>6 DEF S!CloseReturns
    <3>2. Follows(k, n) /\ Settled(n)
      BY <1>1, <3>1 DEF Follows, Steady, Settled, SessionType
    <3> HIDE DEF n
    <3> QED BY <3>1, <3>2
  <2>7. CASE S!send(s)
    <3> DEFINE n == [k EXCEPT !.sends = @ + 1, !.posted = Append(@, k.sends + 1)]
    <3>1. S!Update(s, n) /\ closing' = closing /\ k.stream # "new"
      BY <2>7 DEF S!send
    <3>2. Follows(k, n)
      BY <1>1, <3>1, MessagesFollow, Zenon
    <3> HIDE DEF n
    <3> QED BY <1>1, <3>1, <3>2 DEF Follows
  <2>8. CASE S!RunPosted(s)
    <3>1. S!Update(s, S!OnPosted(k)) /\ closing' = closing /\ k.posted # <<>>
      BY <2>8 DEF S!RunPosted
    <3>2. Follows(k, S!OnPosted(k))
      BY <1>1, <3>1, MessagesFollow, Zenon
    <3> QED BY <1>1, <3>1, <3>2 DEF Follows
  <2>9. CASE S!Written(s)
    <3>1. S!Update(s, S!OnWritten(k)) /\ closing' = closing /\ k.writes # <<>>
      BY <2>9 DEF S!Written
    <3>2. Follows(k, S!OnWritten(k))
      BY <1>1, <3>1, MessagesFollow, Zenon
    <3> QED BY <1>1, <3>1, <3>2 DEF Follows
  <2>10. CASE S!WriteError(s)
    <3>1. S!Update(s, S!OnWriteError(k)) /\ closing' = closing /\ k.writes # <<>>
      BY <2>10 DEF S!WriteError
    <3>2. Follows(k, S!OnWriteError(k))
      BY <1>1, <3>1, MessagesFollow, Zenon
    <3> QED BY <1>1, <3>1, <3>2 DEF Follows
  <2> QED BY <2>1, <2>2, <2>3, <2>4, <2>5, <2>6, <2>7, <2>8, <2>9, <2>10
<1> QED BY <1>2, UpdateFollows

-----------------------------------------------------------------------------
(* The queue of incoming packets. *)

\* The size by which incoming_packets_queue weighs a packet.
PacketSize == [packet \in incoming_packet |-> PayloadSize[packet.session]]

QueueMetered ==
    /\ dequeue \in Seq(incoming_packet) /\ stopped \in BOOLEAN
    /\ Q!LimitsSize => Len(dequeue) <= max_incoming_packets
    /\ current_bytes = IF Q!LimitsBytes THEN Total(dequeue, PacketSize) ELSE 0
    /\ Q!LimitsBytes => current_bytes <= max_incoming_bytes

(***************************************************************************)
(* The queue weighs its packets by the sizes of their payloads.            *)
(***************************************************************************)
LEMMA PacketBytes ==
    /\ PacketSize \in [incoming_packet -> Nat]
    /\ \A q : Q!Bytes(q) = Total(q, PacketSize)
<1>1. ASSUME NEW packet \in incoming_packet PROVE PayloadSize[packet.session] \in Nat
  BY PersistentAssumption DEF incoming_packet
<1> QED BY <1>1 DEF PacketSize, Q!Bytes, Total

(***************************************************************************)
(* A packet that the queue takes keeps its limits and its counter.         *)
(***************************************************************************)
LEMMA PushMetered ==
    ASSUME QueueMetered, NEW packet \in incoming_packet, Q!try_push_back(packet)
    PROVE  QueueMetered'
<1> DEFINE n == Total(dequeue, PacketSize)
           b == PayloadSize[packet.session]
<1>1. /\ dequeue' = Append(dequeue, packet) /\ stopped' = stopped
      /\ Q!pre_addition_check_protocol(packet) /\ Q!unchecked_addition_protocol(packet)
  BY DEF Q!try_push_back, Q!push_back
<1>2. /\ n \in Nat /\ b \in Nat /\ dequeue' \in Seq(incoming_packet)
      /\ Total(dequeue', PacketSize) = n + b
      /\ Len(dequeue) \in Nat /\ Len(dequeue') = Len(dequeue) + 1
  <2>1. dequeue \in Seq(incoming_packet) /\ PacketSize \in [incoming_packet -> Nat]
    BY PacketBytes DEF QueueMetered
  <2>2. n \in Nat /\ Total(Append(dequeue, packet), PacketSize) = n + PacketSize[packet]
    BY <2>1, TotalType, TotalAppend
  <2>3. PacketSize[packet] = b /\ b \in Nat
    BY <2>1 DEF PacketSize
  <2> QED BY <1>1, <2>1, <2>2, <2>3, AppendProperties, LenProperties
<1>3. Q!LimitsSize => Len(dequeue') <= max_incoming_packets
  BY <1>1, <1>2, PersistentAssumption DEF Q!pre_addition_check_protocol
<1>4. ASSUME Q!LimitsBytes
      PROVE  current_bytes' = n + b /\ n + b <= max_incoming_bytes
  <2>1. current_bytes = n /\ [p \in incoming_packet |-> PayloadSize[p.session]][packet] = b
    BY <1>4 DEF QueueMetered
  <2>2. b <= max_incoming_bytes - n
    BY <1>1, <1>4, <2>1 DEF Q!pre_addition_check_protocol
  <2>3. n + b <= max_incoming_bytes /\ n + b < SizeMod
    BY <1>2, <2>2, PersistentAssumption
  <2>4. current_bytes' = Q!AddSize(n, b)
    BY <1>1, <1>4, <2>1 DEF Q!unchecked_addition_protocol
  <2> QED BY <2>3, <2>4 DEF Q!AddSize
<1>5. ~Q!LimitsBytes => current_bytes' = 0
  BY <1>1 DEF Q!unchecked_addition_protocol, QueueMetered
<1> QED BY <1>1, <1>2, <1>3, <1>4, <1>5 DEF QueueMetered, Q!LimitsSize, Q!LimitsBytes

(***************************************************************************)
(* So does update(), which takes one.                                      *)
(***************************************************************************)
LEMMA PopMetered ==
    ASSUME QueueMetered, Q!pop_front
    PROVE  QueueMetered'
<1> DEFINE n == Total(dequeue, PacketSize)
           m == Total(Tail(dequeue), PacketSize)
           b == PayloadSize[Head(dequeue).session]
<1>1. /\ dequeue # <<>> /\ dequeue' = Tail(dequeue) /\ stopped' = stopped
      /\ Q!removal_protocol(Head(dequeue))
  BY DEF Q!pop_front
<1>2. /\ n \in Nat /\ m \in Nat /\ b \in Nat /\ n = m + b
      /\ Len(dequeue) \in Nat /\ Len(dequeue') = Len(dequeue) - 1
      /\ Head(dequeue) \in incoming_packet /\ dequeue' \in Seq(incoming_packet)
  <2>1. dequeue \in Seq(incoming_packet) /\ PacketSize \in [incoming_packet -> Nat]
    BY PacketBytes DEF QueueMetered
  <2>2. Head(dequeue) \in incoming_packet /\ Tail(dequeue) \in Seq(incoming_packet)
    BY <1>1, <2>1, HeadTailProperties
  <2>3. n \in Nat /\ m \in Nat /\ n = m + PacketSize[Head(dequeue)]
    BY <1>1, <2>1, <2>2, TotalType, TotalTail, Zenon
  <2>4. PacketSize[Head(dequeue)] = b /\ b \in Nat
    BY <2>1, <2>2 DEF PacketSize
  <2> QED BY <1>1, <2>1, <2>2, <2>3, <2>4, HeadTailProperties, LenProperties
<1>3. Q!LimitsSize => Len(dequeue') <= max_incoming_packets
  BY <1>2, PersistentAssumption DEF QueueMetered
<1>4. ASSUME Q!LimitsBytes
      PROVE  current_bytes' = m /\ m <= max_incoming_bytes
  <2>1. current_bytes = n /\ n <= max_incoming_bytes
    BY <1>4 DEF QueueMetered
  <2>2. [p \in incoming_packet |-> PayloadSize[p.session]][Head(dequeue)] = b
    BY <1>2
  <2>3. current_bytes' = Q!SubSize(n, b)
    BY <1>1, <1>4, <2>1, <2>2 DEF Q!removal_protocol
  <2> QED BY <1>2, <2>1, <2>3, PersistentAssumption DEF Q!SubSize
<1>5. ~Q!LimitsBytes => current_bytes' = 0
  BY <1>1 DEF Q!removal_protocol, QueueMetered
<1> QED BY <1>1, <1>2, <1>3, <1>4, <1>5 DEF QueueMetered, Q!LimitsSize, Q!LimitsBytes

-----------------------------------------------------------------------------
(* The threads of the server. *)

Active(c) == caller[c] \in {"stop", "join_context", "join_update"}

Quiet == context # "running" /\ update_loop.pc \in {"none", "exited"}

\* One call of try_stop() goes through stop(), and it has joined what it is past.
StopInv ==
    /\ caller \in [Callers -> {"idle", "stop", "join_context", "join_update", "returned"}]
    /\ \A c, d \in Callers : Active(c) /\ Active(d) => c = d
    /\ \A c \in Callers : Active(c) => stopping
    /\ \A c \in Callers : caller[c] = "join_update" => context # "running"
    /\ stopping => Quiet \/ \E c \in Callers : Active(c)

IInv == SessionsGood /\ StopInv

(***************************************************************************)
(* Initially.                                                              *)
(***************************************************************************)
LEMMA InvInit == Init => IInv
<1> SUFFICES ASSUME Init PROVE IInv
  OBVIOUS
<1>1. SessionsGood
  <2> DEFINE k == S!NewSession
  <2>1. <<>> \in Seq(Nat) /\ <<>> \in Seq([live : BOOLEAN]) /\ Len(<<>>) <= 1
    OBVIOUS
  <2>2. /\ k \in SessionType /\ k.sent = <<>> /\ k.write_queue = <<>>
        /\ k.posted = <<>> /\ k.writes = <<>> /\ k.sends = 0
    BY <2>1 DEF S!NewSession, SessionType
  <2> HIDE DEF k
  <2>3. <<>> \o <<>> \o <<>> = [i \in 1 .. 0 |-> i]
    OBVIOUS
  <2>4. k.sent \o k.write_queue \o k.posted = [i \in 1 .. k.sends |-> i]
    BY <2>2, <2>3
  <2>5. Good(k)
    BY <2>1, <2>2, <2>4 DEF Good
  <2>6. session = [s \in Sessions |-> k]
    BY DEF Init, S!Init, k
  <2> QED BY <2>2, <2>5, <2>6 DEF SessionsGood
<1>2. StopInv
  BY DEF Init, StopInv, Active
<1> QED BY <1>1, <1>2 DEF IInv

(***************************************************************************)
(* Every step keeps the sessions good.                                     *)
(***************************************************************************)
LEMMA SessionsStep ==
    ASSUME SessionsGood, [Next]_vars PROVE SessionsGood'
<1>1. ASSUME NEW s \in Sessions, start_accept_async(s) \/ CloseReturns(s)
      PROVE  SessionsGood'
  BY <1>1, QuietHandlers DEF start_accept_async, setup_client_connection, CloseReturns
<1>2. ASSUME NEW s \in Sessions, push_incoming_packet(s) PROVE SessionsGood'
  BY <1>2, QuietHandlers DEF push_incoming_packet
<1>3. ASSUME NEW s \in Sessions, Handler(s) PROVE SessionsGood'
  BY <1>3, QuietHandlers, MessageHandlers DEF Handler
<1>4. CASE broadcast
  <2>1. CASE UNCHANGED sessions
    BY <2>1 DEF sessions, SessionsGood
  <2>2. CASE \E s \in update_loop.todo : S!send(s)
    <3>1. PICK s \in update_loop.todo : S!send(s)
      BY <2>2
    <3>2. CASE s \in Sessions
      BY <3>1, <3>2, MessageHandlers
    <3>3. CASE s \notin Sessions
      <4>1. session' = session
        BY <3>1, <3>3 DEF S!send, S!Update, SessionsGood
      <4> QED BY <4>1 DEF SessionsGood
    <3> QED BY <3>2, <3>3
  <2> QED BY <1>4, <2>1, <2>2 DEF broadcast
<1>5. CASE session' = session
  BY <1>5 DEF SessionsGood
<1>6. ASSUME NEW c \in Callers, try_stop(c) \/ Stop(c) PROVE session' = session
  BY <1>6 DEF try_stop, Stop, StopContext, JoinContext, JoinUpdate, sessions
<1>7. CASE launch \/ ContextExits \/ CheckRunning \/ update \/ UNCHANGED vars
  BY <1>7, <1>5 DEF launch, ContextExits, CheckRunning, update, vars, sessions
<1> QED BY <1>1, <1>2, <1>3, <1>4, <1>5, <1>6, <1>7 DEF Next, UpdateThread

(***************************************************************************)
(* Every step keeps the order in which stop() takes the threads down.      *)
(***************************************************************************)
LEMMA StopStep ==
    ASSUME StopInv, [Next]_vars PROVE StopInv'
<1>1. CASE UNCHANGED <<control, update_loop>>
  BY <1>1 DEF StopInv, Active, Quiet, control
<1>2. CASE launch
  BY <1>2 DEF StopInv, Active, launch
<1>3. ASSUME NEW s \in Sessions, start_accept_async(s) PROVE StopInv'
  <2>1. UNCHANGED control /\ (Quiet => Quiet')
    BY <1>3 DEF start_accept_async, setup_client_connection, Quiet, control
  <2> QED BY <2>1 DEF StopInv, Active, control
<1>4. ASSUME NEW s \in Sessions, Handler(s) \/ push_incoming_packet(s) \/ CloseReturns(s)
      PROVE  StopInv'
  BY <1>4, <1>1 DEF Handler, push_incoming_packet, CloseReturns
<1>5. CASE ContextExits
  BY <1>5 DEF StopInv, Active, Quiet, ContextExits
<1>6. CASE UpdateThread
  <2>1. UNCHANGED control /\ update_loop.pc \notin {"none", "exited"}
    BY <1>6 DEF UpdateThread, CheckRunning, update, broadcast
  <2> QED BY <2>1 DEF StopInv, Active, Quiet, control
<1>7. ASSUME NEW c \in Callers, try_stop(c) PROVE StopInv'
  BY <1>7 DEF StopInv, Active, Quiet, try_stop, Returns
<1>8. ASSUME NEW c \in Callers, Stop(c) PROVE StopInv'
  <2>1. CASE StopContext(c)
    BY <2>1 DEF StopInv, Active, Quiet, StopContext, Returns
  <2>2. CASE JoinContext(c)
    BY <2>2 DEF StopInv, Active, Quiet, JoinContext, Returns
  <2>3. CASE JoinUpdate(c)
    BY <2>3 DEF StopInv, Active, Quiet, JoinUpdate, Returns
  <2> QED BY <1>8, <2>1, <2>2, <2>3 DEF Stop
<1>9. CASE UNCHANGED vars
  BY <1>9, <1>1 DEF vars
<1> QED BY <1>2, <1>3, <1>4, <1>5, <1>6, <1>7, <1>8, <1>9 DEF Next

(***************************************************************************)
(* The inductive invariant: the sessions are good, and the one call of     *)
(* try_stop() that goes through stop() is behind the threads it joined.    *)
(***************************************************************************)
THEOREM Invariant == Spec => []IInv
<1>1. IInv /\ [Next]_vars => IInv'
  BY SessionsStep, StopStep DEF IInv
<1> QED BY InvInit, <1>1, PTL DEF Spec

(***************************************************************************)
(* Whatever handlers of the context thread run between the sends of a      *)
(* broadcast, no message is lost, duplicated or overtaken.                 *)
(***************************************************************************)
THEOREM InOrder == Spec => []MessagesInOrder
<1>1. IInv => MessagesInOrder
  BY Zenon DEF IInv, SessionsGood, Good, MessagesInOrder, S!MessagesInOrder
<1> QED BY Invariant, <1>1, PTL

(***************************************************************************)
(* No session has two writes outstanding on its stream.                    *)
(***************************************************************************)
THEOREM SingleWriter == Spec => []OneWriteAtATime
<1>1. IInv => OneWriteAtATime
  BY ZenonT(30) DEF IInv, SessionsGood, Good, OneWriteAtATime, S!OneWriteAtATime
<1> QED BY Invariant, <1>1, PTL

(***************************************************************************)
(* When every call of try_stop() has returned, of however many threads,    *)
(* the context thread and the update thread have ended.                    *)
(***************************************************************************)
THEOREM StopJoinsAll == Spec => []StoppedServerIsQuiet
<1>1. IInv => StoppedServerIsQuiet
  BY DEF IInv, StopInv, Active, Quiet, StoppedServerIsQuiet
<1> QED BY Invariant, <1>1, PTL

-----------------------------------------------------------------------------
(* Types. *)

ThreadTypes ==
    /\ active_sessions = {s \in Sessions : session[s].stream # "new"}
    /\ update_loop \in [pc : {"none", "check", "update", "broadcast", "exited"},
                        todo : SUBSET active_sessions]
    /\ context \in {"none", "running", "exited"} /\ context_stopped \in BOOLEAN
    /\ stopping \in BOOLEAN

Types == SessionsSteady /\ QueueMetered /\ ThreadTypes

(***************************************************************************)
(* Initially.                                                              *)
(***************************************************************************)
LEMMA TypesInit == Init => Types
<1> SUFFICES ASSUME Init PROVE Types
  OBVIOUS
<1>1. \A s \in Sessions : session[s] = S!NewSession
  BY DEF Init, S!Init
<1>2. SessionsSteady
  BY <1>1 DEF Init, S!Init, S!NewSession, SessionsSteady, Steady, Settled
<1>3. QueueMetered
  <2>1. Total(<<>>, PacketSize) = 0
    BY PacketBytes, TotalEmpty
  <2>2. dequeue = <<>> /\ stopped = FALSE /\ current_bytes = 0
    BY DEF Init, Q!DataInit
  <2>3. dequeue \in Seq(incoming_packet) /\ Len(dequeue) = 0
    BY <2>2
  <2>4. 0 <= max_incoming_packets /\ 0 <= max_incoming_bytes
    BY PersistentAssumption
  <2> QED BY <2>1, <2>2, <2>3, <2>4, Zenon DEF QueueMetered
<1>4. ThreadTypes
  <2>1. \A s \in Sessions : session[s].stream = "new"
    BY <1>1 DEF S!NewSession
  <2> QED BY <2>1, ZenonT(30) DEF Init, ThreadTypes, At
<1> QED BY <1>2, <1>3, <1>4 DEF Types

(***************************************************************************)
(* A step that changes neither the sessions nor the queue.                 *)
(***************************************************************************)
LEMMA TypesQuiet ==
    ASSUME Types, UNCHANGED <<sessions, queue>>
    PROVE  SessionsSteady' /\ QueueMetered' /\ SameNew
BY DEF Types, sessions, queue, SessionsSteady, QueueMetered, SameNew, Q!LimitsSize, Q!LimitsBytes

(***************************************************************************)
(* Every step of every thread keeps the types.                             *)
(***************************************************************************)
LEMMA TypesStep ==
    ASSUME SessionsGood, Types, [Next]_vars
    PROVE  Types'
<1>1. ASSUME UNCHANGED queue PROVE QueueMetered'
  BY <1>1 DEF Types, queue, QueueMetered, Q!LimitsSize, Q!LimitsBytes
<1>2. ASSUME SameNew, UNCHANGED <<active_sessions, update_loop, control>> PROVE ThreadTypes'
  BY <1>2 DEF Types, ThreadTypes, SameNew, control
<1>3. CASE launch \/ ContextExits \/ CheckRunning \/ \E c \in Callers : try_stop(c) \/ StopContext(c) \/ JoinUpdate(c)
  <2>1. UNCHANGED <<sessions, queue, active_sessions>>
    BY <1>3 DEF launch, ContextExits, CheckRunning, try_stop, StopContext, JoinUpdate
  <2>2. SessionsSteady' /\ QueueMetered' /\ SameNew
    BY <2>1, TypesQuiet
  <2>3. /\ update_loop' \in {At("none"), At("check"), At("update"), At("exited"), update_loop}
        /\ context' \in {"running", "exited", context}
        /\ context_stopped' \in {TRUE, context_stopped} /\ stopping' \in {TRUE, stopping}
    BY <1>3, Zenon DEF launch, ContextExits, CheckRunning, Goes, try_stop, StopContext,
           JoinUpdate, control
  <2>4. active_sessions' = {s \in Sessions : session'[s].stream # "new"}
    BY <2>1, <2>2 DEF Types, ThreadTypes, SameNew
  <2>5. update_loop' \in [pc : {"none", "check", "update", "broadcast", "exited"},
                          todo : SUBSET active_sessions']
    BY <2>1, <2>3 DEF Types, ThreadTypes, At
  <2>6. ThreadTypes'
    BY <2>3, <2>4, <2>5, ZenonT(30) DEF Types, ThreadTypes
  <2> QED BY <2>2, <2>6 DEF Types
<1>4. ASSUME NEW c \in Callers, JoinContext(c) PROVE Types'
  <2>1. /\ UNCHANGED sessions
        /\ UNCHANGED <<active_sessions, update_loop, context, context_stopped, stopping>>
        /\ stopped' = TRUE /\ UNCHANGED <<dequeue, current_bytes>>
    BY <1>4 DEF JoinContext, Q!stop
  <2>2. SessionsSteady' /\ SameNew
    BY <2>1 DEF Types, sessions, SessionsSteady, SameNew
  <2>3. QueueMetered'
    BY <2>1 DEF Types, QueueMetered, Q!LimitsSize, Q!LimitsBytes
  <2>4. ThreadTypes'
    BY <2>1, <2>2 DEF Types, ThreadTypes, SameNew
  <2> QED BY <2>2, <2>3, <2>4 DEF Types
<1>5. ASSUME NEW s \in Sessions, start_accept_async(s) PROVE Types'
  <2>1. /\ S!start(s) /\ UNCHANGED <<queue, control>>
        /\ active_sessions' = active_sessions \cup {s}
        /\ \/ \E rest \in SUBSET active_sessions' :
                 update_loop' = [update_loop EXCEPT !.todo = rest]
           \/ update_loop' = update_loop
    BY <1>5 DEF start_accept_async, setup_client_connection
  <2>2. /\ SessionsSteady'
        /\ \A u \in Sessions : session'[u].stream = "new" <=> session[u].stream = "new" /\ u # s
    BY <2>1, StartSteady DEF Types
  <2>3. active_sessions' = {u \in Sessions : session'[u].stream # "new"}
    BY <2>1, <2>2 DEF Types, ThreadTypes
  <2>4. update_loop' \in [pc : {"none", "check", "update", "broadcast", "exited"},
                          todo : SUBSET active_sessions']
    <3>1. CASE update_loop' = update_loop
      BY <2>1, <3>1 DEF Types, ThreadTypes
    <3>2. CASE \E rest \in SUBSET active_sessions' : update_loop' = [update_loop EXCEPT !.todo = rest]
      BY <3>2 DEF Types, ThreadTypes
    <3> QED BY <2>1, <3>1, <3>2
  <2>5. ThreadTypes'
    BY <2>1, <2>3, <2>4 DEF Types, ThreadTypes, control
  <2> QED BY <1>1, <2>1, <2>2, <2>5 DEF Types
<1>6. ASSUME NEW s \in Sessions, Handler(s) \/ CloseReturns(s) PROVE Types'
  <2>1. UNCHANGED queue /\ UNCHANGED <<active_sessions, update_loop, control>>
    BY <1>6 DEF Handler, CloseReturns
  <2>2. SessionsSteady' /\ SameNew
    BY <1>6, HandlersSteady DEF Types, Handler, CloseReturns
  <2> QED BY <1>1, <1>2, <2>1, <2>2 DEF Types
<1>7. ASSUME NEW s \in Sessions, push_incoming_packet(s) PROVE Types'
  <2> DEFINE packet == [session |-> s, number |-> session[s].packets + 1]
  <2>1. /\ S!PacketRead(s) /\ (S!PacketAccepted(s) \/ S!PacketRejected(s))
        /\ Q!try_push_back(packet) \/ UNCHANGED queue
        /\ UNCHANGED <<active_sessions, update_loop, control>>
    BY <1>7 DEF push_incoming_packet, S!PacketAccepted, S!PacketRejected
  <2>2. packet \in incoming_packet
    <3>1. session[s].packets \in Nat /\ session[s].packets < MaxPackets
      BY <2>1 DEF S!PacketRead, SessionsGood, SessionType
    <3>2. session[s].packets + 1 \in 1 .. MaxPackets
      BY <3>1, PersistentAssumption
    <3> QED BY <3>2 DEF incoming_packet
  <2> HIDE DEF packet
  <2>3. QueueMetered'
    BY <1>1, <2>1, <2>2, PushMetered DEF Types
  <2>4. SessionsSteady' /\ SameNew
    BY <2>1, HandlersSteady DEF Types
  <2> QED BY <1>2, <2>1, <2>3, <2>4 DEF Types
<1>8. CASE update
  <2>1. /\ UNCHANGED sessions /\ UNCHANGED <<active_sessions, control>>
        /\ UNCHANGED queue \/ Q!pop_front
        /\ update_loop' \in {At("check"), [pc |-> "broadcast", todo |-> active_sessions]}
    BY <1>8 DEF update, Goes
  <2>2. SessionsSteady' /\ SameNew
    BY <2>1 DEF Types, sessions, SessionsSteady, SameNew
  <2>3. QueueMetered'
    BY <1>1, <2>1, PopMetered DEF Types
  <2>4. ThreadTypes'
    BY <2>1, <2>2 DEF Types, ThreadTypes, SameNew, control, At
  <2> QED BY <2>2, <2>3, <2>4 DEF Types
<1>9. CASE broadcast
  <2>1. UNCHANGED queue /\ UNCHANGED <<active_sessions, control>>
    BY <1>9 DEF broadcast
  <2>2. CASE update_loop.todo = {}
    <3>1. UNCHANGED sessions /\ update_loop' = At("update")
      BY <1>9, <2>2 DEF broadcast, Goes
    <3>2. SessionsSteady' /\ SameNew
      BY <3>1 DEF Types, sessions, SessionsSteady, SameNew
    <3>3. ThreadTypes'
      BY <2>1, <3>1, <3>2 DEF Types, ThreadTypes, SameNew, control, At
    <3> QED BY <1>1, <2>1, <3>2, <3>3 DEF Types
  <2>3. CASE update_loop.todo # {}
    <3>1. PICK s \in update_loop.todo :
             S!send(s) /\ update_loop' = [update_loop EXCEPT !.todo = @ \ {s}]
      BY <1>9, <2>3 DEF broadcast
    <3>2. s \in Sessions
      BY DEF Types, ThreadTypes
    <3>3. SessionsSteady' /\ SameNew
      BY <3>1, <3>2, HandlersSteady DEF Types
    <3>4. ThreadTypes'
      BY <2>1, <3>1, <3>3 DEF Types, ThreadTypes, SameNew, control
    <3> QED BY <1>1, <2>1, <3>3, <3>4 DEF Types
  <2> QED BY <2>2, <2>3
<1>10. CASE UNCHANGED vars
  <2>1. UNCHANGED <<sessions, queue>> /\ UNCHANGED <<active_sessions, update_loop, control>>
    BY <1>10 DEF vars
  <2> QED BY <1>2, <2>1, TypesQuiet DEF Types
<1> QED BY <1>3, <1>4, <1>5, <1>6, <1>7, <1>8, <1>9, <1>10 DEF Next, UpdateThread, Stop

(***************************************************************************)
(* The sessions a broadcast still has to come to are active, whatever the  *)
(* accept handler does to the set during it; handshakes, reads, writes and *)
(* close() come in order on each stream; and the queue keeps its limits    *)
(* and an exact count of its bytes.                                        *)
(***************************************************************************)
THEOREM TypeCorrect == Spec => []TypeOK
<1>1. IInv /\ Types /\ [Next]_vars => (IInv /\ Types)'
  BY SessionsStep, StopStep, TypesStep DEF IInv
<1>2. IInv /\ Types => TypeOK
  <2> SUFFICES ASSUME IInv, Types PROVE TypeOK
    OBVIOUS
  <2>1. S!TypeOK
    BY DEF IInv, Types, SessionsGood, SessionType, SessionsSteady, Steady, S!TypeOK
  <2>2. \A q : Q!Bytes(q) = Total(q, PacketSize)
    BY PacketBytes
  <2>3. update_loop.pc \in {"none", "check", "update", "broadcast", "exited"}
        /\ update_loop.todo \subseteq active_sessions
    BY DEF Types, ThreadTypes
  <2> QED BY <2>1, <2>2, <2>3 DEF IInv, Types, QueueMetered, ThreadTypes, StopInv, TypeOK
<1> QED BY InvInit, TypesInit, <1>1, <1>2, PTL DEF Spec
=============================================================================
