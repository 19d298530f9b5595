-------------------------- MODULE WebSocketSession --------------------------
(***************************************************************************)
(* websocket_session: the sessions of a persistent server.  Their handlers *)
(* run on the one thread of asio_context; send() is called by other        *)
(* threads and posts to it, and posted handlers run in the order they were *)
(* posted.  The n-th message sent to a session is n; the payload of what a *)
(* client sends is left out, and PersistentServer decides whether the      *)
(* incoming queue takes it.                                                *)
(***************************************************************************)
EXTENDS Integers, Sequences

CONSTANTS
    Sessions,
    MaxMessages,   \* bound of the model on the messages sent to a session
    MaxPackets     \* bound of the model on the packets a client sends

VARIABLES
    session,    \* the members of each session, and its pending operations
    closing     \* the sessions whose close() blocks the context thread

(***************************************************************************)
(* accepting, reading: an async_accept, an async_read is outstanding.      *)
(* writes: the outstanding async_writes, each with whether the stream was  *)
(* not closed when it was started.  Beast refuses a write only on a stream *)
(* that is closed or has failed: one started during the handshake goes     *)
(* out, ahead of the response.  sends: calls of send() so far.  sent: what *)
(* has been written.  failed: a write has failed.                          *)
(***************************************************************************)
NewSession ==
    [stream |-> "new", accepting |-> FALSE, reading |-> FALSE, packets |-> 0,
     sends |-> 0, posted |-> <<>>, write_queue |-> <<>>, writes |-> <<>>,
     sent |-> <<>>, failed |-> FALSE]

Init == session = [s \in Sessions |-> NewSession] /\ closing = {}

Update(s, k) == session' = [session EXCEPT ![s] = k]

ContextFree == closing = {}

-----------------------------------------------------------------------------
(***************************************************************************)
(* start(), called by the accept handler of the server once the session is *)
(* among the active ones, and the completion of its handshake.  A write    *)
(* that fails meanwhile need not fail the handshake: its response may have *)
(* been written before.                                                    *)
(***************************************************************************)
start(s) ==
    /\ ContextFree
    /\ session[s].stream = "new"
    /\ Update(s, [session[s] EXCEPT !.stream = "handshake", !.accepting = TRUE])
    /\ UNCHANGED closing

Accepted(s) ==
    /\ ContextFree
    /\ session[s].accepting
    /\ Update(s, [session[s] EXCEPT !.accepting = FALSE, !.stream = "open", !.reading = TRUE])
    /\ UNCHANGED closing

AcceptError(s) ==
    /\ ContextFree
    /\ session[s].accepting
    /\ Update(s, [session[s] EXCEPT !.accepting = FALSE, !.stream = "closed"])
    /\ UNCHANGED closing

(***************************************************************************)
(* send() and the handler it posts.                                        *)
(***************************************************************************)
send(s) ==
    /\ session[s].stream # "new"
    /\ session[s].sends < MaxMessages
    /\ Update(s, [session[s] EXCEPT !.sends = @ + 1,
                                    !.posted = Append(@, session[s].sends + 1)])
    /\ UNCHANGED closing

write_message_async(k) ==
    [k EXCEPT !.writes = Append(@, [live |-> k.stream # "closed"])]

\* Fault: a write in progress is not noticed.
OnPosted_AlwaysWrites(k) ==
    write_message_async([k EXCEPT !.posted = Tail(@),
                                  !.write_queue = Append(@, Head(k.posted))])

\* Fault: the message is only queued.
OnPosted_NeverWrites(k) ==
    [k EXCEPT !.posted = Tail(@), !.write_queue = Append(@, Head(k.posted))]

OnPosted(k) ==
    LET queued == [k EXCEPT !.posted = Tail(@),
                            !.write_queue = Append(@, Head(k.posted))]
    IN  IF k.write_queue = <<>> THEN write_message_async(queued) ELSE queued

RunPosted(s) ==
    /\ ContextFree
    /\ session[s].posted # <<>>
    /\ Update(s, OnPosted(session[s]))
    /\ UNCHANGED closing

(***************************************************************************)
(* The completion handler of a write.  After an error it returns with the  *)
(* message still in write_queue, and the stream takes no more writes.      *)
(***************************************************************************)
\* Fault: the last message is erased, not the first.
OnWritten_ErasesLast(k) ==
    LET erased == [k EXCEPT !.writes = Tail(@),
                            !.sent = Append(@, Head(k.write_queue)),
                            !.write_queue = SubSeq(@, 1, Len(@) - 1)]
    IN  IF erased.write_queue = <<>> THEN erased ELSE write_message_async(erased)

OnWritten(k) ==
    LET erased == [k EXCEPT !.writes = Tail(@),
                            !.sent = Append(@, Head(k.write_queue)),
                            !.write_queue = Tail(@)]
    IN  IF erased.write_queue = <<>> THEN erased ELSE write_message_async(erased)

Written(s) ==
    /\ ContextFree
    /\ session[s].writes # <<>>
    /\ Head(session[s].writes).live
    /\ Update(s, OnWritten(session[s]))
    /\ UNCHANGED closing

OnWriteError(k) ==
    [k EXCEPT !.writes = Tail(@), !.failed = TRUE, !.stream = "closed"]

WriteError(s) ==
    /\ ContextFree
    /\ session[s].writes # <<>>
    /\ Update(s, OnWriteError(session[s]))
    /\ UNCHANGED closing

(***************************************************************************)
(* The completion handler of a read.  A packet the queue takes is followed *)
(* by the next read.  For one it does not take, close() sends a close      *)
(* frame and blocks until the peer has answered or gone; then the handler  *)
(* reads on all the same.                                                  *)
(***************************************************************************)
PacketRead(s) ==
    /\ ContextFree
    /\ session[s].reading
    /\ session[s].stream = "open"
    /\ session[s].packets < MaxPackets

PacketAccepted(s) ==
    /\ PacketRead(s)
    /\ Update(s, [session[s] EXCEPT !.packets = @ + 1])
    /\ UNCHANGED closing

PacketRejected(s) ==
    /\ PacketRead(s)
    /\ Update(s, [session[s] EXCEPT !.packets = @ + 1, !.reading = FALSE])
    /\ closing' = closing \cup {s}

CloseReturns(s) ==
    /\ s \in closing
    /\ closing' = closing \ {s}
    /\ Update(s, [session[s] EXCEPT !.stream = "closed", !.reading = TRUE])

ReadError(s) ==
    /\ ContextFree
    /\ session[s].reading
    /\ Update(s, [session[s] EXCEPT !.reading = FALSE, !.stream = "closed"])
    /\ UNCHANGED closing

-----------------------------------------------------------------------------
\* Types; while the stream is in the handshake, async_accept is outstanding.
TypeOK ==
    /\ \A s \in Sessions : LET k == session[s] IN
          /\ k.stream \in {"new", "handshake", "open", "closed"}
          /\ k.accepting \in BOOLEAN /\ k.reading \in BOOLEAN /\ k.failed \in BOOLEAN
          /\ k.stream = "handshake" => k.accepting
          /\ k.packets \in Nat /\ k.sends \in Nat
          /\ k.posted \in Seq(Nat) /\ k.write_queue \in Seq(Nat) /\ k.sent \in Seq(Nat)
          /\ k.writes \in Seq([live : BOOLEAN])
    /\ closing \subseteq Sessions

(***************************************************************************)
(* No message is lost, duplicated or overtaken between send() and the      *)
(* wire: what has been written, what is queued and what is posted are the  *)
(* messages sent, in the order they were sent.                             *)
(***************************************************************************)
MessagesInOrder ==
    \A s \in Sessions : LET k == session[s] IN
        k.sent \o k.write_queue \o k.posted = [i \in 1 .. k.sends |-> i]

(***************************************************************************)
(* At most one async_write is outstanding on a stream, as Beast requires:  *)
(* the handler of send() takes a queue that is not empty for a write that  *)
(* is in progress.                                                         *)
(***************************************************************************)
OneWriteAtATime == \A s \in Sessions : Len(session[s].writes) <= 1
=============================================================================
