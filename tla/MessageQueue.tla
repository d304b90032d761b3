--------------------------- MODULE MessageQueue ---------------------------
(***************************************************************************)
(* communication/message_queue.cpp: the answer to a request, cut into      *)
(* messages of at most a chunk, and the views through which the messages   *)
(* are read again (connection.cpp prints every message it writes with the  *)
(* operator<< of message.cpp; the handlers of the other side read them in  *)
(* the same way).                                                          *)
(***************************************************************************)
EXTENDS Message

CONSTANTS
    CHUNK_SIZE,     \* message_queue::CHUNK_SIZE, 4096 in the code
    MsgType,        \* the type byte of the messages
    Added,          \* the segments that are added
    MaxAdded        \* bound: segments in an answer

ASSUME ChunkAssumption == CHUNK_SIZE \in Nat \ {0} /\ MsgType \in Byte /\ Added \subseteq Segment
ASSUME AddedAssumption == MaxAdded \in Nat
\* Every segment the handlers add fits in a chunk: the sign of an ITEM was itself
\* received in a chunk, or is that of a file created by such a request.
ASSUME FitAssumption == \A s \in Added : 1 + HeaderSize + Len(s.value) <= CHUNK_SIZE

VARIABLES
    queue,      \* msgs_queue_
    added,      \* history: the segments added
    writing,    \* has the handler returned, so that the messages are written?
    msg,        \* the message popped last, <<>> when there is none
    view,       \* the view that prints it
    seen        \* history: the segments the views have shown

vars == <<queue, added, writing, msg, view, seen>>

View == [begin : Nat, end : Nat, valid : BOOLEAN, finished : BOOLEAN]

\* "there is at least an element so empty check is useless", says add_TLV.
TypeOK ==
    /\ queue \in Seq(Message)
    /\ writing \/ queue # <<>>
    /\ added \in Seq(Added) /\ seen \in Seq(Segment)
    /\ writing \in BOOLEAN
    /\ msg \in Message \cup {<<>>}
    /\ view \in View

NewQueue == <<NewMessage(MsgType)>>

Init ==
    /\ queue = NewQueue
    /\ added = <<>>
    /\ writing = FALSE
    /\ msg = <<>>
    /\ view = NewView
    /\ seen = <<>>

Room(m, seg) == Len(m) + HeaderSize + Len(seg.value) <= CHUNK_SIZE

\* Mutants: the header of the segment is not counted, a message may not be full,
\* the first message is extended instead of the last.
RoomWithoutHeader(q, seg) ==
    IF Len(q[Len(q)]) + Len(seg.value) <= CHUNK_SIZE
    THEN [q EXCEPT ![Len(q)] = WithSegment(@, seg)]
    ELSE Append(q, WithSegment(NewMessage(MsgType), seg))
RoomToSpare(q, seg) ==
    IF Len(q[Len(q)]) + HeaderSize + Len(seg.value) < CHUNK_SIZE
    THEN [q EXCEPT ![Len(q)] = WithSegment(@, seg)]
    ELSE Append(q, WithSegment(NewMessage(MsgType), seg))
AddToFirst(q, seg) ==
    IF Room(q[1], seg)
    THEN [q EXCEPT ![1] = WithSegment(@, seg)]
    ELSE Append(q, WithSegment(NewMessage(MsgType), seg))

\* message_queue::add_TLV
AddToLast(q, seg) ==
    IF Room(q[Len(q)], seg)
    THEN [q EXCEPT ![Len(q)] = WithSegment(@, seg)]
    ELSE Append(q, WithSegment(NewMessage(MsgType), seg))

AddTLV ==
    /\ ~writing /\ Len(added) < MaxAdded
    /\ \E seg \in Added : queue' = AddToLast(queue, seg) /\ added' = Append(added, seg)
    /\ UNCHANGED <<writing, msg, view, seen>>

\* front and pop, and a view on the message.  Every answer ends with close_response.
Pop ==
    /\ queue # <<>> /\ added # <<>>
    /\ writing => view.finished
    /\ writing' = TRUE
    /\ msg' = Head(queue)
    /\ queue' = Tail(queue)
    /\ view' = NewView
    /\ UNCHANGED <<added, seen>>

\* The loop of operator<<.
Read ==
    /\ writing /\ ~view.finished
    /\ view' = NextTlv(msg, view)
    /\ seen' = IF view'.valid THEN Append(seen, Viewed(msg, view')) ELSE seen
    /\ UNCHANGED <<queue, added, writing, msg>>

Drained == writing /\ queue = <<>> /\ view.finished

\* replies = message_queue{type} for the next request
Renew ==
    /\ Drained
    /\ queue' = NewQueue
    /\ added' = <<>> /\ seen' = <<>>
    /\ writing' = FALSE
    /\ msg' = <<>> /\ view' = NewView

Next == AddTLV \/ Pop \/ Read \/ Renew

Spec == Init /\ [][Next]_vars

-----------------------------------------------------------------------------
(***************************************************************************)
(* Properties.                                                             *)
(***************************************************************************)
\* No message grows beyond a chunk: message_queue is there "to easily maintain
\* their dimension under the CHUNK_SIZE value", the buffer of the other side.
WithinChunk == \A i \in DOMAIN queue : Len(queue[i]) <= CHUNK_SIZE

\* Once something has been added no message of the queue is without a segment,
\* which handle_request would answer with ERR_NO_CONTENT.
NoBareMessage == added # <<>> => \A i \in DOMAIN queue : Len(queue[i]) > HeaderSize

\* The views show the segments that were added, each once, whole and in order,
\* however they have been distributed over messages.
ShownInOrder ==
    /\ Len(seen) <= Len(added) /\ seen = SubSeq(added, 1, Len(seen))
    /\ Drained => seen = added

\* next_tlv has no check against the end of the message: on a message made by
\* add_TLV it needs none.
ViewInside == msg # <<>> => view.begin <= view.end /\ view.end <= Len(msg)

LastSeen == seen[Len(seen)]

\* A message whose last segment is END is recognised as the last of its upload.
EndRecognised ==
    view.finished /\ seen # <<>> /\ LastSeen = EndSegment => VerifyEnd(msg)

\* And no other message is: verify_end is "true if the END TLV tag is present,
\* false otherwise".
OnlyEndRecognised ==
    view.finished /\ Len(msg) > HeaderSize /\ VerifyEnd(msg) => LastSeen = EndSegment

\* The inductive invariant behind WithinChunk and NoBareMessage: the first segment
\* of an answer finds a queue of one message with nothing but its type, the others
\* find filled ones.
Filled == {m \in Message : Len(m) > HeaderSize /\ Len(m) <= CHUNK_SIZE}

IInv ==
    /\ added \in Seq(Added)
    /\ writing \in BOOLEAN
    /\ added = <<>> => ~writing /\ queue = NewQueue
    /\ added # <<>> => queue \in Seq(Filled) /\ (writing \/ queue # <<>>)
=============================================================================
