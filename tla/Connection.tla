----------------------------- MODULE Connection -----------------------------
(***************************************************************************)
(* core/connection.cpp: one TLS connection as the chain of asynchronous    *)
(* operations it starts, with the timer that ends it when the client is    *)
(* silent.                                                                 *)
(*                                                                         *)
(* An operation completes when the network says so; its handler runs       *)
(* later, when the strand takes it from the queue of the io_context.  The  *)
(* timer is an operation too: cancelling it reaches a wait in progress,    *)
(* not one that has expired and whose handler is queued.  The handler of a *)
(* cancelled wait does nothing and is left out.                            *)
(*                                                                         *)
(* The handlers of socket operations own the connection (shared_from_this) *)
(* and the timer's does not: once no operation is left, it is destroyed.   *)
(***************************************************************************)
EXTENDS Naturals

CONSTANTS
    MaxReplies,     \* bound: messages in the answer to one request
    MaxFired,       \* bound: expired waits whose handlers are queued
    TimerFails      \* may expires_after or async_wait throw?

ASSUME BoundAssumption == MaxReplies \in Nat \ {0} /\ MaxFired \in Nat \ {0}
ASSUME TimerAssumption == TimerFails \in BOOLEAN

VARIABLES
    op,         \* the socket operation in progress, "none" when the connection is gone
    result,     \* its result: "pending" until it completes
    timer,      \* is timeout_timer_ waiting?
    fired,      \* expired waits whose handlers have not run
    timedOut,   \* timed_out
    socket,     \* "open", "closing" while socket_.shutdown blocks, "closed"
    replies,    \* messages of replies_ not popped yet
    stream      \* has a request of this connection left a stream open?

vars == <<op, result, timer, fired, timedOut, socket, replies, stream>>

ReadOp  == {"handshake", "header", "body"}
WriteOp == {"writeHeader", "writeBody"}

TypeOK ==
    /\ op \in ReadOp \cup WriteOp \cup {"none"}
    /\ result \in {"pending", "ok", "error"}
    /\ timer \in BOOLEAN
    /\ fired \in 0 .. MaxFired
    /\ timedOut \in BOOLEAN
    /\ socket \in {"open", "closing", "closed"}
    /\ replies \in 0 .. MaxReplies
    /\ stream \in BOOLEAN

\* schedule_timeout catches what the timer throws and returns as if it had been set.
Scheduled == IF TimerFails THEN {TRUE, FALSE} ELSE {TRUE}

\* The connection as start leaves it.
Init ==
    /\ op = "handshake" /\ result = "pending"
    /\ timer \in Scheduled /\ fired = 0
    /\ timedOut = FALSE
    /\ socket = "open"
    /\ replies = 0
    /\ stream = FALSE

-----------------------------------------------------------------------------
(***************************************************************************)
(* The network and the clock.                                              *)
(***************************************************************************)
\* The client does its part of the operation, or the socket fails.
Complete ==
    /\ op # "none" /\ result = "pending"
    /\ \/ socket = "open" /\ result' \in {"ok", "error"}
       \/ socket # "open" /\ result' = "error"
    /\ UNCHANGED <<op, timer, fired, timedOut, socket, replies, stream>>

\* On a socket that has been shut down an operation fails by itself.
Fail == socket = "closed" /\ Complete

Expire ==
    /\ timer /\ fired < MaxFired
    /\ timer' = FALSE
    /\ fired' = fired + 1
    /\ UNCHANGED <<op, result, timedOut, socket, replies, stream>>

-----------------------------------------------------------------------------
(***************************************************************************)
(* What the handlers are made of.                                          *)
(***************************************************************************)
\* The strand runs one handler at a time; socket_.shutdown blocks inside one.
StrandFree == socket # "closing"

Start(o) == op' = o /\ result' = "pending"
Finish   == op' = "none" /\ result' = "pending"

\* A mutant: the operation is started with the timer as it is.
StartUnguarded(o) == Start(o) /\ UNCHANGED timer

\* schedule_timeout, and the read that it guards, which is started in either case
StartGuarded(o) == Start(o) /\ timer' \in Scheduled

\* A mutant: shutdown does not close the socket.
ShutdownKeepingSocket ==
    /\ stream' = FALSE
    /\ timer' = FALSE
    /\ UNCHANGED socket

\* connection::shutdown.  socket_.shutdown waits for the close_notify of the
\* client unless the session is broken, and for as long as the client takes.
Shutdown ==
    /\ stream' = FALSE
    /\ timer' = FALSE
    /\ socket' \in {"closing", "closed"}

\* The handler of operation o takes its result.
Handler(o) == op = o /\ result # "pending" /\ StrandFree

\* if (this->timed_out) return
ReturnEarly(o) ==
    /\ Handler(o) /\ timedOut
    /\ Finish
    /\ UNCHANGED <<timer, fired, timedOut, socket, replies, stream>>

\* A mutant: if (e) return
BrokenQuietly(o) ==
    /\ Handler(o) /\ ~timedOut /\ result = "error"
    /\ Finish
    /\ UNCHANGED <<timer, fired, timedOut, socket, replies, stream>>

\* if (e) return this->shutdown()
Broken(o) ==
    /\ Handler(o) /\ ~timedOut /\ result = "error"
    /\ Shutdown
    /\ Finish
    /\ UNCHANGED <<fired, timedOut, replies>>

\* A mutant: the flag is not looked at.
SucceededEvenTimedOut(o) == Handler(o) /\ result = "ok"

Succeeded(o) == Handler(o) /\ ~timedOut /\ result = "ok"

-----------------------------------------------------------------------------
(***************************************************************************)
(* The chain: handshake, then header, body, and for every reply            *)
(* writeHeader and writeBody, then header again.                           *)
(***************************************************************************)
\* read_request after the handshake
ReadRequest ==
    /\ Succeeded("handshake")
    /\ StartGuarded("header")
    /\ UNCHANGED <<fired, timedOut, socket, replies, stream>>

ReadBody ==
    /\ Succeeded("header")
    /\ StartGuarded("body")
    /\ UNCHANGED <<fired, timedOut, socket, replies, stream>>

\* handle_request: the answer may come in several messages, and the request may
\* have opened or closed the stream of an upload.
HandleRequest ==
    /\ Succeeded("body")
    /\ timer' = FALSE
    /\ replies' \in 1 .. MaxReplies
    /\ stream' \in BOOLEAN
    /\ Start("writeHeader")
    /\ UNCHANGED <<fired, timedOut, socket>>

\* The message could not be made, or the timer not cancelled: the exception is caught
\* and the connection shut down.
MessageFailed ==
    /\ Succeeded("body")
    /\ Shutdown
    /\ Finish
    /\ UNCHANGED <<fired, timedOut, replies>>

\* The header of the first reply is out: the reply is popped and written.
WriteBody ==
    /\ Succeeded("writeHeader")
    /\ replies' = replies - 1
    /\ Start("writeBody")
    /\ UNCHANGED <<timer, fired, timedOut, socket, stream>>

\* write_response for the next reply, or handle_completion after the last
NextReply ==
    /\ Succeeded("writeBody")
    /\ IF replies = 0 THEN StartGuarded("header") ELSE Start("writeHeader") /\ UNCHANGED timer
    /\ UNCHANGED <<fired, timedOut, socket, replies, stream>>

\* The handler of an expired wait, whatever the connection is doing by now.
Timeout ==
    /\ fired > 0 /\ StrandFree /\ op # "none"
    /\ fired' = fired - 1
    /\ timedOut' = TRUE
    /\ Shutdown
    /\ UNCHANGED <<op, result, replies>>

\* The same handler on a connection that has been destroyed.  What it does is
\* undefined; here the access goes unnoticed.
TimeoutTooLate ==
    /\ fired > 0 /\ StrandFree /\ op = "none"
    /\ fired' = fired - 1
    /\ UNCHANGED <<op, result, timer, timedOut, socket, replies, stream>>

\* socket_.shutdown returns: the client answered, or was found dead by TCP keep-alive.
\* A client that lives and does not answer keeps it waiting for ever.
ShutdownReturns ==
    /\ socket = "closing"
    /\ socket' = "closed"
    /\ UNCHANGED <<op, result, timer, fired, timedOut, replies, stream>>

Handlers ==
    \/ \E o \in ReadOp \cup WriteOp : ReturnEarly(o) \/ Broken(o)
    \/ ReadRequest \/ ReadBody \/ HandleRequest \/ MessageFailed \/ WriteBody \/ NextReply
    \/ Timeout \/ TimeoutTooLate

Next == Complete \/ Expire \/ Handlers \/ ShutdownReturns

\* The pool runs queued handlers, the clock goes on, and an operation on a closed
\* socket fails.  Nothing is asked of the client, its close_notify included.
Fairness == WF_vars(Handlers) /\ WF_vars(Expire) /\ WF_vars(Fail)

Spec == Init /\ [][Next]_vars /\ Fairness

-----------------------------------------------------------------------------
(***************************************************************************)
(* Properties.                                                             *)
(***************************************************************************)
Gone == op = "none" /\ socket = "closed"

\* A connection that waits for its client to send is never left without a timer:
\* a wait is in progress, or one has expired and its handler will close the
\* connection, or the connection is being closed already.
ReadGuarded ==
    op \in ReadOp /\ result = "pending" /\ socket = "open" => timer \/ fired > 0

\* A connection that is gone has left no stream in open_streams: every way out of
\* the chain goes through shutdown after the last request was handled.
StreamNotLeaked == op = "none" => ~stream

\* A connection whose timer has fired starts no operation and handles no request,
\* though its operations in progress still complete.
NothingAfterTimeout == [][timedOut => op' \in {op, "none"} /\ replies' = replies]_vars

\* A client that stays silent while the server reads does not hold what its session
\* has: the read ends, or the timer's shutdown has erased the stream and is waiting
\* for the client's close_notify, which is as far as the code gets by itself.
SilentClientDropped ==
    \A o \in ReadOp : op = o ~> op # o \/ (socket = "closing" /\ ~stream)

\* Once the timer has fired the connection is closed and destroyed, provided that
\* socket_.shutdown does not wait for ever.
TimeoutCloses == []<>(socket # "closing") => (timedOut ~> Gone)

\* The timer ends connections whose client does not send: it "is used to manage
\* user disconnection that are not automatically detected", and handle_request
\* cancels it as soon as the request is there.
TimeoutOnlyWhileReading ==
    [][timedOut' /\ ~timedOut => op \in ReadOp]_vars

\* The timer serves "for handling not automatically detected disconnected client":
\* when its handler runs there is a connection to handle.
TimeoutFindsConnection == fired > 0 => op # "none"

\* And a client that is gone, or no longer reads, while an answer is written is
\* dropped as well.
UnreadAnswerDropped == \A o \in WriteOp : op = o ~> op # o

-----------------------------------------------------------------------------
(***************************************************************************)
(* The inductive invariant behind StreamNotLeaked and, when the timer does *)
(* not fail, ReadGuarded.  Only a timeout closes a socket under an         *)
(* operation in progress, so that no handler that goes on has a socket     *)
(* that was shut down; and what was shut down has no stream.               *)
(***************************************************************************)
OpenUntilTimedOut == op # "none" /\ ~timedOut => socket = "open"
ShutAfterTimeout  == timedOut => ~stream
ReplyToWrite      == op = "writeHeader" => replies # 0

IInv == TypeOK /\ OpenUntilTimedOut /\ ShutAfterTimeout /\ ReplyToWrite /\ StreamNotLeaked
=============================================================================
