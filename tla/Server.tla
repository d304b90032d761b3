------------------------------- MODULE Server -------------------------------
(***************************************************************************)
(* core/server.cpp and main: the accept loop, the signals and the pool of  *)
(* threads that run the handlers of all connections.                       *)
(*                                                                         *)
(* A completed operation appends its handler to the queue of the           *)
(* io_context, and the threads of the pool take handlers from its head.    *)
(* Of a connection this module keeps what occupies a thread: a request,    *)
(* and the shutdown that waits for the close_notify of the client          *)
(* (Connection has the rest).                                              *)
(***************************************************************************)
EXTENDS Naturals, Sequences, Functions

CONSTANTS
    Thread,     \* the threads of the pool, as many as the option says
    Client

ASSUME ClientAssumption == {"free", "exited"} \cap Client = {}

VARIABLES
    process,    \* "running"; "stopping" after io_.stop(); "exited", run() has returned
                \* and main with it; "died", an exception left a thread of the pool
    thread,     \* [Thread -> "free", "exited" or the client it shuts down]
    queue,      \* the handlers ready to run
    accepting,  \* is an async_accept in progress?
    backlog,    \* connections that the acceptor has not taken yet
    client,     \* where each client is
    signal      \* "armed": the signal set waits; "raised" afterwards

vars == <<process, thread, queue, accepting, backlog, client, signal>>

\* "gone" is a client that went away before its connection was started.
ClientState == {"away", "backlog", "accepted", "gone", "served", "busy", "ending", "closing"}

Handler(kind, c) == <<kind, c>>
AcceptFailed == <<"acceptFailed">>
StopSignal   == <<"stop">>
HandlerKind  == {AcceptFailed, StopSignal}
                  \cup {Handler(kind, c) : kind \in {"accept", "request", "shutdown"}, c \in Client}
AcceptHandler == {AcceptFailed} \cup {Handler("accept", c) : c \in Client}

TypeOK ==
    /\ process \in {"running", "stopping", "exited", "died"}
    /\ thread \in [Thread -> {"free", "exited"} \cup {c \in Client : client[c] = "closing"}]
    /\ queue \in Seq(HandlerKind)
    /\ accepting \in BOOLEAN
    /\ backlog \in Seq(Client)
    /\ client \in [Client -> ClientState]
    /\ signal \in {"armed", "raised"}

\* The constructor has started the first accept, and run() the threads.
Init ==
    /\ process = "running"
    /\ thread = [t \in Thread |-> "free"]
    /\ queue = <<>>
    /\ accepting = TRUE
    /\ backlog = <<>>
    /\ client = [c \in Client |-> "away"]
    /\ signal = "armed"

-----------------------------------------------------------------------------
(***************************************************************************)
(* The clients, the network and the operator.                              *)
(***************************************************************************)
Up == process \in {"running", "stopping"}

Post(h) == queue' = Append(queue, h)

Connect(c) ==
    /\ Up /\ client[c] = "away"
    /\ client' = [client EXCEPT ![c] = "backlog"]
    /\ backlog' = Append(backlog, c)
    /\ UNCHANGED <<process, thread, queue, accepting, signal>>

\* A client goes away while its connection is accepted but not started.
Disconnect(c) ==
    /\ Up /\ client[c] = "accepted"
    /\ client' = [client EXCEPT ![c] = "gone"]
    /\ UNCHANGED <<process, thread, queue, accepting, backlog, signal>>

\* async_accept completes with the connection that has waited longest, ...
Accepted ==
    /\ Up /\ accepting /\ backlog # <<>>
    /\ accepting' = FALSE
    /\ backlog' = Tail(backlog)
    /\ client' = [client EXCEPT ![Head(backlog)] = "accepted"]
    /\ Post(Handler("accept", Head(backlog)))
    /\ UNCHANGED <<process, thread, signal>>

\* ... or with an error, as when the process has no descriptor left.
NotAccepted ==
    /\ Up /\ accepting /\ backlog # <<>>
    /\ accepting' = FALSE
    /\ Post(AcceptFailed)
    /\ UNCHANGED <<process, thread, backlog, client, signal>>

\* A request has been read; or the timer has expired or the socket failed.
Ready(c, kind, state) ==
    /\ Up /\ client[c] = "served"
    /\ client' = [client EXCEPT ![c] = state]
    /\ Post(Handler(kind, c))
    /\ UNCHANGED <<process, thread, accepting, backlog, signal>>

\* SIGINT, SIGTERM or SIGQUIT.  The wait is not renewed: later signals do nothing.
Signal ==
    /\ Up /\ signal = "armed"
    /\ signal' = "raised"
    /\ Post(StopSignal)
    /\ UNCHANGED <<process, thread, accepting, backlog, client>>

-----------------------------------------------------------------------------
(***************************************************************************)
(* The pool.                                                               *)
(***************************************************************************)
\* A free thread takes the first handler, unless the io_context has been stopped.
Takes(t, handlers) ==
    /\ process = "running" /\ thread[t] = "free"
    /\ queue # <<>> /\ Head(queue) \in handlers
    /\ queue' = Tail(queue)

\* A mutant: start_accept only if a connection was accepted.
RearmedAfterSuccess(h) == h # AcceptFailed

\* start_accept
Rearmed(h) == TRUE

\* remote_endpoint throws in start when the client is gone.
Starts(c) == client[c] # "gone"

\* handle_accept
HandleAccept(t) ==
    /\ Takes(t, AcceptHandler)
    /\ LET h == Head(queue) IN
       \/ /\ h = AcceptFailed
          /\ accepting' = Rearmed(h)
          /\ UNCHANGED <<process, client>>
       \/ \E c \in Client : h = Handler("accept", c) /\
            \/ /\ Starts(c)
               /\ client' = [client EXCEPT ![c] = "served"]
               /\ accepting' = Rearmed(h)
               /\ UNCHANGED process
            \/ /\ ~Starts(c)
               /\ process' = "died"
               /\ UNCHANGED <<client, accepting>>
    /\ UNCHANGED <<thread, backlog, signal>>

\* A handler of a connection that does not block.
HandleRequest(t) ==
    /\ \E c \in Client :
         /\ Takes(t, {Handler("request", c)})
         /\ client' = [client EXCEPT ![c] = "served"]
    /\ UNCHANGED <<process, thread, accepting, backlog, signal>>

\* connection::shutdown, which waits for the client in this thread
Shutdown(t) ==
    /\ \E c \in Client :
         /\ Takes(t, {Handler("shutdown", c)})
         /\ thread' = [thread EXCEPT ![t] = c]
         /\ client' = [client EXCEPT ![c] = "closing"]
    /\ UNCHANGED <<process, accepting, backlog, signal>>

\* The client has answered, or TCP keep-alive has found it dead.  For a client that
\* lives and does not answer the thread waits for ever.
ShutdownReturns(t) ==
    /\ Up /\ thread[t] \in Client
    /\ thread' = [thread EXCEPT ![t] = "free"]
    /\ client' = [client EXCEPT ![thread[t]] = "away"]
    /\ UNCHANGED <<process, queue, accepting, backlog, signal>>

\* A mutant: the acceptor is closed and the io_context goes on.
CloseAcceptor(t) ==
    /\ Takes(t, {StopSignal})
    /\ accepting' = FALSE
    /\ UNCHANGED <<process, thread, backlog, client, signal>>

\* handle_stop
HandleStop(t) ==
    /\ Takes(t, {StopSignal})
    /\ process' = "stopping"
    /\ UNCHANGED <<thread, accepting, backlog, client, signal>>

\* io_context::run returns in a thread that has finished its handler.
ThreadExits(t) ==
    /\ process = "stopping" /\ thread[t] = "free"
    /\ thread' = [thread EXCEPT ![t] = "exited"]
    /\ UNCHANGED <<process, queue, accepting, backlog, client, signal>>

\* A mutant: the threads are not joined.
Detached == TRUE

Joined == \A t \in Thread : thread[t] = "exited"

\* server::run returns, and main with EXIT_SUCCESS.
RunReturns ==
    /\ Up /\ Joined
    /\ process' = "exited"
    /\ UNCHANGED <<thread, queue, accepting, backlog, client, signal>>

-----------------------------------------------------------------------------
Environment ==
    \/ \E c \in Client : \/ Connect(c) \/ Disconnect(c)
                         \/ Ready(c, "request", "busy") \/ Ready(c, "shutdown", "ending")
    \/ NotAccepted \/ Signal

Pool(t) == HandleAccept(t) \/ HandleRequest(t) \/ Shutdown(t) \/ HandleStop(t) \/ ThreadExits(t)

Next == Environment \/ Accepted \/ RunReturns \/ \E t \in Thread : Pool(t) \/ ShutdownReturns(t)

\* Threads are scheduled, and an accept that can succeed again and again does so.
\* Nothing is asked of the clients: a thread that waits for one may wait for ever.
Fairness == /\ \A t \in Thread : WF_vars(Pool(t))
            /\ SF_vars(Accepted) /\ WF_vars(RunReturns)

Spec == Init /\ [][Next]_vars /\ Fairness

-----------------------------------------------------------------------------
(***************************************************************************)
(* Properties.                                                             *)
(***************************************************************************)
\* While the server runs there is one accept, in progress or with its handler in the
\* queue: never none, after which no client would be taken, and never two, of which
\* the second would replace the connection object of the first.
OneAccept ==
    LET handlers == {i \in DOMAIN queue : queue[i] \in AcceptHandler} IN
    process = "running" => IF accepting THEN handlers = {} ELSE \E i \in DOMAIN queue : handlers = {i}

\* The process exits by itself only after a signal: main says "Run the server until
\* stopped".
RunsUntilStopped == process = "exited" => signal = "raised"

\* handle_accept "allows the server to restart the acceptance phase" after every
\* connection, one whose client has gone already included.
AcceptsAgain == process # "died"

\* A client that connects is taken, unless the server stops: "A thread pool is used to
\* manage all incoming connection with an async approach".
ClientTaken ==
    \A c \in Client : client[c] = "backlog" ~> client[c] # "backlog" \/ process # "running"

\* A request that has been read is handled, unless the server stops.
RequestHandled ==
    \A c \in Client : client[c] = "busy" ~> client[c] # "busy" \/ process # "running"

\* A thread is out of shutdown again and again: the silent clients are fewer than the
\* threads, or not silent for ever.
SomeThreadReturns == []<>(\E t \in Thread : thread[t] \notin Client)

\* One thread that comes back is enough for all clients: whatever accepts fail and
\* whichever threads are lost to a shutdown, no client waits for ever.
ServedUnlessBlocked == SomeThreadReturns => ClientTaken /\ RequestHandled

\* After a signal the process comes to its end, though run() joins every thread: none
\* may stay in a shutdown, and none needs more than that.
ExitsUnlessBlocked ==
    (\A t \in Thread : []<>(thread[t] \notin Client)) => (signal = "raised" ~> ~Up)

-----------------------------------------------------------------------------
(***************************************************************************)
(* The inductive invariant behind OneAccept and, with a thread in the      *)
(* pool, RunsUntilStopped.                                                 *)
(***************************************************************************)
\* A handler is queued for a connection that is where its kind says.
HandlerInStep ==
    \A c \in Client :
      /\ Handler("accept", c) \in Range(queue) => client[c] \in {"accepted", "gone"}
      /\ Handler("request", c) \in Range(queue) => client[c] = "busy"
      /\ Handler("shutdown", c) \in Range(queue) => client[c] = "ending"

BacklogInStep == \A c \in Range(backlog) : client[c] = "backlog"

\* No handler is queued twice, no client is there twice, no two threads shut one down.
Separate ==
    /\ IsInjective(queue) /\ IsInjective(backlog)
    /\ \A t, u \in Thread : thread[t] \in Client /\ thread[t] = thread[u] => t = u

\* Of the accept there is the operation or its handler, unless the server has ended.
AcceptPosted ==
    IF accepting THEN Range(queue) \cap AcceptHandler = {}
    ELSE process = "running" => \E h \in AcceptHandler : Range(queue) \cap AcceptHandler = {h}

StopBySignal ==
    (process = "stopping" \/ StopSignal \in Range(queue) \/ \E t \in Thread : thread[t] = "exited")
      => signal = "raised"

IInv ==
    /\ TypeOK /\ HandlerInStep /\ BacklogInStep /\ Separate
    /\ AcceptPosted /\ StopBySignal
=============================================================================
