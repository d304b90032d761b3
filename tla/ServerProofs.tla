---------------------------- MODULE ServerProofs ----------------------------
(***************************************************************************)
(* What Server guarantees for any number of threads and clients.           *)
(***************************************************************************)
EXTENDS Server, TLAPS

-----------------------------------------------------------------------------
(***************************************************************************)
(* A queue without repetitions, as the set of what is in it.               *)
(***************************************************************************)
LEMMA EmptyQueue ==
    ASSUME NEW S
    PROVE  <<>> \in Seq(S) /\ Range(<<>>) = {} /\ IsInjective(<<>>)
BY DEF Range, IsInjective

\* Append adds what was not there.
LEMMA AddLast ==
    ASSUME NEW S, NEW s \in Seq(S), NEW e \in S
    PROVE  /\ Append(s, e) \in Seq(S)
           /\ Range(Append(s, e)) = Range(s) \cup {e}
           /\ IsInjective(s) /\ e \notin Range(s) => IsInjective(Append(s, e))
<1>1. /\ Append(s, e) \in Seq(S)
      /\ DOMAIN Append(s, e) = DOMAIN s \cup {Len(s) + 1}
      /\ \A i \in DOMAIN s : Append(s, e)[i] = s[i]
      /\ Append(s, e)[Len(s) + 1] = e
  OBVIOUS
<1>2. QED BY <1>1 DEF Range, IsInjective

\* Tail takes the head away.
LEMMA TakeHead ==
    ASSUME NEW S, NEW s \in Seq(S), s # <<>>
    PROVE  /\ Tail(s) \in Seq(S) /\ Head(s) \in Range(s) /\ Head(s) \in S
           /\ IsInjective(s) => /\ IsInjective(Tail(s))
                                /\ Range(Tail(s)) = Range(s) \ {Head(s)}
<1>1. /\ Tail(s) \in Seq(S) /\ Head(s) = s[1] /\ Head(s) \in S
      /\ 1 \in DOMAIN s
  OBVIOUS
<1>2. /\ \A i \in DOMAIN Tail(s) : i + 1 \in DOMAIN s /\ i + 1 # 1 /\ Tail(s)[i] = s[i + 1]
      /\ \A j \in DOMAIN s \ {1} : j - 1 \in DOMAIN Tail(s) /\ Tail(s)[j - 1] = s[j]
  OBVIOUS
<1>3. ASSUME IsInjective(s) PROVE IsInjective(Tail(s))
  <2>1. SUFFICES ASSUME NEW i \in DOMAIN Tail(s), NEW j \in DOMAIN Tail(s),
                        Tail(s)[i] = Tail(s)[j]
                 PROVE  i = j
    BY DEF IsInjective
  <2>2. i + 1 = j + 1
    BY <1>2, <1>3, <2>1 DEF IsInjective
  <2>3. i \in Nat /\ j \in Nat
    BY <1>1
  <2>4. QED BY <2>2, <2>3
<1>4. ASSUME IsInjective(s) PROVE Range(Tail(s)) = Range(s) \ {Head(s)}
  <2>1. \A i \in DOMAIN Tail(s) : Tail(s)[i] \in Range(s) /\ Tail(s)[i] # Head(s)
    BY <1>1, <1>2, <1>4 DEF Range, IsInjective
  <2>2. \A j \in DOMAIN s : s[j] # Head(s) => s[j] \in Range(Tail(s))
    BY <1>1, <1>2 DEF Range
  <2>3. QED BY <2>1, <2>2 DEF Range
<1>5. QED BY <1>1, <1>3, <1>4 DEF Range

\* In a queue without repetitions the set of handlers of a kind has one index each.
LEMMA OneIndex ==
    ASSUME NEW s, IsInjective(s), NEW A, NEW h, Range(s) \cap A = {h}
    PROVE  \E i \in DOMAIN s : {j \in DOMAIN s : s[j] \in A} = {i}
<1>1. PICK i \in DOMAIN s : s[i] = h
  BY DEF Range
<1>2. {j \in DOMAIN s : s[j] \in A} = {i}
  BY <1>1 DEF Range, IsInjective
<1>3. QED BY <1>2

\* Handlers are known by their kind and client.
LEMMA HandlersDiffer ==
    /\ AcceptFailed # StopSignal
    /\ \A k, c : Handler(k, c) # AcceptFailed /\ Handler(k, c) # StopSignal
    /\ \A k, c, l, e : Handler(k, c) = Handler(l, e) <=> k = l /\ c = e
BY DEF AcceptFailed, StopSignal, Handler

LEMMA HandlersAreHandlers ==
    /\ AcceptFailed \in HandlerKind /\ StopSignal \in HandlerKind
    /\ \A c \in Client : /\ Handler("accept", c) \in HandlerKind
                         /\ Handler("request", c) \in HandlerKind
                         /\ Handler("shutdown", c) \in HandlerKind
BY DEF HandlerKind

\* What is an accept handler and what is not.
LEMMA AcceptHandlers ==
    /\ AcceptFailed \in AcceptHandler /\ StopSignal \notin AcceptHandler
    /\ \A c \in Client : /\ Handler("accept", c) \in AcceptHandler
                         /\ Handler("request", c) \notin AcceptHandler
                         /\ Handler("shutdown", c) \notin AcceptHandler
    /\ \A h \in AcceptHandler : h = AcceptFailed \/ \E c \in Client : h = Handler("accept", c)
BY HandlersDiffer DEF AcceptHandler

-----------------------------------------------------------------------------
(***************************************************************************)
(* The steps.                                                              *)
(***************************************************************************)
LEMMA InitIInv == Init => IInv
<1>1. SUFFICES ASSUME Init PROVE IInv
  OBVIOUS
<1>2. TypeOK
  BY <1>1, EmptyQueue DEF Init, TypeOK, ClientState
<1>3. HandlerInStep /\ BacklogInStep
  BY <1>1, EmptyQueue DEF Init, HandlerInStep, BacklogInStep
<1>4. Separate
  BY <1>1, EmptyQueue, ClientAssumption DEF Init, Separate
<1>5. AcceptPosted /\ StopBySignal
  BY <1>1, EmptyQueue DEF Init, AcceptPosted, StopBySignal
<1>6. QED BY <1>2, <1>3, <1>4, <1>5 DEF IInv

LEMMA ConnectIInv == ASSUME IInv, NEW c \in Client, Connect(c) PROVE IInv'
<1>1. /\ client \in [Client -> ClientState] /\ client[c] = "away"
      /\ client' = [client EXCEPT ![c] = "backlog"]
      /\ backlog \in Seq(Client) /\ backlog' = Append(backlog, c)
      /\ c \notin Range(backlog)
  BY DEF IInv, TypeOK, BacklogInStep, Connect
<1>2. backlog' \in Seq(Client) /\ Range(backlog') = Range(backlog) \cup {c}
      /\ (IsInjective(backlog) => IsInjective(backlog'))
  BY <1>1, AddLast
<1>3. TypeOK'
  BY <1>1, <1>2 DEF IInv, TypeOK, Connect, ClientState
<1>4. HandlerInStep' /\ BacklogInStep'
  BY <1>1, <1>2 DEF IInv, HandlerInStep, BacklogInStep, Connect
<1>5. Separate' /\ AcceptPosted' /\ StopBySignal'
  BY <1>2 DEF IInv, Separate, AcceptPosted, StopBySignal, Connect
<1>6. QED BY <1>3, <1>4, <1>5 DEF IInv

LEMMA DisconnectIInv == ASSUME IInv, NEW c \in Client, Disconnect(c) PROVE IInv'
<1>1. /\ client \in [Client -> ClientState] /\ client[c] = "accepted"
      /\ client' = [client EXCEPT ![c] = "gone"]
  BY DEF IInv, TypeOK, Disconnect
<1>2. TypeOK'
  BY <1>1 DEF IInv, TypeOK, Disconnect, ClientState
<1>3. HandlerInStep' /\ BacklogInStep'
  BY <1>1 DEF IInv, HandlerInStep, BacklogInStep, Disconnect
<1>4. Separate' /\ AcceptPosted' /\ StopBySignal'
  BY DEF IInv, Separate, AcceptPosted, StopBySignal, Disconnect
<1>5. QED BY <1>2, <1>3, <1>4 DEF IInv

\* The accept completes: its handler is the only one of its kind in the queue.
LEMMA AcceptedIInv == ASSUME IInv, Accepted PROVE IInv'
<1> DEFINE c == Head(backlog)
           h == Handler("accept", c)
<1>1. /\ backlog \in Seq(Client) /\ backlog # <<>> /\ backlog' = Tail(backlog)
      /\ queue \in Seq(HandlerKind) /\ queue' = Append(queue, h)
      /\ client \in [Client -> ClientState] /\ client' = [client EXCEPT ![c] = "accepted"]
      /\ IsInjective(backlog) /\ IsInjective(queue)
      /\ accepting /\ ~accepting'
  BY DEF IInv, TypeOK, Separate, Accepted, Post
<1>2. /\ backlog' \in Seq(Client) /\ c \in Range(backlog) /\ c \in Client
      /\ IsInjective(backlog') /\ Range(backlog') = Range(backlog) \ {c}
  BY <1>1, TakeHead
<1>3. client[c] = "backlog"
  BY <1>2 DEF IInv, BacklogInStep
<1>4. h \in HandlerKind /\ h \in AcceptHandler /\ h \notin Range(queue)
  BY <1>1, <1>2, HandlersAreHandlers, AcceptHandlers DEF IInv, AcceptPosted
<1>5. /\ queue' \in Seq(HandlerKind) /\ IsInjective(queue')
      /\ Range(queue') = Range(queue) \cup {h}
  BY <1>1, <1>4, AddLast
<1>6. TypeOK'
  BY <1>1, <1>2, <1>3, <1>5 DEF IInv, TypeOK, Accepted, ClientState
<1>7. HandlerInStep'
  BY <1>1, <1>2, <1>3, <1>5, HandlersDiffer DEF IInv, HandlerInStep
<1>8. BacklogInStep'
  BY <1>1, <1>2 DEF IInv, BacklogInStep, TypeOK
<1>9. Separate'
  BY <1>2, <1>5 DEF IInv, Separate, Accepted
<1>10. AcceptPosted'
  BY <1>1, <1>4, <1>5 DEF IInv, AcceptPosted
<1>11. StopBySignal'
  BY <1>5, HandlersDiffer DEF IInv, StopBySignal, Accepted
<1>12. QED BY <1>6, <1>7, <1>8, <1>9, <1>10, <1>11 DEF IInv

LEMMA NotAcceptedIInv == ASSUME IInv, NotAccepted PROVE IInv'
<1>1. /\ queue \in Seq(HandlerKind) /\ queue' = Append(queue, AcceptFailed)
      /\ IsInjective(queue) /\ accepting /\ ~accepting'
  BY DEF IInv, TypeOK, Separate, NotAccepted, Post
<1>2. AcceptFailed \notin Range(queue)
  BY <1>1, AcceptHandlers DEF IInv, AcceptPosted
<1>3. /\ queue' \in Seq(HandlerKind) /\ IsInjective(queue')
      /\ Range(queue') = Range(queue) \cup {AcceptFailed}
  BY <1>1, <1>2, HandlersAreHandlers, AddLast
<1>4. TypeOK'
  BY <1>3 DEF IInv, TypeOK, NotAccepted
<1>5. HandlerInStep' /\ BacklogInStep'
  BY <1>3, HandlersDiffer DEF IInv, HandlerInStep, BacklogInStep, NotAccepted
<1>6. Separate'
  BY <1>3 DEF IInv, Separate, NotAccepted
<1>7. AcceptPosted'
  BY <1>1, <1>3, AcceptHandlers DEF IInv, AcceptPosted
<1>8. StopBySignal'
  BY <1>3, HandlersDiffer DEF IInv, StopBySignal, NotAccepted
<1>9. QED BY <1>4, <1>5, <1>6, <1>7, <1>8 DEF IInv

\* The connection of a client posts one handler at a time.
LEMMA ReadyIInv ==
    ASSUME IInv, NEW c \in Client, NEW kind, NEW state,
           \/ kind = "request" /\ state = "busy"
           \/ kind = "shutdown" /\ state = "ending",
           Ready(c, kind, state)
    PROVE  IInv'
<1> DEFINE h == Handler(kind, c)
<1>1. /\ queue \in Seq(HandlerKind) /\ queue' = Append(queue, h) /\ IsInjective(queue)
      /\ client \in [Client -> ClientState] /\ client[c] = "served"
      /\ client' = [client EXCEPT ![c] = state]
  BY DEF IInv, TypeOK, Separate, Ready, Post
<1>2. h \in HandlerKind /\ h \notin AcceptHandler /\ h \notin Range(queue)
  BY <1>1, HandlersAreHandlers, AcceptHandlers DEF IInv, HandlerInStep
<1>3. /\ queue' \in Seq(HandlerKind) /\ IsInjective(queue')
      /\ Range(queue') = Range(queue) \cup {h}
  BY <1>1, <1>2, AddLast
<1>4. TypeOK'
  BY <1>1, <1>3 DEF IInv, TypeOK, Ready, ClientState
<1>5. HandlerInStep'
  BY <1>1, <1>3, HandlersDiffer DEF IInv, HandlerInStep
<1>6. BacklogInStep'
  BY <1>1 DEF IInv, BacklogInStep, TypeOK, Ready
<1>7. Separate'
  BY <1>3 DEF IInv, Separate, Ready
<1>8. AcceptPosted'
  BY <1>2, <1>3 DEF IInv, AcceptPosted, Ready
<1>9. StopBySignal'
  BY <1>3, HandlersDiffer DEF IInv, StopBySignal, Ready
<1>10. QED BY <1>4, <1>5, <1>6, <1>7, <1>8, <1>9 DEF IInv

LEMMA SignalIInv == ASSUME IInv, Signal PROVE IInv'
<1>1. /\ queue \in Seq(HandlerKind) /\ queue' = Append(queue, StopSignal)
      /\ IsInjective(queue) /\ signal = "armed" /\ signal' = "raised"
  BY DEF IInv, TypeOK, Separate, Signal, Post
<1>2. StopSignal \notin Range(queue)
  BY <1>1 DEF IInv, StopBySignal
<1>3. /\ queue' \in Seq(HandlerKind) /\ IsInjective(queue')
      /\ Range(queue') = Range(queue) \cup {StopSignal}
  BY <1>1, <1>2, HandlersAreHandlers, AddLast
<1>4. TypeOK'
  BY <1>1, <1>3 DEF IInv, TypeOK, Signal
<1>5. HandlerInStep' /\ BacklogInStep'
  BY <1>3, HandlersDiffer DEF IInv, HandlerInStep, BacklogInStep, Signal
<1>6. Separate'
  BY <1>3 DEF IInv, Separate, Signal
<1>7. AcceptPosted'
  BY <1>3, AcceptHandlers DEF IInv, AcceptPosted, Signal
<1>8. StopBySignal'
  BY <1>1 DEF StopBySignal
<1>9. QED BY <1>4, <1>5, <1>6, <1>7, <1>8 DEF IInv

\* A handler that a thread takes is no longer in the queue.
LEMMA Taken ==
    ASSUME IInv, NEW t \in Thread, NEW handlers, Takes(t, handlers)
    PROVE  /\ process = "running" /\ thread[t] = "free"
           /\ Head(queue) \in handlers /\ Head(queue) \in Range(queue)
           /\ queue' \in Seq(HandlerKind) /\ IsInjective(queue')
           /\ Range(queue') = Range(queue) \ {Head(queue)}
BY TakeHead DEF IInv, TypeOK, Separate, Takes

\* handle_accept takes the only accept handler, and starts an accept unless it throws.
LEMMA HandleAcceptIInv == ASSUME IInv, NEW t \in Thread, HandleAccept(t) PROVE IInv'
<1> DEFINE h == Head(queue)
<1>1. /\ process = "running" /\ h \in AcceptHandler /\ h \in Range(queue)
      /\ queue' \in Seq(HandlerKind) /\ IsInjective(queue')
      /\ Range(queue') = Range(queue) \ {h}
  BY Taken DEF HandleAccept
<1>2. ~accepting /\ Range(queue) \cap AcceptHandler = {h}
  BY <1>1 DEF IInv, AcceptPosted
<1>3. Range(queue') \cap AcceptHandler = {}
  BY <1>1, <1>2
<1>4. UNCHANGED <<thread, backlog, signal>>
  BY DEF HandleAccept
<1>5. CASE h = AcceptFailed
  <2>1. accepting' = TRUE /\ UNCHANGED <<process, client>>
    BY <1>5, HandlersDiffer DEF HandleAccept, Rearmed
  <2>2. TypeOK'
    BY <1>1, <1>4, <2>1 DEF IInv, TypeOK
  <2>3. HandlerInStep' /\ BacklogInStep' /\ Separate' /\ AcceptPosted' /\ StopBySignal'
    BY <1>1, <1>3, <1>4, <2>1
       DEF IInv, HandlerInStep, BacklogInStep, Separate, AcceptPosted, StopBySignal
  <2>4. QED BY <2>2, <2>3 DEF IInv
<1>6. ASSUME NEW c \in Client, h = Handler("accept", c), Starts(c),
             client' = [client EXCEPT ![c] = "served"], accepting' = Rearmed(h), UNCHANGED process
      PROVE  IInv'
  <2>1. client \in [Client -> ClientState] /\ client[c] = "accepted"
    BY <1>1, <1>6 DEF IInv, TypeOK, HandlerInStep, Starts
  <2>2. TypeOK'
    BY <1>1, <1>4, <1>6, <2>1 DEF IInv, TypeOK, ClientState, Rearmed
  <2>3. HandlerInStep'
    BY <1>1, <1>6, <2>1, HandlersDiffer DEF IInv, HandlerInStep
  <2>4. BacklogInStep'
    BY <1>4, <1>6, <2>1 DEF IInv, BacklogInStep, TypeOK
  <2>5. Separate' /\ AcceptPosted' /\ StopBySignal'
    BY <1>1, <1>3, <1>4, <1>6 DEF IInv, Separate, AcceptPosted, StopBySignal, Rearmed
  <2>6. QED BY <2>2, <2>3, <2>4, <2>5 DEF IInv
<1>7. ASSUME process' = "died", UNCHANGED <<client, accepting>> PROVE IInv'
  <2>1. TypeOK'
    BY <1>1, <1>4, <1>7 DEF IInv, TypeOK
  <2>2. HandlerInStep' /\ BacklogInStep' /\ Separate' /\ AcceptPosted' /\ StopBySignal'
    BY <1>1, <1>2, <1>4, <1>7
       DEF IInv, HandlerInStep, BacklogInStep, Separate, AcceptPosted, StopBySignal
  <2>3. QED BY <2>1, <2>2 DEF IInv
<1>8. QED BY <1>5, <1>6, <1>7 DEF HandleAccept

LEMMA HandleRequestIInv == ASSUME IInv, NEW t \in Thread, HandleRequest(t) PROVE IInv'
<1>1. PICK c \in Client : /\ Takes(t, {Handler("request", c)})
                          /\ client' = [client EXCEPT ![c] = "served"]
  BY DEF HandleRequest
<1> DEFINE h == Handler("request", c)
<1>2. /\ h \in Range(queue) /\ h \notin AcceptHandler
      /\ queue' \in Seq(HandlerKind) /\ IsInjective(queue')
      /\ Range(queue') = Range(queue) \ {h}
  BY <1>1, Taken, AcceptHandlers
<1>3. client \in [Client -> ClientState] /\ client[c] = "busy"
  BY <1>2 DEF IInv, TypeOK, HandlerInStep
<1>4. UNCHANGED <<process, thread, accepting, backlog, signal>>
  BY DEF HandleRequest
<1>5. TypeOK'
  BY <1>1, <1>2, <1>3, <1>4 DEF IInv, TypeOK, ClientState
<1>6. HandlerInStep'
  BY <1>1, <1>2, <1>3, HandlersDiffer DEF IInv, HandlerInStep
<1>7. BacklogInStep'
  BY <1>1, <1>3, <1>4 DEF IInv, BacklogInStep, TypeOK
<1>8. Separate' /\ AcceptPosted' /\ StopBySignal'
  BY <1>2, <1>4 DEF IInv, Separate, AcceptPosted, StopBySignal
<1>9. QED BY <1>5, <1>6, <1>7, <1>8 DEF IInv

\* The thread that shuts a client down is the only one: it took the client's handler.
LEMMA ShutdownIInv == ASSUME IInv, NEW t \in Thread, Shutdown(t) PROVE IInv'
<1>1. PICK c \in Client : /\ Takes(t, {Handler("shutdown", c)})
                          /\ thread' = [thread EXCEPT ![t] = c]
                          /\ client' = [client EXCEPT ![c] = "closing"]
  BY DEF Shutdown
<1> DEFINE h == Handler("shutdown", c)
<1>2. /\ process = "running" /\ h \in Range(queue) /\ h \notin AcceptHandler
      /\ queue' \in Seq(HandlerKind) /\ IsInjective(queue')
      /\ Range(queue') = Range(queue) \ {h}
  BY <1>1, Taken, AcceptHandlers
<1>3. /\ client \in [Client -> ClientState] /\ client[c] = "ending"
      /\ thread \in [Thread -> {"free", "exited"} \cup {e \in Client : client[e] = "closing"}]
  BY <1>2 DEF IInv, TypeOK, HandlerInStep
<1>4. UNCHANGED <<process, accepting, backlog, signal>>
  BY DEF Shutdown
<1>5. \A u \in Thread : thread[u] # c
  BY <1>3, ClientAssumption
<1>6. TypeOK'
  <2>1. thread' \in [Thread -> {"free", "exited"} \cup {e \in Client : client'[e] = "closing"}]
    BY <1>1, <1>3
  <2>2. client' \in [Client -> ClientState]
    BY <1>1, <1>3 DEF ClientState
  <2>3. QED BY <1>2, <1>4, <2>1, <2>2 DEF IInv, TypeOK
<1>7. HandlerInStep'
  BY <1>1, <1>2, <1>3, HandlersDiffer DEF IInv, HandlerInStep
<1>8. BacklogInStep'
  BY <1>1, <1>3, <1>4 DEF IInv, BacklogInStep, TypeOK
<1>9. Separate'
  BY <1>1, <1>2, <1>3, <1>4, <1>5 DEF IInv, Separate
<1>10. AcceptPosted'
  BY <1>2, <1>4 DEF IInv, AcceptPosted
<1>11. StopBySignal'
  BY <1>1, <1>2, <1>3, <1>4, ClientAssumption DEF IInv, StopBySignal
<1>12. QED BY <1>6, <1>7, <1>8, <1>9, <1>10, <1>11 DEF IInv

LEMMA ShutdownReturnsIInv == ASSUME IInv, NEW t \in Thread, ShutdownReturns(t) PROVE IInv'
<1> DEFINE c == thread[t]
<1>1. /\ c \in Client
      /\ thread' = [thread EXCEPT ![t] = "free"]
      /\ client' = [client EXCEPT ![c] = "away"]
      /\ UNCHANGED <<process, queue, accepting, backlog, signal>>
  BY DEF ShutdownReturns
<1>2. /\ client \in [Client -> ClientState] /\ client[c] = "closing"
      /\ thread \in [Thread -> {"free", "exited"} \cup {e \in Client : client[e] = "closing"}]
  BY <1>1, ClientAssumption DEF IInv, TypeOK
<1>3. \A u \in Thread \ {t} : thread[u] # c
  BY <1>1 DEF IInv, Separate
<1>4. TypeOK'
  <2>1. thread' \in [Thread -> {"free", "exited"} \cup {e \in Client : client'[e] = "closing"}]
    BY <1>1, <1>2, <1>3
  <2>2. client' \in [Client -> ClientState]
    BY <1>1, <1>2 DEF ClientState
  <2>3. QED BY <1>1, <2>1, <2>2 DEF IInv, TypeOK
<1>5. HandlerInStep' /\ BacklogInStep'
  BY <1>1, <1>2 DEF IInv, HandlerInStep, BacklogInStep, TypeOK
<1>6. Separate' /\ AcceptPosted' /\ StopBySignal'
  BY <1>1, <1>2, ClientAssumption DEF IInv, Separate, AcceptPosted, StopBySignal
<1>7. QED BY <1>4, <1>5, <1>6 DEF IInv

LEMMA HandleStopIInv == ASSUME IInv, NEW t \in Thread, HandleStop(t) PROVE IInv'
<1>1. /\ StopSignal \in Range(queue)
      /\ queue' \in Seq(HandlerKind) /\ IsInjective(queue')
      /\ Range(queue') = Range(queue) \ {StopSignal}
  BY Taken DEF HandleStop
<1>2. signal = "raised"
  BY <1>1 DEF IInv, StopBySignal
<1>3. TypeOK'
  BY <1>1 DEF IInv, TypeOK, HandleStop
<1>4. HandlerInStep' /\ BacklogInStep'
  BY <1>1 DEF IInv, HandlerInStep, BacklogInStep, HandleStop
<1>5. Separate' /\ AcceptPosted' /\ StopBySignal'
  BY <1>1, <1>2 DEF IInv, Separate, AcceptPosted, StopBySignal, HandleStop
<1>6. QED BY <1>3, <1>4, <1>5 DEF IInv

LEMMA ThreadExitsIInv == ASSUME IInv, NEW t \in Thread, ThreadExits(t) PROVE IInv'
<1>1. signal = "raised"
  BY DEF IInv, StopBySignal, ThreadExits
<1>2. TypeOK'
  BY DEF IInv, TypeOK, ThreadExits
<1>3. HandlerInStep' /\ BacklogInStep' /\ AcceptPosted' /\ StopBySignal'
  BY <1>1 DEF IInv, HandlerInStep, BacklogInStep, AcceptPosted, StopBySignal, ThreadExits
<1>4. Separate'
  BY ClientAssumption DEF IInv, TypeOK, Separate, ThreadExits
<1>5. QED BY <1>2, <1>3, <1>4 DEF IInv

LEMMA RunReturnsIInv == ASSUME IInv, RunReturns PROVE IInv'
BY DEF IInv, TypeOK, HandlerInStep, BacklogInStep, Separate, AcceptPosted, StopBySignal, RunReturns

LEMMA NextIInv == IInv /\ [Next]_vars => IInv'
<1>1. SUFFICES ASSUME IInv, [Next]_vars PROVE IInv'
  OBVIOUS
<1>2. CASE Environment
  BY <1>1, <1>2, ConnectIInv, DisconnectIInv, ReadyIInv, NotAcceptedIInv, SignalIInv
     DEF Environment
<1>3. CASE Accepted \/ RunReturns
  BY <1>1, <1>3, AcceptedIInv, RunReturnsIInv
<1>4. ASSUME NEW t \in Thread, Pool(t) \/ ShutdownReturns(t) PROVE IInv'
  BY <1>1, <1>4, HandleAcceptIInv, HandleRequestIInv, ShutdownIInv, HandleStopIInv,
     ThreadExitsIInv, ShutdownReturnsIInv DEF Pool
<1>5. CASE UNCHANGED vars
  BY <1>1, <1>5 DEF vars, IInv, TypeOK, HandlerInStep, BacklogInStep, Separate, AcceptPosted,
                    StopBySignal
<1>6. QED BY <1>1, <1>2, <1>3, <1>4, <1>5 DEF Next

-----------------------------------------------------------------------------
\* Threads, handlers and clients keep in step: no thread shuts down a client that is
\* not closing.
THEOREM TypeCorrect == Spec => []TypeOK
<1>1. IInv => TypeOK
  BY DEF IInv
<1>2. QED BY <1>1, InitIInv, NextIInv, PTL DEF Spec

\* One accept is in progress or has its handler queued, whatever fails.
THEOREM AlwaysOneAccept == Spec => []OneAccept
<1>1. ASSUME IInv PROVE OneAccept
  <2>1. CASE accepting
    BY <1>1, <2>1 DEF IInv, AcceptPosted, OneAccept, Range
  <2>2. CASE ~accepting /\ process = "running"
    <3>1. PICK h \in AcceptHandler : Range(queue) \cap AcceptHandler = {h}
      BY <1>1, <2>2 DEF IInv, AcceptPosted
    <3>2. IsInjective(queue)
      BY <1>1 DEF IInv, Separate
    <3>3. \E i \in DOMAIN queue : {j \in DOMAIN queue : queue[j] \in AcceptHandler} = {i}
      BY <3>1, <3>2, OneIndex
    <3>4. QED BY <2>2, <3>3 DEF OneAccept
  <2>3. CASE process # "running"
    BY <2>3 DEF OneAccept
  <2>4. QED BY <2>1, <2>2, <2>3
<1>2. QED BY <1>1, InitIInv, NextIInv, PTL DEF Spec

\* With at least one thread the process exits by itself only after a signal.
THEOREM ExitsOnSignal == ASSUME Thread # {} PROVE Spec => []RunsUntilStopped
<1>1. Init => RunsUntilStopped
  BY DEF Init, RunsUntilStopped
<1>2. IInv /\ RunsUntilStopped /\ [Next]_vars => RunsUntilStopped'
  <2>1. SUFFICES ASSUME IInv, RunsUntilStopped, [Next]_vars PROVE RunsUntilStopped'
    OBVIOUS
  <2>2. CASE RunReturns
    BY <2>1, <2>2 DEF IInv, StopBySignal, RunReturns, Joined, RunsUntilStopped
  <2>3. CASE Environment \/ Accepted
    BY <2>1, <2>3 DEF RunsUntilStopped, Environment, Connect, Disconnect, Ready, NotAccepted,
                      Signal, Accepted
  <2>4. ASSUME NEW t \in Thread, Pool(t) \/ ShutdownReturns(t) PROVE RunsUntilStopped'
    BY <2>1, <2>4 DEF RunsUntilStopped, Pool, HandleAccept, HandleRequest, Shutdown, HandleStop,
                      ThreadExits, ShutdownReturns
  <2>5. CASE UNCHANGED vars
    BY <2>1, <2>5 DEF vars, RunsUntilStopped
  <2>6. QED BY <2>1, <2>2, <2>3, <2>4, <2>5 DEF Next
<1>3. QED BY <1>1, <1>2, InitIInv, NextIInv, PTL DEF Spec
=============================================================================
