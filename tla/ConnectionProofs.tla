-------------------------- MODULE ConnectionProofs --------------------------
(***************************************************************************)
(* What Connection guarantees whatever the number of messages in an answer *)
(* and of expired waits in the queue.                                      *)
(***************************************************************************)
EXTENDS Connection, TLAPS

LEMMA InitIInv == Init => IInv
<1>1. 0 \in 0 .. MaxReplies /\ 0 \in 0 .. MaxFired
  BY BoundAssumption
<1>2. timer \in Scheduled => timer \in BOOLEAN
  BY DEF Scheduled
<1>3. QED
  BY <1>1, <1>2 DEF Init, IInv, TypeOK, OpenUntilTimedOut, ShutAfterTimeout, ReplyToWrite,
                    StreamNotLeaked, ReadOp, WriteOp

\* A handler that finds no error and no timeout has an open socket.
LEMMA SucceededOpen ==
    ASSUME IInv, NEW o \in ReadOp \cup WriteOp, Succeeded(o)
    PROVE  op = o /\ socket = "open" /\ ~timedOut
BY DEF IInv, OpenUntilTimedOut, Succeeded, Handler, ReadOp, WriteOp

LEMMA CompleteIInv == ASSUME IInv, Complete PROVE IInv'
BY DEF IInv, TypeOK, OpenUntilTimedOut, ShutAfterTimeout, ReplyToWrite,
       StreamNotLeaked, Complete

LEMMA ExpireIInv == ASSUME IInv, Expire PROVE IInv'
<1>1. fired' \in 0 .. MaxFired /\ fired' > 0
  BY BoundAssumption DEF IInv, TypeOK, Expire
<1>2. QED
  BY <1>1 DEF IInv, TypeOK, OpenUntilTimedOut, ShutAfterTimeout, ReplyToWrite,
       StreamNotLeaked, Expire

LEMMA ReturnEarlyIInv ==
    ASSUME IInv, NEW o \in ReadOp \cup WriteOp, ReturnEarly(o) PROVE IInv'
BY DEF IInv, TypeOK, OpenUntilTimedOut, ShutAfterTimeout, ReplyToWrite,
                    StreamNotLeaked, ReturnEarly, Finish, ReadOp, WriteOp

LEMMA BrokenIInv ==
    ASSUME IInv, NEW o \in ReadOp \cup WriteOp, Broken(o) PROVE IInv'
BY DEF IInv, TypeOK, OpenUntilTimedOut, ShutAfterTimeout, ReplyToWrite,
                    StreamNotLeaked, Broken, Finish, Shutdown, ReadOp, WriteOp

LEMMA ReadRequestIInv == ASSUME IInv, ReadRequest PROVE IInv'
<1>1. socket = "open"
  BY SucceededOpen DEF ReadRequest, ReadOp
<1>2. QED
  BY <1>1 DEF IInv, TypeOK, OpenUntilTimedOut, ShutAfterTimeout, ReplyToWrite,
                    StreamNotLeaked, ReadRequest, StartGuarded, Scheduled, Start, ReadOp, WriteOp

LEMMA ReadBodyIInv == ASSUME IInv, ReadBody PROVE IInv'
<1>1. socket = "open"
  BY SucceededOpen DEF ReadBody, ReadOp
<1>2. QED
  BY <1>1 DEF IInv, TypeOK, OpenUntilTimedOut, ShutAfterTimeout, ReplyToWrite,
                    StreamNotLeaked, ReadBody, StartGuarded, Scheduled, Start, ReadOp, WriteOp

\* The only step that opens a stream has an open socket.
LEMMA HandleRequestIInv == ASSUME IInv, HandleRequest PROVE IInv'
<1>1. socket = "open" /\ ~timedOut
  BY SucceededOpen DEF HandleRequest, ReadOp
<1>2. replies' \in 0 .. MaxReplies /\ replies' # 0
  BY BoundAssumption DEF HandleRequest
<1>3. QED
  BY <1>1, <1>2 DEF IInv, TypeOK, OpenUntilTimedOut, ShutAfterTimeout, ReplyToWrite,
                    StreamNotLeaked, HandleRequest, Start, ReadOp, WriteOp

LEMMA MessageFailedIInv == ASSUME IInv, MessageFailed PROVE IInv'
BY DEF IInv, TypeOK, OpenUntilTimedOut, ShutAfterTimeout, ReplyToWrite, StreamNotLeaked,
       MessageFailed, Finish, Shutdown, ReadOp, WriteOp

LEMMA WriteBodyIInv == ASSUME IInv, WriteBody PROVE IInv'
<1>1. op = "writeHeader" /\ socket = "open"
  BY SucceededOpen DEF WriteBody, WriteOp
<1>2. replies' \in 0 .. MaxReplies
  BY <1>1, BoundAssumption DEF IInv, TypeOK, ReplyToWrite, WriteBody
<1>3. QED
  BY <1>1, <1>2 DEF IInv, TypeOK, OpenUntilTimedOut, ShutAfterTimeout, ReplyToWrite,
                    StreamNotLeaked, WriteBody, Start, ReadOp, WriteOp

LEMMA NextReplyIInv == ASSUME IInv, NextReply PROVE IInv'
<1>1. socket = "open"
  BY SucceededOpen DEF NextReply, WriteOp
<1>2. CASE replies = 0
  BY <1>1, <1>2 DEF IInv, TypeOK, OpenUntilTimedOut, ShutAfterTimeout, ReplyToWrite,
                    StreamNotLeaked, NextReply, StartGuarded, Scheduled, Start, ReadOp, WriteOp
<1>3. CASE replies # 0
  BY <1>1, <1>3 DEF IInv, TypeOK, OpenUntilTimedOut, ShutAfterTimeout, ReplyToWrite,
                    StreamNotLeaked, NextReply, Start, ReadOp, WriteOp
<1>4. QED BY <1>2, <1>3

LEMMA TimeoutIInv == ASSUME IInv, Timeout PROVE IInv'
<1>1. fired' \in 0 .. MaxFired
  BY BoundAssumption DEF IInv, TypeOK, Timeout
<1>2. QED
  BY <1>1 DEF IInv, TypeOK, OpenUntilTimedOut, ShutAfterTimeout, ReplyToWrite,
                    StreamNotLeaked, Timeout, Shutdown

LEMMA TimeoutTooLateIInv == ASSUME IInv, TimeoutTooLate PROVE IInv'
<1>1. fired' \in 0 .. MaxFired
  BY BoundAssumption DEF IInv, TypeOK, TimeoutTooLate
<1>2. QED
  BY <1>1 DEF IInv, TypeOK, OpenUntilTimedOut, ShutAfterTimeout, ReplyToWrite,
                    StreamNotLeaked, TimeoutTooLate, ReadOp, WriteOp

LEMMA ShutdownReturnsIInv == ASSUME IInv, ShutdownReturns PROVE IInv'
BY DEF IInv, TypeOK, OpenUntilTimedOut, ShutAfterTimeout, ReplyToWrite,
                    StreamNotLeaked, ShutdownReturns

LEMMA NextIInv == IInv /\ [Next]_vars => IInv'
<1>1. SUFFICES ASSUME IInv, [Next]_vars PROVE IInv'
  OBVIOUS
<1>2. CASE Complete
  BY <1>1, <1>2, CompleteIInv
<1>3. CASE Expire
  BY <1>1, <1>3, ExpireIInv
<1>4. CASE Handlers
  <2>1. ASSUME NEW o \in ReadOp \cup WriteOp, ReturnEarly(o) \/ Broken(o) PROVE IInv'
    BY <1>1, <2>1, ReturnEarlyIInv, BrokenIInv
  <2>2. CASE ReadRequest \/ ReadBody \/ HandleRequest \/ MessageFailed \/ WriteBody \/ NextReply
    BY <1>1, <2>2, ReadRequestIInv, ReadBodyIInv, HandleRequestIInv, MessageFailedIInv,
       WriteBodyIInv, NextReplyIInv
  <2>3. CASE Timeout \/ TimeoutTooLate
    BY <1>1, <2>3, TimeoutIInv, TimeoutTooLateIInv
  <2>4. QED BY <1>4, <2>1, <2>2, <2>3 DEF Handlers
<1>5. CASE ShutdownReturns
  BY <1>1, <1>5, ShutdownReturnsIInv
<1>6. CASE UNCHANGED vars
  BY <1>1, <1>6 DEF vars, IInv, TypeOK, OpenUntilTimedOut, ShutAfterTimeout,
                    ReplyToWrite, StreamNotLeaked
<1>7. QED BY <1>1, <1>2, <1>3, <1>4, <1>5, <1>6 DEF Next

\* The chain keeps its types: replies are popped only when there is one.
THEOREM TypeCorrect == Spec => []TypeOK
<1>1. IInv => TypeOK
  BY DEF IInv
<1>2. QED BY <1>1, InitIInv, NextIInv, PTL DEF Spec

\* Every step that starts a read sets the timer, if the timer can be set, and what takes
\* the timer away from a read shuts the socket down.
LEMMA StepGuards ==
    ASSUME IInv, ReadGuarded, ~TimerFails, [Next]_vars PROVE ReadGuarded'
<1>1. CASE Complete \/ ShutdownReturns \/ UNCHANGED vars
  BY <1>1 DEF ReadGuarded, Complete, ShutdownReturns, vars
<1>2. CASE Expire
  BY <1>2, BoundAssumption DEF IInv, TypeOK, ReadGuarded, Expire
<1>3. ASSUME NEW o, ReturnEarly(o) \/ Broken(o) PROVE ReadGuarded'
  BY <1>3 DEF ReadGuarded, ReturnEarly, Broken, Finish, ReadOp
<1>4. CASE ReadRequest \/ ReadBody
  BY <1>4 DEF ReadGuarded, ReadRequest, ReadBody, StartGuarded, Scheduled
<1>5. CASE HandleRequest \/ MessageFailed \/ WriteBody
  BY <1>5 DEF ReadGuarded, HandleRequest, MessageFailed, WriteBody, Start, Finish, ReadOp
<1>6. CASE NextReply
  BY <1>6 DEF ReadGuarded, NextReply, StartGuarded, Scheduled, Start, ReadOp
<1>7. CASE Timeout \/ TimeoutTooLate
  BY <1>7 DEF ReadGuarded, Timeout, Shutdown, TimeoutTooLate, ReadOp
<1>8. QED BY <1>1, <1>2, <1>3, <1>4, <1>5, <1>6, <1>7 DEF Next, Handlers

\* As long as the timer can be set, no read is left without a wait that ends it.
THEOREM ReadsAreGuarded == ASSUME ~TimerFails PROVE Spec => []ReadGuarded
<1>1. Init => ReadGuarded
  BY DEF Init, ReadGuarded, Scheduled
<1>2. IInv /\ ReadGuarded /\ [Next]_vars => ReadGuarded'
  BY StepGuards
<1>3. QED BY <1>1, <1>2, InitIInv, NextIInv, PTL DEF Spec

\* However a connection ends, by an error, its timer or an exception, it has left no
\* stream in open_streams, whether its timers were set or not.
THEOREM NoStreamLeaks == Spec => []StreamNotLeaked
<1>1. IInv => StreamNotLeaked
  BY DEF IInv
<1>2. QED BY <1>1, InitIInv, NextIInv, PTL DEF Spec

-----------------------------------------------------------------------------
\* Once the timer has fired the handlers of the operations in progress return early: a
\* step keeps the operation and the answer, or ends the chain.
LEMMA StepAfterTimeout ==
    ASSUME timedOut, [Next]_vars PROVE op' \in {op, "none"} /\ replies' = replies
<1>1. CASE Complete \/ Expire \/ Timeout \/ TimeoutTooLate \/ ShutdownReturns
  BY <1>1 DEF Complete, Expire, Timeout, TimeoutTooLate, ShutdownReturns
<1>2. ASSUME NEW o, ReturnEarly(o) \/ Broken(o) \/ MessageFailed
      PROVE  op' = "none" /\ replies' = replies
  BY <1>2 DEF ReturnEarly, Broken, MessageFailed, Finish
<1>3. CASE ReadRequest \/ ReadBody \/ HandleRequest \/ WriteBody \/ NextReply
  BY <1>3 DEF ReadRequest, ReadBody, HandleRequest, WriteBody, NextReply, Succeeded
<1>4. CASE UNCHANGED vars
  BY <1>4 DEF vars
<1>5. QED BY <1>1, <1>2, <1>3, <1>4 DEF Next, Handlers

\* A connection that has timed out handles no request and starts no operation, though
\* what it had started still completes.
THEOREM SilentAfterTimeout == Spec => NothingAfterTimeout
<1>1. [Next]_vars => [timedOut => op' \in {op, "none"} /\ replies' = replies]_vars
  BY StepAfterTimeout
<1>2. QED BY <1>1, PTL DEF Spec, NothingAfterTimeout
=============================================================================
