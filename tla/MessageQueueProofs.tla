------------------------- MODULE MessageQueueProofs -------------------------
(***************************************************************************)
(* For every chunk size and every set of segments that fit in a chunk, the *)
(* messages of an answer fit in a chunk too, none is without a segment,    *)
(* and whoever iterates over them sees the segments once and in order.     *)
(***************************************************************************)
EXTENDS MessageQueue, SequenceTheorems, TLAPS

\* The part of ConcatProperties about lengths.
LEMMA ConcatLength ==
    ASSUME NEW S, NEW s \in Seq(S), NEW t \in Seq(S)
    PROVE  s \o t \in Seq(S) /\ Len(s \o t) = Len(s) + Len(t)
BY ConcatProperties

\* (length >> (3 - i) * 8) & 0xFF is a byte, and the four of them give the length back
\* if it fits in them.
LEMMA LengthBytesType ==
    ASSUME NEW n \in Nat PROVE LengthBytes(n) \in Seq(Byte) /\ Len(LengthBytes(n)) = 4
<1> DEFINE q == n \div 256
           r == q \div 256
           t == r \div 256
<1>1. q \in Nat
  OBVIOUS
<1>2. r \in Nat
  <2> HIDE DEF q
  <2>1. QED BY <1>1
<1>3. t \in Nat
  <2> HIDE DEF r
  <2>1. QED BY <1>2
<1>4. LengthBytes(n) = <<t % 256, r % 256, q % 256, n % 256>>
  BY DEF LengthBytes
<1> HIDE DEF q, r, t
<1>5. t % 256 \in Byte /\ r % 256 \in Byte /\ q % 256 \in Byte /\ n % 256 \in Byte
  BY <1>1, <1>2, <1>3 DEF Byte
<1>6. QED BY <1>4, <1>5

LEMMA LengthRoundTrip ==
    ASSUME NEW n \in Nat, n < 4294967296 PROVE LengthOf(LengthBytes(n)) = n
<1> DEFINE q == n \div 256
           r == q \div 256
           t == r \div 256
<1>1. q \in Nat /\ n = 256 * q + (n % 256) /\ q < 16777216
  OBVIOUS
<1>2. r \in Nat /\ q = 256 * r + (q % 256) /\ r < 65536
  <2> HIDE DEF q
  <2>1. QED BY <1>1
<1>3. t \in Nat /\ r = 256 * t + (r % 256) /\ t < 256
  <2> HIDE DEF r
  <2>1. QED BY <1>2
<1>4. (t % 256) = t
  <2> HIDE DEF t
  <2>1. QED BY <1>3
<1>5. LengthBytes(n) = <<t % 256, r % 256, q % 256, n % 256>>
  BY DEF LengthBytes
<1> HIDE DEF q, r, t
<1>6. LengthOf(LengthBytes(n)) = (((t % 256) * 256 + (r % 256)) * 256 + (q % 256)) * 256 + (n % 256)
  BY <1>5 DEF LengthOf
<1>7. (r % 256) \in Nat /\ (q % 256) \in Nat /\ (n % 256) \in Nat
  BY <1>1, <1>2
<1>8. (t % 256) * 256 + (r % 256) = r
  BY <1>3, <1>4, <1>7
<1>9. r * 256 + (q % 256) = q
  BY <1>2, <1>7
<1>10. q * 256 + (n % 256) = n
  BY <1>1, <1>7
<1>11. QED BY <1>6, <1>8, <1>9, <1>10

\* message::add_TLV makes a message of a message, longer by header and value.
LEMMA WithSegmentLength ==
    ASSUME NEW m \in Message, NEW seg \in Segment
    PROVE  /\ WithSegment(m, seg) \in Message
           /\ Len(WithSegment(m, seg)) = Len(m) + HeaderSize + Len(seg.value)
<1> DEFINE L == LengthBytes(Len(seg.value))
<1>1. Len(seg.value) \in Nat /\ seg.value \in Seq(Byte) /\ seg.type \in Byte
  BY DEF Segment
<1>2. L \in Seq(Byte) /\ Len(L) = 4
  BY <1>1, LengthBytesType
<1>3. <<seg.type>> \in Seq(Byte) /\ Len(<<seg.type>>) = 1
  BY <1>1
<1>4. m \in Seq(Byte) /\ m # <<>> /\ Len(m) \in Nat /\ Len(m) > 0
  <2>1. m \in Seq(Byte) /\ m # <<>>
    BY DEF Message
  <2>2. Len(m) \in Nat \ {0}
    BY <2>1, EmptySeq
  <2>3. QED BY <2>1, <2>2
<1> HIDE DEF L
<1>5. WithSegment(m, seg) = m \o <<seg.type>> \o L \o seg.value
  BY DEF WithSegment, L
<1> DEFINE A == m \o <<seg.type>>
           B == A \o L
           W == B \o seg.value
<1>6. W \in Seq(Byte) /\ Len(W) = Len(m) + HeaderSize + Len(seg.value)
  <2>1. A \in Seq(Byte) /\ Len(A) = Len(m) + 1
    BY <1>3, <1>4, ConcatLength
  <2> HIDE DEF A
  <2>2. B \in Seq(Byte) /\ Len(B) = Len(A) + 4
    BY <1>2, <2>1, ConcatLength
  <2> HIDE DEF B
  <2>3. W \in Seq(Byte) /\ Len(W) = Len(B) + Len(seg.value)
    BY <1>1, <2>2, ConcatLength
  <2> HIDE DEF W
  <2>4. QED BY <1>1, <1>4, <2>1, <2>2, <2>3 DEF HeaderSize
<1>7. WithSegment(m, seg) = W
  BY <1>5
<1> HIDE DEF W
<1>8. Len(W) # 0
  <2>1. \A i, j, k \in Nat : i # 0 => i + j + k # 0
    OBVIOUS
  <2>2. HeaderSize \in Nat
    BY DEF HeaderSize
  <2>3. Len(m) \in Nat /\ Len(m) # 0
    BY <1>4
  <2>4. QED BY <1>1, <1>6, <2>1, <2>2, <2>3, Zenon
<1>9. W # <<>>
  BY <1>8, EmptySeq
<1>10. QED BY <1>6, <1>7, <1>9 DEF Message

\* A message with nothing but its type.
LEMMA NewMessageLength ==
    NewMessage(MsgType) \in Message /\ Len(NewMessage(MsgType)) = 1
<1>1. MsgType \in Byte
  BY ChunkAssumption
<1>2. <<MsgType>> \in Seq(Byte) /\ Len(<<MsgType>>) = 1
  BY <1>1
<1>4. <<MsgType>> # <<>>
  BY <1>2, EmptySeq
<1>3. QED BY <1>2, <1>4 DEF NewMessage, Message

\* A segment that is added to a message, with room for it, or to a new message.
LEMMA FilledBy ==
    ASSUME NEW m \in Message, NEW seg \in Added,
           Room(m, seg) \/ m = NewMessage(MsgType)
    PROVE  WithSegment(m, seg) \in Filled
<1> DEFINE w == WithSegment(m, seg)
<1>1. seg \in Segment /\ CHUNK_SIZE \in Nat /\ HeaderSize = 5
  BY ChunkAssumption DEF HeaderSize
<1>2. w \in Message /\ Len(w) = Len(m) + HeaderSize + Len(seg.value)
  BY <1>1, WithSegmentLength
<1> HIDE DEF w
<1>3. Len(m) \in Nat \ {0} /\ Len(seg.value) \in Nat
  BY <1>1, EmptySeq DEF Message, Segment
<1>4. Len(m) + HeaderSize + Len(seg.value) <= CHUNK_SIZE
  <2>1. CASE Room(m, seg)
    BY <2>1 DEF Room
  <2>2. CASE m = NewMessage(MsgType)
    BY <2>2, NewMessageLength, FitAssumption
  <2>3. QED BY <2>1, <2>2
<1>5. Len(m) + HeaderSize + Len(seg.value) > HeaderSize
  <2>1. \A i \in Nat \ {0}, j \in Nat : i + 5 + j > 5
    OBVIOUS
  <2>2. QED BY <1>1, <1>3, <2>1
<1>6. QED BY <1>2, <1>4, <1>5 DEF Filled, w

\* What the queue is after add_TLV.
LEMMA AddToLastFilled ==
    ASSUME NEW q, NEW seg \in Added, q = NewQueue \/ (q \in Seq(Filled) /\ q # <<>>)
    PROVE  AddToLast(q, seg) \in Seq(Filled) /\ AddToLast(q, seg) # <<>>
<1>1. CASE q = NewQueue
  <2>1. Len(q) = 1 /\ q[Len(q)] = NewMessage(MsgType) /\ q = <<NewMessage(MsgType)>>
    BY <1>1 DEF NewQueue
  <2> DEFINE w == WithSegment(NewMessage(MsgType), seg)
  <2>2. w \in Filled
    BY NewMessageLength, FilledBy
  <2>3. Room(q[Len(q)], seg)
    <3>1. 1 + HeaderSize + Len(seg.value) <= CHUNK_SIZE
      BY FitAssumption
    <3>2. QED BY <2>1, <3>1, NewMessageLength DEF Room
  <2>4. AddToLast(q, seg) = [q EXCEPT ![1] = WithSegment(q[1], seg)]
    BY <2>1, <2>3 DEF AddToLast
  <2>5. AddToLast(q, seg) = <<w>>
    BY <2>1, <2>4
  <2> HIDE DEF w
  <2>6. QED BY <2>2, <2>5
<1>2. CASE q \in Seq(Filled) /\ q # <<>>
  <2>1. Len(q) \in Nat \ {0}
    BY <1>2, EmptySeq
  <2>2. Len(q) \in 1 .. Len(q)
    BY <2>1
  <2>3. q[Len(q)] \in Filled
    BY <1>2, <2>2, ElementOfSeq
  <2>4. CASE Room(q[Len(q)], seg)
    <3> DEFINE w == WithSegment(q[Len(q)], seg)
    <3>1. w \in Filled
      BY <2>3, <2>4, FilledBy DEF Filled
    <3>2. AddToLast(q, seg) = [q EXCEPT ![Len(q)] = w]
      BY <2>4 DEF AddToLast
    <3> HIDE DEF w
    <3>3. /\ [q EXCEPT ![Len(q)] = w] \in Seq(Filled)
          /\ Len([q EXCEPT ![Len(q)] = w]) = Len(q)
      BY <1>2, <2>2, <3>1, ExceptSeq
    <3>4. [q EXCEPT ![Len(q)] = w] # <<>>
      BY <2>1, <3>3, EmptySeq, Zenon
    <3>5. QED BY <3>2, <3>3, <3>4
  <2>5. CASE ~Room(q[Len(q)], seg)
    <3> DEFINE w == WithSegment(NewMessage(MsgType), seg)
    <3>1. w \in Filled
      BY NewMessageLength, FilledBy
    <3>2. AddToLast(q, seg) = Append(q, w)
      BY <2>5 DEF AddToLast
    <3> HIDE DEF w
    <3>3. QED BY <1>2, <3>1, <3>2, AppendProperties
  <2>6. QED BY <2>4, <2>5
<1>3. QED BY <1>1, <1>2

-----------------------------------------------------------------------------
LEMMA InitIInv == Init => IInv
BY EmptySeq DEF Init, IInv

LEMMA NextIInv == IInv /\ [Next]_vars => IInv'
<1>1. SUFFICES ASSUME IInv, [Next]_vars PROVE IInv'
  OBVIOUS
<1>2. CASE AddTLV
  <2>1. PICK seg \in Added : queue' = AddToLast(queue, seg) /\ added' = Append(added, seg)
    BY <1>2 DEF AddTLV
  <2>2. ~writing /\ writing' = writing
    BY <1>2 DEF AddTLV
  <2>3. queue = NewQueue \/ (queue \in Seq(Filled) /\ queue # <<>>)
    BY <1>1, <2>2 DEF IInv
  <2>4. queue' \in Seq(Filled) /\ queue' # <<>>
    BY <2>1, <2>3, AddToLastFilled
  <2>5. added' \in Seq(Added) /\ added' # <<>>
    BY <1>1, <2>1, AppendProperties DEF IInv
  <2>6. QED BY <1>1, <2>2, <2>4, <2>5 DEF IInv
<1>3. CASE Pop
  <2>1. queue \in Seq(Filled) /\ queue # <<>> /\ added # <<>>
    BY <1>1, <1>3 DEF IInv, Pop
  <2>2. queue' = Tail(queue) /\ writing' = TRUE /\ added' = added
    BY <1>3 DEF Pop
  <2>3. queue' \in Seq(Filled)
    BY <2>1, <2>2, HeadTailProperties
  <2>4. QED BY <1>1, <2>1, <2>2, <2>3 DEF IInv
<1>4. CASE Read
  BY <1>1, <1>4 DEF Read, IInv
<1>5. CASE Renew
  BY <1>5, EmptySeq DEF Renew, IInv
<1>6. CASE UNCHANGED vars
  BY <1>1, <1>6 DEF vars, IInv
<1>7. QED BY <1>1, <1>2, <1>3, <1>4, <1>5, <1>6 DEF Next

LEMMA IInvImplies == IInv => WithinChunk /\ NoBareMessage
<1>1. SUFFICES ASSUME IInv PROVE WithinChunk /\ NoBareMessage
  OBVIOUS
<1>2. CASE added = <<>>
  <2>1. queue = <<NewMessage(MsgType)>>
    BY <1>1, <1>2 DEF IInv, NewQueue
  <2>2. \A i \in DOMAIN queue : queue[i] = NewMessage(MsgType)
    BY <2>1
  <2>3. 1 <= CHUNK_SIZE
    BY ChunkAssumption
  <2>4. QED BY <1>2, <2>2, <2>3, NewMessageLength DEF WithinChunk, NoBareMessage
<1>3. CASE added # <<>>
  <2>1. queue \in Seq(Filled)
    BY <1>1, <1>3 DEF IInv
  <2>2. \A i \in DOMAIN queue : queue[i] \in Filled
    BY <2>1, ElementOfSeq, LenProperties
  <2>3. QED BY <2>2 DEF WithinChunk, NoBareMessage, Filled
<1>4. QED BY <1>2, <1>3

\* The bound of message_queue.h: no message of an answer grows beyond a chunk.
THEOREM MessagesFit == Spec => []WithinChunk
BY InitIInv, NextIInv, IInvImplies, PTL DEF Spec

\* No message of an answer is without a segment.
THEOREM NoneBare == Spec => []NoBareMessage
BY InitIInv, NextIInv, IInvImplies, PTL DEF Spec

-----------------------------------------------------------------------------
(***************************************************************************)
(* What the messages hold, and what the views make of it.                  *)
(***************************************************************************)
\* The four bytes of a length are enough for what fits in a chunk (4096 in the code).
LengthsFit == CHUNK_SIZE < 4294967296

\* The bytes of m from offset x to y are segment s.
Piece(m, x, y, s) ==
    /\ y = x + HeaderSize + Len(s.value) /\ y <= Len(m)
    /\ m[x + 1] = s.type
    /\ \A i \in 1 .. 4 : m[x + 1 + i] = LengthBytes(Len(s.value))[i]
    /\ \A i \in 1 .. Len(s.value) : m[x + HeaderSize + i] = s.value[i]

\* m is its type and the segments of a from lo + 1 to hi, cut at the offsets b.
Cut(m, a, b, lo, hi) ==
    /\ b[lo] = 1 /\ b[hi] = Len(m)
    /\ \A j \in lo + 1 .. hi : Piece(m, b[j - 1], b[j], a[j])

Holds(m, a, lo, hi) == \E b \in [lo .. hi -> Nat \ {0}] : Cut(m, a, b, lo, hi)

\* Message i of q holds the segments of a from p[i - 1] + 1 to p[i].
Divided(q, a, p) ==
    /\ p \in [0 .. Len(q) -> 0 .. Len(a)] /\ p[Len(q)] = Len(a)
    /\ \A i \in 1 .. Len(q) :
         /\ Holds(q[i], a, p[i - 1], p[i])
         /\ p[i - 1] <= p[i] /\ (a # <<>> => p[i - 1] < p[i])

\* The view on msg, which holds the segments up to hi, is behind the last one seen.
ViewAt(lo, hi, b) ==
    /\ Cut(msg, added, b, lo, hi)
    /\ Len(seen) \in lo .. hi
    /\ view.begin \in Nat /\ view.end = b[Len(seen)] /\ view.begin <= view.end
    /\ view.finished => Len(seen) = hi

Viewing(hi) == \E lo \in Nat : lo < hi /\ \E b \in [lo .. hi -> Nat \ {0}] : ViewAt(lo, hi, b)

Shown ==
    /\ seen \in Seq(Added) /\ Len(seen) <= Len(added)
    /\ \A j \in 1 .. Len(seen) : seen[j] = added[j]

QInv ==
    /\ IInv /\ Shown
    /\ IF writing THEN msg \in Message ELSE seen = <<>> /\ msg = <<>> /\ view = NewView
    /\ \E p : /\ Divided(queue, added, p)
            /\ IF writing THEN Viewing(p[0]) ELSE p[0] = 0

LEMMA SegmentType ==
    ASSUME NEW s \in Added PROVE /\ s.type \in Byte /\ s.value \in Seq(Byte) /\ Len(s.value) \in Nat
                                 /\ s = [type |-> s.type, value |-> s.value]
BY ChunkAssumption DEF Segment

LEMMA MessageType ==
    ASSUME NEW m \in Message PROVE m \in Seq(Byte) /\ Len(m) \in Nat \ {0}
BY EmptySeq DEF Message

\* w is s with t behind it.
Beside(s, t, w) ==
    /\ Len(w) = Len(s) + Len(t)
    /\ \A k \in 1 .. Len(s) : w[k] = s[k]
    /\ \A i \in 1 .. Len(t) : w[Len(s) + i] = t[i]

LEMMA ConcatParts ==
    ASSUME NEW S, NEW s \in Seq(S), NEW t \in Seq(S)
    PROVE  s \o t \in Seq(S) /\ Beside(s, t, s \o t)
<1> DEFINE w == s \o t
<1>1. /\ w \in Seq(S) /\ Len(w) = Len(s) + Len(t)
      /\ \A i \in 1 .. Len(s) + Len(t) : w[i] = IF i <= Len(s) THEN s[i] ELSE t[i - Len(s)]
  BY ConcatProperties
<1>2. Len(s) \in Nat /\ Len(t) \in Nat
  BY LenProperties
<1> HIDE DEF w
<1>3. ASSUME NEW k \in 1 .. Len(s) PROVE w[k] = s[k]
  BY <1>1, <1>2
<1>4. ASSUME NEW i \in 1 .. Len(t) PROVE w[Len(s) + i] = t[i]
  <2>1. /\ Len(s) + i \in 1 .. Len(s) + Len(t) /\ ~(Len(s) + i <= Len(s))
        /\ (Len(s) + i) - Len(s) = i
    BY <1>2
  <2>2. QED BY <1>1, <2>1
<1>5. Beside(s, t, w)
  BY <1>1, <1>3, <1>4 DEF Beside
<1>6. QED BY <1>1, <1>5 DEF w

\* add_TLV leaves what is in the message and puts the segment behind it.
LEMMA WithSegmentPiece ==
    ASSUME NEW m \in Message, NEW seg \in Added
    PROVE  LET w == WithSegment(m, seg)
           IN /\ w \in Message /\ Len(w) = Len(m) + HeaderSize + Len(seg.value)
              /\ \A k \in 1 .. Len(m) : w[k] = m[k]
              /\ Piece(w, Len(m), Len(w), seg)
<1> DEFINE L == LengthBytes(Len(seg.value))
           A == m \o <<seg.type>>
           B == A \o L
           W == B \o seg.value
<1>1. /\ seg.type \in Byte /\ seg.value \in Seq(Byte) /\ Len(seg.value) \in Nat
      /\ seg \in Segment
  BY SegmentType, ChunkAssumption
<1>2. m \in Seq(Byte) /\ Len(m) \in Nat \ {0}
  BY MessageType
<1>3. L \in Seq(Byte) /\ Len(L) = 4
  BY <1>1, LengthBytesType
<1>4. <<seg.type>> \in Seq(Byte) /\ Len(<<seg.type>>) = 1 /\ <<seg.type>>[1] = seg.type
  BY <1>1
<1> HIDE DEF L
<1>5. A \in Seq(Byte) /\ Beside(m, <<seg.type>>, A)
  BY <1>2, <1>4, ConcatParts
<1> HIDE DEF A
<1>6. B \in Seq(Byte) /\ Beside(A, L, B)
  BY <1>3, <1>5, ConcatParts
<1> HIDE DEF B
<1>7. W \in Seq(Byte) /\ Beside(B, seg.value, W)
  BY <1>1, <1>6, ConcatParts
<1>8. WithSegment(m, seg) = W
  BY DEF WithSegment, A, B, L
<1> HIDE DEF W
<1> DEFINE n == Len(m)
<1>9. /\ n \in Nat \ {0} /\ Len(A) = n + 1 /\ Len(B) = n + 5
      /\ Len(W) = n + HeaderSize + Len(seg.value)
  BY <1>1, <1>2, <1>3, <1>4, <1>5, <1>6, <1>7 DEF Beside, HeaderSize
<1> HIDE DEF n
<1>10. ASSUME NEW k \in 1 .. n PROVE W[k] = m[k]
  <2>1. k \in 1 .. Len(B) /\ k \in 1 .. Len(A) /\ k \in 1 .. Len(m)
    BY <1>9 DEF n
  <2>2. QED BY <1>5, <1>6, <1>7, <2>1 DEF Beside
<1>11. W[n + 1] = seg.type
  <2>1. n + 1 \in 1 .. Len(B) /\ n + 1 \in 1 .. Len(A) /\ 1 \in 1 .. Len(<<seg.type>>)
    BY <1>4, <1>9
  <2>2. A[n + 1] = seg.type
    BY <1>4, <1>5, <2>1 DEF Beside, n
  <2>3. QED BY <1>6, <1>7, <2>1, <2>2 DEF Beside
<1>12. ASSUME NEW i \in 1 .. 4 PROVE W[n + 1 + i] = L[i]
  <2>1. n + 1 + i \in 1 .. Len(B) /\ n + 1 + i = Len(A) + i /\ i \in 1 .. Len(L)
    BY <1>3, <1>9
  <2>2. QED BY <1>6, <1>7, <2>1 DEF Beside
<1>13. ASSUME NEW i \in 1 .. Len(seg.value) PROVE W[n + HeaderSize + i] = seg.value[i]
  <2>1. n + HeaderSize + i = Len(B) + i
    BY <1>9 DEF HeaderSize
  <2>2. QED BY <1>7, <2>1 DEF Beside
<1>14. Piece(W, n, Len(W), seg)
  <2>1. Len(W) <= Len(W)
    BY <1>1, <1>9 DEF HeaderSize
  <2>2. QED BY <1>9, <1>11, <1>12, <1>13, <2>1 DEF Piece, L
<1>15. W \in Message
  BY <1>8, <1>1, WithSegmentLength
<1>16. QED BY <1>8, <1>9, <1>10, <1>14, <1>15 DEF n

\* A piece is where it was in every message that begins as this one does.
LEMMA PieceStays ==
    ASSUME NEW m \in Message, NEW w \in Message, NEW x \in Nat, NEW y, NEW seg \in Added,
           Len(m) <= Len(w), \A k \in 1 .. Len(m) : w[k] = m[k], Piece(m, x, y, seg)
    PROVE  Piece(w, x, y, seg)
<1> DEFINE n == Len(seg.value)
           lm == Len(m)
           lw == Len(w)
<1>1. n \in Nat /\ lm \in Nat /\ lw \in Nat /\ lm <= lw
  BY SegmentType, MessageType
<1>2. y = x + 5 + n /\ y <= lm
  BY DEF Piece, HeaderSize
<1>3. \A k \in 1 .. lm : w[k] = m[k]
  OBVIOUS
<1>4. /\ m[x + 1] = seg.type
      /\ \A i \in 1 .. 4 : m[x + 1 + i] = LengthBytes(n)[i]
      /\ \A i \in 1 .. n : m[x + HeaderSize + i] = seg.value[i]
  BY DEF Piece
<1> HIDE DEF n, lm, lw
<1>5. y <= lw /\ x + 1 \in 1 .. lm
  BY <1>1, <1>2
<1>6. ASSUME NEW i \in 1 .. 4 PROVE x + 1 + i \in 1 .. lm
  BY <1>1, <1>2
<1>7. ASSUME NEW i \in 1 .. n PROVE x + HeaderSize + i \in 1 .. lm
  BY <1>1, <1>2 DEF HeaderSize
<1>8. /\ w[x + 1] = seg.type
      /\ \A i \in 1 .. 4 : w[x + 1 + i] = LengthBytes(n)[i]
      /\ \A i \in 1 .. n : w[x + HeaderSize + i] = seg.value[i]
  BY <1>3, <1>4, <1>5, <1>6, <1>7
<1>9. y = x + HeaderSize + n
  BY <1>2 DEF HeaderSize
<1>10. QED BY <1>5, <1>8, <1>9 DEF Piece, n, lw

\* What a message holds of a it holds of every a that begins as it does.
LEMMA CutStays ==
    ASSUME NEW m, NEW a, NEW c, NEW b, NEW lo \in Nat, NEW hi \in Nat,
           \A j \in 1 .. hi : c[j] = a[j], Cut(m, a, b, lo, hi)
    PROVE  Cut(m, c, b, lo, hi)
<1>1. ASSUME NEW j \in lo + 1 .. hi PROVE Piece(m, b[j - 1], b[j], c[j])
  <2>1. j \in 1 .. hi
    OBVIOUS
  <2>2. Piece(m, b[j - 1], b[j], a[j])
    BY DEF Cut
  <2>3. c[j] = a[j]
    BY <2>1
  <2>4. QED BY <2>2, <2>3
<1>2. QED BY <1>1 DEF Cut

LEMMA HoldsStays ==
    ASSUME NEW m, NEW a \in Seq(Added), NEW seg \in Added, NEW lo \in Nat, NEW hi \in Nat,
           hi <= Len(a), Holds(m, a, lo, hi)
    PROVE  Holds(m, Append(a, seg), lo, hi)
<1>1. \A j \in 1 .. hi : Append(a, seg)[j] = a[j]
  BY AppendProperties
<1>2. PICK b \in [lo .. hi -> Nat \ {0}] : Cut(m, a, b, lo, hi)
  BY DEF Holds
<1>3. Cut(m, Append(a, seg), b, lo, hi)
  BY <1>1, <1>2, CutStays
<1>4. QED BY <1>3 DEF Holds

LEMMA NewHolds ==
    ASSUME NEW a, NEW n \in Nat PROVE Holds(NewMessage(MsgType), a, n, n)
<1> DEFINE b == [j \in n .. n |-> 1]
<1>1. b \in [n .. n -> Nat \ {0}] /\ b[n] = 1 /\ n + 1 .. n = {}
  OBVIOUS
<1> HIDE DEF b
<1>2. Cut(NewMessage(MsgType), a, b, n, n)
  BY <1>1, NewMessageLength DEF Cut
<1>3. QED BY <1>1, <1>2 DEF Holds

\* add_TLV adds the segment to what the message holds.
LEMMA HoldsOneMore ==
    ASSUME NEW m \in Message, NEW a \in Seq(Added), NEW seg \in Added,
           NEW lo \in 0 .. Len(a), Holds(m, a, lo, Len(a))
    PROVE  Holds(WithSegment(m, seg), Append(a, seg), lo, Len(a) + 1)
<1> DEFINE hi == Len(a)
           w == WithSegment(m, seg)
           c == Append(a, seg)
<1>1. hi \in Nat /\ lo \in Nat /\ lo <= hi
  OBVIOUS
<1>2. (\A j \in 1 .. hi : c[j] = a[j]) /\ c[hi + 1] = seg
  BY AppendProperties
<1>3. \A j \in 1 .. hi : a[j] \in Added
  BY ElementOfSeq
<1>4. PICK b \in [lo .. hi -> Nat \ {0}] : Cut(m, a, b, lo, hi)
  BY DEF Holds
<1>5. /\ w \in Message /\ \A k \in 1 .. Len(m) : w[k] = m[k]
      /\ Piece(w, Len(m), Len(w), seg)
  BY WithSegmentPiece
<1>6. Len(m) \in Nat /\ Len(w) \in Nat \ {0}
  BY <1>5, MessageType
<1>7. Len(m) <= Len(w)
  <2>1. Len(w) = Len(m) + HeaderSize + Len(seg.value) /\ Len(seg.value) \in Nat
    BY SegmentType, WithSegmentPiece
  <2>2. HeaderSize = 5 /\ \A i, n \in Nat : i <= i + 5 + n
    BY DEF HeaderSize
  <2>3. QED BY <1>6, <2>1, <2>2
<1> HIDE DEF hi, w, c
<1> DEFINE d == [j \in lo .. hi + 1 |-> IF j = hi + 1 THEN Len(w) ELSE b[j]]
<1>8. \A j \in lo .. hi : d[j] = b[j]
  BY <1>1
<1>9. d[hi + 1] = Len(w)
  BY <1>1
<1>10. d \in [lo .. hi + 1 -> Nat \ {0}]
  <2>1. ASSUME NEW j \in lo .. hi + 1, j # hi + 1 PROVE j \in lo .. hi
    BY <1>1, <2>1
  <2>2. \A j \in lo .. hi + 1 : (IF j = hi + 1 THEN Len(w) ELSE b[j]) \in Nat \ {0}
    BY <1>4, <1>6, <2>1
  <2>3. QED BY <2>2
<1> HIDE DEF d
<1>11. b[lo] = 1 /\ b[hi] = Len(m)
  BY <1>4 DEF Cut
<1>12. d[lo] = 1 /\ d[hi] = Len(m)
  BY <1>1, <1>8, <1>11
<1>13. ASSUME NEW j \in lo + 1 .. hi + 1 PROVE Piece(w, d[j - 1], d[j], c[j])
  <2>1. CASE j = hi + 1
    <3>1. j - 1 = hi
      BY <1>1, <2>1
    <3>2. d[j - 1] = Len(m) /\ d[j] = Len(w) /\ c[j] = seg
      BY <1>2, <1>9, <1>12, <2>1, <3>1
    <3>3. QED BY <1>5, <3>2
  <2>2. CASE j # hi + 1
    <3>1. j \in lo + 1 .. hi /\ j \in lo .. hi /\ j - 1 \in lo .. hi /\ j \in 1 .. hi
      BY <1>1, <2>2
    <3>2. d[j - 1] = b[j - 1] /\ d[j] = b[j] /\ c[j] = a[j] /\ a[j] \in Added /\ b[j - 1] \in Nat
      BY <1>2, <1>3, <1>4, <1>8, <3>1
    <3>3. Piece(m, b[j - 1], b[j], a[j])
      BY <1>4, <3>1 DEF Cut
    <3>4. Piece(w, b[j - 1], b[j], a[j])
      BY <1>5, <1>7, <3>2, <3>3, PieceStays
    <3>5. QED BY <3>2, <3>4
  <2>3. QED BY <2>1, <2>2
<1>14. Cut(w, c, d, lo, hi + 1)
  BY <1>9, <1>12, <1>13 DEF Cut
<1>15. Holds(w, c, lo, hi + 1)
  BY <1>10, <1>14 DEF Holds
<1>16. QED BY <1>15 DEF w, c, hi

\* r is q after add_TLV: the last message is replaced, or a new one is behind it.
LastReplaced(q, seg, r) ==
    /\ Len(r) = Len(q) /\ r[Len(q)] = WithSegment(q[Len(q)], seg)
    /\ \A i \in 1 .. Len(q) - 1 : r[i] = q[i]

OneBehind(q, seg, r) ==
    /\ Len(r) = Len(q) + 1 /\ r[Len(q) + 1] = WithSegment(NewMessage(MsgType), seg)
    /\ \A i \in 1 .. Len(q) : r[i] = q[i]

LEMMA AddToLastAt ==
    ASSUME NEW q \in Seq(Message), q # <<>>, NEW seg \in Added
    PROVE  /\ Room(q[Len(q)], seg) => LastReplaced(q, seg, AddToLast(q, seg))
           /\ ~Room(q[Len(q)], seg) => OneBehind(q, seg, AddToLast(q, seg))
<1> DEFINE n == Len(q)
<1>1. n \in Nat \ {0} /\ n \in 1 .. n
  BY EmptySeq
<1>2. q[n] \in Message
  BY <1>1, ElementOfSeq
<1>3. CASE Room(q[n], seg)
  <2> DEFINE w == WithSegment(q[n], seg)
  <2>1. w \in Message
    BY <1>2, WithSegmentPiece
  <2>2. AddToLast(q, seg) = [q EXCEPT ![n] = w]
    BY <1>3 DEF AddToLast
  <2> HIDE DEF w
  <2>3. /\ Len([q EXCEPT ![n] = w]) = n
        /\ \A j \in 1 .. n : [q EXCEPT ![n] = w][j] = IF j = n THEN w ELSE q[j]
    BY <1>1, <2>1, ExceptSeq
  <2> DEFINE r == [q EXCEPT ![n] = w]
  <2>4. Len(r) = n /\ \A j \in 1 .. n : r[j] = IF j = n THEN w ELSE q[j]
    BY <2>3
  <2>5. AddToLast(q, seg) = r
    BY <2>2
  <2> HIDE DEF r, n
  <2>6. r[n] = w /\ \A i \in 1 .. n - 1 : r[i] = q[i]
    BY <1>1, <2>4
  <2>7. LastReplaced(q, seg, r)
    BY <2>4, <2>6 DEF w, n, LastReplaced
  <2>8. QED BY <1>3, <2>5, <2>7 DEF n
<1>4. CASE ~Room(q[n], seg)
  <2> DEFINE w == WithSegment(NewMessage(MsgType), seg)
  <2>1. w \in Message
    BY NewMessageLength, WithSegmentPiece
  <2>2. AddToLast(q, seg) = Append(q, w)
    BY <1>4 DEF AddToLast
  <2> HIDE DEF w
  <2>3. /\ Len(Append(q, w)) = n + 1 /\ Append(q, w)[n + 1] = w
        /\ \A i \in 1 .. n : Append(q, w)[i] = q[i]
    BY <2>1, AppendProperties
  <2>4. QED BY <1>4, <2>2, <2>3 DEF w, OneBehind
<1>5. QED BY <1>3, <1>4

LEMMA AddToLastDivided ==
    ASSUME NEW q \in Seq(Message), q # <<>>, NEW a \in Seq(Added), NEW seg \in Added,
           NEW p, Divided(q, a, p), a = <<>> => q = NewQueue
    PROVE  \E r : Divided(AddToLast(q, seg), Append(a, seg), r) /\ r[0] = p[0]
<1> DEFINE n == Len(q)
           L == Len(a)
           q2 == AddToLast(q, seg)
           a2 == Append(a, seg)
<1>1. n \in Nat \ {0} /\ L \in Nat
  BY EmptySeq
<1>2. Len(a2) = L + 1 /\ a2 # <<>> /\ a2 \in Seq(Added)
  BY AppendProperties
<1>3. /\ Room(q[n], seg) => LastReplaced(q, seg, q2)
      /\ ~Room(q[n], seg) => OneBehind(q, seg, q2)
  BY AddToLastAt
<1>13. Room(q[n], seg) => /\ Len(q2) = n /\ q2[n] = WithSegment(q[n], seg)
                          /\ \A i \in 1 .. n - 1 : q2[i] = q[i]
  BY <1>3 DEF LastReplaced
<1>14. ~Room(q[n], seg) =>
         /\ Len(q2) = n + 1 /\ q2[n + 1] = WithSegment(NewMessage(MsgType), seg)
         /\ \A i \in 1 .. n : q2[i] = q[i]
  BY <1>3 DEF OneBehind
<1>4. \A i \in 1 .. n : q[i] \in Message
  BY ElementOfSeq
<1>5. a = <<>> => n = 1 /\ Room(q[n], seg)
  <2>1. SUFFICES ASSUME a = <<>> PROVE n = 1 /\ Room(q[n], seg)
    OBVIOUS
  <2>2. n = 1 /\ q[n] = NewMessage(MsgType)
    BY <2>1 DEF NewQueue
  <2>3. QED BY <2>2, NewMessageLength, FitAssumption DEF Room
<1>6. /\ p \in [0 .. n -> 0 .. L] /\ p[n] = L
      /\ \A i \in 1 .. n : /\ Holds(q[i], a, p[i - 1], p[i])
                           /\ p[i - 1] <= p[i] /\ (a # <<>> => p[i - 1] < p[i])
  BY DEF Divided
<1>7. ASSUME NEW i \in 1 .. n, Holds(q[i], a, p[i - 1], p[i])
      PROVE  Holds(q[i], a2, p[i - 1], p[i])
  <2>1. i - 1 \in 0 .. n /\ i \in 0 .. n
    BY <1>1
  <2>2. p[i - 1] \in Nat /\ p[i] \in Nat /\ p[i] <= L
    BY <1>1, <1>6, <2>1
  <2>3. QED BY <1>7, <2>2, HoldsStays
<1>8. Holds(WithSegment(q[n], seg), a2, p[n - 1], L + 1)
  <2>1. n \in 1 .. n /\ n - 1 \in 0 .. n
    BY <1>1
  <2>2. q[n] \in Message /\ p[n - 1] \in 0 .. Len(a) /\ Holds(q[n], a, p[n - 1], Len(a))
    BY <1>4, <1>6, <2>1
  <2>3. QED BY <2>2, HoldsOneMore
<1>9. Holds(WithSegment(NewMessage(MsgType), seg), a2, L, L + 1)
  <2>1. Len(a) \in 0 .. Len(a) /\ Holds(NewMessage(MsgType), a, Len(a), Len(a))
    BY <1>1, NewHolds
  <2>2. QED BY <2>1, NewMessageLength, HoldsOneMore
<1> HIDE DEF n, L, q2, a2
<1>10. CASE Room(q[n], seg)
  <2> DEFINE r == [i \in 0 .. n |-> IF i = n THEN L + 1 ELSE p[i]]
  <2>1. r[n] = L + 1 /\ \A i \in 0 .. n - 1 : r[i] = p[i]
    BY <1>1
  <2>2. r \in [0 .. n -> 0 .. L + 1]
    <3>1. \A i \in 0 .. n : (IF i = n THEN L + 1 ELSE p[i]) \in 0 .. L + 1
      BY <1>1, <1>6
    <3>2. QED BY <3>1
  <2> HIDE DEF r
  <2>3. ASSUME NEW i \in 1 .. n
        PROVE  Holds(q2[i], a2, r[i - 1], r[i]) /\ r[i - 1] <= r[i] /\ r[i - 1] < r[i]
    <3>1. i - 1 \in 0 .. n - 1 /\ i - 1 \in 0 .. n /\ i \in 0 .. n
      BY <1>1
    <3>2. r[i - 1] = p[i - 1] /\ p[i - 1] \in 0 .. L
      BY <1>6, <2>1, <3>1
    <3>3. CASE i = n
      <4>1. r[i] = L + 1 /\ q2[i] = WithSegment(q[n], seg)
        BY <1>13, <1>10, <2>1, <3>3
      <4>2. Holds(q2[i], a2, r[i - 1], r[i])
        BY <1>8, <3>2, <3>3, <4>1
      <4>3. r[i - 1] <= r[i] /\ r[i - 1] < r[i]
        BY <1>1, <3>2, <4>1
      <4>4. QED BY <4>2, <4>3
    <3>4. CASE i # n
      <4>1. i \in 1 .. n - 1 /\ i \in 0 .. n - 1 /\ n # 1
        BY <1>1, <3>4
      <4>2. r[i] = p[i] /\ q2[i] = q[i] /\ a # <<>>
        BY <1>13, <1>5, <1>10, <2>1, <4>1
      <4>3. Holds(q2[i], a2, r[i - 1], r[i])
        BY <1>6, <1>7, <3>2, <4>2
      <4>4. QED BY <1>6, <3>2, <4>2, <4>3
    <3>5. QED BY <3>3, <3>4
  <2>4. Len(q2) = n
    BY <1>13, <1>10
  <2>5. Divided(q2, a2, r)
    BY <1>2, <2>1, <2>2, <2>3, <2>4 DEF Divided
  <2>6. r[0] = p[0]
    BY <1>1, <2>1
  <2>7. QED BY <2>5, <2>6 DEF q2, a2
<1>11. CASE ~Room(q[n], seg)
  <2> DEFINE r == [i \in 0 .. n + 1 |-> IF i = n + 1 THEN L + 1 ELSE p[i]]
  <2>1. r[n + 1] = L + 1 /\ \A i \in 0 .. n : r[i] = p[i]
    BY <1>1
  <2>2. r \in [0 .. n + 1 -> 0 .. L + 1]
    <3>1. ASSUME NEW i \in 0 .. n + 1, i # n + 1 PROVE i \in 0 .. n
      BY <1>1, <3>1
    <3>2. \A i \in 0 .. n + 1 : (IF i = n + 1 THEN L + 1 ELSE p[i]) \in 0 .. L + 1
      BY <1>1, <1>6, <3>1
    <3>3. QED BY <3>2
  <2> HIDE DEF r
  <2>3. ASSUME NEW i \in 1 .. n + 1
        PROVE  Holds(q2[i], a2, r[i - 1], r[i]) /\ r[i - 1] <= r[i] /\ r[i - 1] < r[i]
    <3>1. i - 1 \in 0 .. n
      BY <1>1
    <3>2. r[i - 1] = p[i - 1]
      BY <2>1, <3>1
    <3>3. CASE i = n + 1
      <4>1. r[i] = L + 1 /\ r[i - 1] = L /\ q2[i] = WithSegment(NewMessage(MsgType), seg)
        BY <1>1, <1>14, <1>6, <1>11, <2>1, <3>2, <3>3
      <4>2. Holds(q2[i], a2, r[i - 1], r[i])
        BY <1>9, <4>1
      <4>3. r[i - 1] <= r[i] /\ r[i - 1] < r[i]
        BY <1>1, <4>1
      <4>4. QED BY <4>2, <4>3
    <3>4. CASE i # n + 1
      <4>1. i \in 1 .. n /\ i \in 0 .. n
        BY <1>1, <3>4
      <4>2. r[i] = p[i] /\ q2[i] = q[i] /\ a # <<>>
        BY <1>14, <1>5, <1>11, <2>1, <4>1
      <4>3. Holds(q2[i], a2, r[i - 1], r[i])
        BY <1>6, <1>7, <3>2, <4>1, <4>2
      <4>4. QED BY <1>6, <3>2, <4>1, <4>2, <4>3
    <3>5. QED BY <3>3, <3>4
  <2>4. Len(q2) = n + 1
    BY <1>14, <1>11
  <2>5. Divided(q2, a2, r)
    BY <1>2, <2>1, <2>2, <2>3, <2>4 DEF Divided
  <2>6. r[0] = p[0]
    BY <1>1, <2>1
  <2>7. QED BY <2>5, <2>6 DEF q2, a2
<1>12. QED BY <1>10, <1>11

\* front and pop: the first message holds the first part, the rest of the queue the rest.
LEMMA PopDivided ==
    ASSUME NEW q \in Seq(Message), q # <<>>, NEW a, Len(a) \in Nat, a # <<>>,
           NEW p, Divided(q, a, p)
    PROVE  /\ p[0] \in Nat /\ p[1] \in Nat /\ p[0] < p[1] /\ p[1] <= Len(a)
           /\ Holds(Head(q), a, p[0], p[1])
           /\ \E r : Divided(Tail(q), a, r) /\ r[0] = p[1]
<1> DEFINE n == Len(q)
           t == Tail(q)
           r == [i \in 0 .. n - 1 |-> p[i + 1]]
<1>1. n \in Nat \ {0}
  BY EmptySeq
<1>2. Len(t) = n - 1 /\ (\A i \in 1 .. n - 1 : t[i] = q[i + 1]) /\ Head(q) = q[1]
  BY HeadTailProperties
<1>3. /\ p \in [0 .. n -> 0 .. Len(a)] /\ p[n] = Len(a)
      /\ \A i \in 1 .. n : Holds(q[i], a, p[i - 1], p[i]) /\ p[i - 1] <= p[i] /\ p[i - 1] < p[i]
  BY DEF Divided
<1> HIDE DEF n, t
<1>4. \A i \in 0 .. n - 1 : r[i] = p[i + 1] /\ i + 1 \in 0 .. n
  BY <1>1
<1>5. r \in [0 .. n - 1 -> 0 .. Len(a)]
  BY <1>3, <1>4
<1> HIDE DEF r
<1>6. r[n - 1] = Len(a) /\ r[0] = p[1]
  <2>1. n - 1 \in 0 .. n - 1 /\ 0 \in 0 .. n - 1 /\ (n - 1) + 1 = n /\ 0 + 1 = 1
    BY <1>1
  <2>2. QED BY <1>3, <1>4, <2>1
<1>7. ASSUME NEW i \in 1 .. n - 1
      PROVE  Holds(t[i], a, r[i - 1], r[i]) /\ r[i - 1] <= r[i] /\ r[i - 1] < r[i]
  <2>1. i \in 0 .. n - 1 /\ i - 1 \in 0 .. n - 1 /\ (i - 1) + 1 = i /\ (i + 1) - 1 = i /\ i + 1 \in 1 .. n
    BY <1>1
  <2>2. r[i] = p[i + 1] /\ r[i - 1] = p[i] /\ t[i] = q[i + 1]
    BY <1>2, <1>4, <2>1
  <2>3. Holds(q[i + 1], a, p[i], p[i + 1]) /\ p[i] <= p[i + 1] /\ p[i] < p[i + 1]
    BY <1>3, <2>1
  <2>4. QED BY <2>2, <2>3
<1>8. Divided(t, a, r)
  BY <1>2, <1>5, <1>6, <1>7 DEF Divided
<1>9. /\ p[0] \in Nat /\ p[1] \in Nat /\ p[0] < p[1] /\ p[1] <= Len(a)
      /\ Holds(q[1], a, p[0], p[1])
  <2>1. 0 \in 0 .. n /\ 1 \in 0 .. n /\ 1 \in 1 .. n /\ 1 - 1 = 0
    BY <1>1
  <2>2. QED BY <1>3, <2>1
<1>10. QED BY <1>2, <1>6, <1>8, <1>9 DEF t

\* next_tlv goes over a piece and shows its segment.
LEMMA NextPiece ==
    ASSUME LengthsFit, NEW m \in Message, NEW v, v.end \in Nat, NEW y, NEW seg \in Added,
           Piece(m, v.end, y, seg)
    PROVE  /\ NextTlv(m, v) = [begin |-> v.end + HeaderSize, end |-> y,
                               valid |-> TRUE, finished |-> FALSE]
           /\ Viewed(m, NextTlv(m, v)) = seg
           /\ v.end + HeaderSize <= y /\ y \in Nat
<1> DEFINE x == v.end
           n == Len(seg.value)
           lm == Len(m)
           L == LengthBytes(n)
           begin == x + HeaderSize
           H == SubSeq(m, begin - 3, begin)
           V == SubSeq(m, begin + 1, y)
<1>1. /\ n \in Nat /\ seg.value \in Seq(Byte) /\ seg = [type |-> seg.type, value |-> seg.value]
  BY SegmentType
<1>2. x \in Nat /\ lm \in Nat /\ m \in Seq(Byte)
  BY MessageType
<1>15. y = x + HeaderSize + n /\ y <= lm
  BY DEF Piece
<1>3. /\ m[x + 1] = seg.type
      /\ \A i \in 1 .. 4 : m[x + 1 + i] = L[i]
      /\ \A i \in 1 .. n : m[x + HeaderSize + i] = seg.value[i]
  BY DEF Piece
<1>4. \A k \in 1 .. lm : m[k] \in Byte
  BY <1>2, ElementOfSeq
<1>5. L \in Seq(Byte) /\ Len(L) = 4 /\ LengthOf(L) = n
  <2>1. n < 4294967296
    <3>1. 1 + HeaderSize + n <= CHUNK_SIZE /\ CHUNK_SIZE < 4294967296 /\ CHUNK_SIZE \in Nat
      BY FitAssumption, ChunkAssumption DEF LengthsFit
    <3> HIDE DEF n
    <3>2. QED BY <1>1, <3>1 DEF HeaderSize
  <2>2. QED BY <1>1, <2>1, LengthBytesType, LengthRoundTrip
<1>6. seg.value \in Seq(Byte) /\ Len(seg.value) = n /\ m[x + 1] = seg.type
  BY <1>1, <1>3
<1> HIDE DEF x, n, lm, L
<1>16. n \in Nat /\ x \in Nat /\ lm \in Nat
  BY <1>1, <1>2
<1>7. begin \in Nat /\ begin = x + 5 /\ y = x + 5 + n /\ y \in Nat /\ y <= lm
  BY <1>15, <1>16 DEF HeaderSize
<1>17. x + HeaderSize = begin
  OBVIOUS
<1> HIDE DEF begin
<1>8. H = L
  <2>1. begin - 3 = x + 2 /\ x + 2 \in Int /\ begin \in Int
    BY <1>16, <1>7
  <2>2. ASSUME NEW k \in x + 2 .. begin PROVE m[k] \in Byte
    <3>1. k \in 1 .. lm
      BY <1>16, <1>7
    <3>2. QED BY <1>4, <3>1
  <2>3. /\ SubSeq(m, x + 2, begin) \in Seq(Byte)
        /\ Len(SubSeq(m, x + 2, begin)) = IF x + 2 <= begin THEN begin - (x + 2) + 1 ELSE 0
        /\ \A i \in 1 .. begin - (x + 2) + 1 : SubSeq(m, x + 2, begin)[i] = m[x + 2 + i - 1]
    BY <2>1, <2>2, SubSeqProperties
  <2>4. H = SubSeq(m, x + 2, begin)
    BY <2>1
  <2> HIDE DEF H
  <2>5. begin - (x + 2) + 1 = 4 /\ x + 2 <= begin
    BY <1>16, <1>7
  <2>6. H \in Seq(Byte) /\ Len(H) = 4 /\ \A i \in 1 .. 4 : H[i] = m[x + 2 + i - 1]
    BY <2>3, <2>4, <2>5
  <2>7. ASSUME NEW i \in 1 .. 4 PROVE H[i] = L[i]
    <3>1. x + 2 + i - 1 = x + 1 + i
      BY <1>16
    <3>2. QED BY <1>3, <2>6, <3>1
  <2>8. QED BY <1>5, <2>6, <2>7, SeqEqual
<1>9. V = seg.value
  <2>1. begin + 1 \in Int /\ y \in Int
    BY <1>7
  <2>2. ASSUME NEW k \in begin + 1 .. y PROVE m[k] \in Byte
    <3>1. k \in 1 .. lm
      BY <1>16, <1>7
    <3>2. QED BY <1>4, <3>1
  <2>3. /\ SubSeq(m, begin + 1, y) \in Seq(Byte)
        /\ Len(SubSeq(m, begin + 1, y)) = IF begin + 1 <= y THEN y - (begin + 1) + 1 ELSE 0
        /\ \A i \in 1 .. y - (begin + 1) + 1 : SubSeq(m, begin + 1, y)[i] = m[begin + 1 + i - 1]
    BY <2>1, <2>2, SubSeqProperties
  <2>4. y - (begin + 1) + 1 = n /\ (~(begin + 1 <= y) => n = 0)
    BY <1>16, <1>7
  <2>5. V \in Seq(Byte) /\ Len(V) = n /\ \A i \in 1 .. n : V[i] = m[begin + 1 + i - 1]
    BY <2>3, <2>4
  <2> HIDE DEF V
  <2>6. ASSUME NEW i \in 1 .. n PROVE V[i] = seg.value[i]
    <3>1. begin + 1 + i - 1 = begin + i /\ x + HeaderSize + i = begin + i
      BY <1>7, <1>16, <1>17
    <3>2. QED BY <1>3, <2>5, <3>1
  <2>7. QED BY <1>6, <2>5, <2>6, SeqEqual
<1> DEFINE u == [begin |-> begin, end |-> y, valid |-> TRUE, finished |-> FALSE]
<1>10. ValueEnd(m, begin) = y
  <2>1. ValueEnd(m, begin) = begin + LengthOf(H)
    BY DEF ValueEnd
  <2>2. QED BY <1>5, <1>7, <1>8, <1>15, <1>17, <2>1
<1>11. NextTlv(m, v) = u
  <2>1. x # lm
    BY <1>7, <1>16
  <2>2. v.end # Len(m) /\ v.end + HeaderSize = begin
    BY <1>17, <2>1 DEF x, lm
  <2>3. QED BY <1>10, <2>2 DEF NextTlv
<1>12. Viewed(m, u) = seg
  <2>1. u.end = y /\ u.begin = begin /\ y <= Len(m)
    BY <1>7 DEF lm
  <2>2. u.begin - 4 = x + 1
    BY <1>2, <1>7, <2>1
  <2>3. Viewed(m, u) = [type |-> m[x + 1], value |-> SubSeq(m, begin + 1, y)]
    BY <2>1, <2>2 DEF Viewed
  <2>4. QED BY <1>1, <1>6, <1>9, <2>3
<1>13. begin <= y
  BY <1>7, <1>16
<1>14. QED BY <1>7, <1>11, <1>12, <1>13, <1>17 DEF x

\* The queue that add_TLV finds.
LEMMA QueueType ==
    ASSUME IInv PROVE /\ queue \in Seq(Message) /\ added \in Seq(Added) /\ Len(added) \in Nat
                      /\ (~writing => queue # <<>>)
<1>1. CASE added = <<>>
  <2>1. queue = <<NewMessage(MsgType)>> /\ queue # <<>>
    BY <1>1 DEF IInv, NewQueue
  <2>2. <<NewMessage(MsgType)>> \in Seq(Message)
    BY NewMessageLength
  <2>3. QED BY <2>1, <2>2 DEF IInv
<1>2. CASE added # <<>>
  <2>1. queue \in Seq(Filled) /\ Filled \subseteq Message
    BY <1>2 DEF IInv, Filled
  <2>2. QED BY <1>2, <2>1, SeqMonotonic DEF IInv
<1>3. QED BY <1>1, <1>2

LEMMA StartDivided == \E p : Divided(NewQueue, <<>>, p) /\ p[0] = 0
<1> DEFINE p == [i \in 0 .. 1 |-> 0]
<1>1. Len(NewQueue) = 1 /\ NewQueue[1] = NewMessage(MsgType) /\ Len(<<>>) = 0
  BY DEF NewQueue
<1>2. p \in [0 .. 1 -> 0 .. 0] /\ p[0] = 0 /\ p[1] = 0
  OBVIOUS
<1>3. Holds(NewMessage(MsgType), <<>>, 0, 0)
  BY NewHolds
<1> HIDE DEF p
<1>4. ASSUME NEW i \in 1 .. 1
      PROVE  /\ Holds(NewQueue[i], <<>>, p[i - 1], p[i])
             /\ p[i - 1] <= p[i] /\ (<<>> # <<>> => p[i - 1] < p[i])
  <2>1. i = 1 /\ i - 1 = 0
    OBVIOUS
  <2>2. QED BY <1>1, <1>2, <1>3, <2>1
<1>5. Divided(NewQueue, <<>>, p)
  BY <1>1, <1>2, <1>4 DEF Divided
<1>6. QED BY <1>2, <1>5

LEMMA StartQInv ==
    ASSUME queue = NewQueue, added = <<>>, seen = <<>>, ~writing, writing \in BOOLEAN,
           msg = <<>>, view = NewView
    PROVE  QInv
<1>1. IInv
  BY EmptySeq DEF IInv
<1>2. Shown
  <2>1. <<>> \in Seq(Added)
    OBVIOUS
  <2>2. Len(<<>>) = 0 /\ 1 .. 0 = {}
    OBVIOUS
  <2>3. QED BY <2>1, <2>2 DEF Shown
<1>3. QED BY <1>1, <1>2, StartDivided DEF QInv

\* The offsets of a cut grow, and the last one is the end of the message.
LEMMA CutInside ==
    ASSUME NEW m \in Message, NEW a \in Seq(Added), NEW lo \in Nat, NEW hi \in Nat, hi <= Len(a),
           NEW b \in [lo .. hi -> Nat \ {0}], Cut(m, a, b, lo, hi), NEW k \in lo .. hi
    PROVE  /\ b[k] \in Nat /\ b[k] <= Len(m)
           /\ b[k] = Len(m) => k = hi
           /\ k < hi => a[k + 1] \in Added /\ Piece(m, b[k], b[k + 1], a[k + 1])
<1>1. Len(m) \in Nat /\ b[k] \in Nat /\ b[hi] = Len(m) /\ k \in Nat
  BY MessageType DEF Cut
<1>2. ASSUME k < hi
      PROVE  a[k + 1] \in Added /\ Piece(m, b[k], b[k + 1], a[k + 1]) /\ b[k] < Len(m)
  <2>1. k + 1 \in lo + 1 .. hi /\ k + 1 \in 1 .. Len(a) /\ (k + 1) - 1 = k /\ k + 1 \in lo .. hi
    BY <1>1, <1>2, LenProperties
  <2>2. a[k + 1] \in Added /\ Piece(m, b[k], b[k + 1], a[k + 1]) /\ b[k + 1] \in Nat
    BY <2>1, ElementOfSeq DEF Cut
  <2>3. b[k + 1] = b[k] + 5 + Len(a[k + 1].value) /\ b[k + 1] <= Len(m)
    BY <2>2 DEF Piece, HeaderSize
  <2>4. Len(a[k + 1].value) \in Nat
    BY <2>2, SegmentType
  <2>5. \A i, j, n, l \in Nat : j = i + 5 + n /\ j <= l => i < l
    OBVIOUS
  <2>6. QED BY <1>1, <2>2, <2>3, <2>4, <2>5
<1>3. CASE k < hi
  <2>1. b[k] < Len(m) /\ a[k + 1] \in Added /\ Piece(m, b[k], b[k + 1], a[k + 1])
    BY <1>2, <1>3
  <2>2. \A i, l \in Nat : i < l => i <= l /\ i # l
    OBVIOUS
  <2>3. QED BY <1>1, <2>1, <2>2, Zenon
<1>4. CASE ~(k < hi)
  <2>1. k = hi
    BY <1>1, <1>4
  <2>2. QED BY <1>1, <1>4, <2>1
<1>5. QED BY <1>3, <1>4

-----------------------------------------------------------------------------
LEMMA AddQInv == ASSUME QInv, AddTLV PROVE QInv'
<1>1. IInv'
  BY NextIInv DEF QInv, Next
<1>2. PICK seg \in Added : queue' = AddToLast(queue, seg) /\ added' = Append(added, seg)
  BY DEF AddTLV
<1>3. ~writing /\ writing' = writing /\ msg' = msg /\ view' = view /\ seen' = seen
  BY DEF AddTLV
<1>4. queue \in Seq(Message) /\ queue # <<>> /\ added \in Seq(Added)
  BY <1>3, QueueType DEF QInv
<1>5. seen = <<>> /\ msg = <<>> /\ view = NewView /\ (added = <<>> => queue = NewQueue)
  BY <1>3 DEF QInv, IInv
<1>6. PICK p : Divided(queue, added, p) /\ p[0] = 0
  BY <1>3 DEF QInv
<1>7. \E r : Divided(queue', added', r) /\ r[0] = 0
  <2>1. \E r : Divided(AddToLast(queue, seg), Append(added, seg), r) /\ r[0] = p[0]
    BY <1>4, <1>5, <1>6, AddToLastDivided
  <2>2. QED BY <1>2, <1>6, <2>1
<1>8. Shown'
  <2>1. <<>> \in Seq(Added) /\ Len(<<>>) = 0 /\ 1 .. 0 = {}
    OBVIOUS
  <2>2. added' \in Seq(Added) /\ Len(added') \in Nat
    BY <1>2, <1>4, AppendProperties, LenProperties
  <2>3. QED BY <1>3, <1>5, <2>1, <2>2 DEF Shown
<1>9. QED BY <1>1, <1>3, <1>5, <1>7, <1>8 DEF QInv

LEMMA PopQInv == ASSUME QInv, Pop PROVE QInv'
<1>1. IInv'
  BY NextIInv DEF QInv, Next
<1>2. /\ queue # <<>> /\ added # <<>> /\ writing' = TRUE /\ (writing => view.finished)
      /\ msg' = Head(queue) /\ queue' = Tail(queue) /\ view' = NewView
      /\ added' = added /\ seen' = seen
  BY DEF Pop
<1>3. queue \in Seq(Message) /\ added \in Seq(Added) /\ Len(added) \in Nat
  BY QueueType DEF QInv
<1>4. PICK p : Divided(queue, added, p) /\ IF writing THEN Viewing(p[0]) ELSE p[0] = 0
  BY DEF QInv
<1>5. /\ p[0] \in Nat /\ p[1] \in Nat /\ p[0] < p[1] /\ p[1] <= Len(added)
      /\ Holds(Head(queue), added, p[0], p[1])
      /\ \E r : Divided(Tail(queue), added, r) /\ r[0] = p[1]
  BY <1>2, <1>3, <1>4, PopDivided
<1>6. Len(seen) = p[0]
  <2>1. CASE writing
    BY <1>2, <1>4, <2>1 DEF Viewing, ViewAt
  <2>2. CASE ~writing
    <3>1. seen = <<>> /\ p[0] = 0
      BY <1>4, <2>2 DEF QInv
    <3>2. QED BY <3>1
  <2>3. QED BY <2>1, <2>2
<1>7. PICK b \in [p[0] .. p[1] -> Nat \ {0}] : Cut(Head(queue), added, b, p[0], p[1])
  BY <1>5 DEF Holds
<1>8. Viewing(p[1])'
  <2>1. Cut(msg', added', b, p[0], p[1])
    BY <1>2, <1>7
  <2>2. /\ view'.begin = 1 /\ view'.end = 1 /\ view'.finished = FALSE
    BY <1>2 DEF NewView
  <2>3. b[p[0]] = 1
    BY <1>7 DEF Cut
  <2>4. Len(seen') = p[0] /\ p[0] \in p[0] .. p[1]
    BY <1>2, <1>5, <1>6
  <2>5. ViewAt(p[0], p[1], b)'
    BY <2>1, <2>2, <2>3, <2>4 DEF ViewAt
  <2>6. QED BY <1>5, <1>7, <2>5 DEF Viewing
<1>9. msg' \in Message
  BY <1>2, <1>3, HeadTailProperties
<1>10. Shown'
  BY <1>2 DEF QInv, Shown
<1>11. \E r : Divided(queue', added', r) /\ Viewing(r[0])'
  <2>1. PICK r : Divided(Tail(queue), added, r) /\ r[0] = p[1]
    BY <1>5
  <2>2. Divided(queue', added', r)
    BY <1>2, <2>1
  <2>3. Viewing(r[0])'
    BY <1>8, <2>1
  <2>4. QED BY <2>2, <2>3
<1>12. QED BY <1>1, <1>2, <1>9, <1>10, <1>11 DEF QInv

LEMMA ReadQInv == ASSUME LengthsFit, QInv, Read PROVE QInv'
<1>1. IInv'
  BY NextIInv DEF QInv, Next
<1>2. /\ writing /\ ~view.finished /\ view' = NextTlv(msg, view)
      /\ seen' = IF view'.valid THEN Append(seen, Viewed(msg, view')) ELSE seen
      /\ queue' = queue /\ added' = added /\ writing' = writing /\ msg' = msg
  BY DEF Read
<1>3. msg \in Message /\ added \in Seq(Added) /\ Len(added) \in Nat
  BY <1>2, QueueType DEF QInv
<1>4. PICK p : Divided(queue, added, p) /\ Viewing(p[0])
  BY <1>2 DEF QInv
<1> DEFINE hi == p[0]
<1>5. hi \in Nat /\ hi <= Len(added)
  <2>1. Len(queue) \in Nat /\ p \in [0 .. Len(queue) -> 0 .. Len(added)]
    BY <1>4, QueueType, LenProperties DEF QInv, Divided
  <2>2. 0 \in 0 .. Len(queue)
    BY <2>1
  <2>3. QED BY <1>3, <2>1, <2>2
<1> HIDE DEF hi
<1>6. PICK lo \in Nat : lo < hi /\ \E b \in [lo .. hi -> Nat \ {0}] : ViewAt(lo, hi, b)
  BY <1>4 DEF Viewing, hi
<1>7. PICK b \in [lo .. hi -> Nat \ {0}] : ViewAt(lo, hi, b)
  BY <1>6
<1> DEFINE k == Len(seen)
<1>8. Cut(msg, added, b, lo, hi) /\ k \in lo .. hi /\ view.end = b[k]
  BY <1>7 DEF ViewAt
<1>9. seen \in Seq(Added) /\ k \in Nat /\ \A j \in 1 .. k : seen[j] = added[j]
  BY DEF QInv, Shown
<1>10. /\ b[k] \in Nat /\ b[k] <= Len(msg)
       /\ b[k] = Len(msg) => k = hi
       /\ k < hi => added[k + 1] \in Added /\ Piece(msg, b[k], b[k + 1], added[k + 1])
  BY <1>3, <1>5, <1>8, CutInside
<1>11. b[hi] = Len(msg)
  BY <1>8 DEF Cut
<1> HIDE DEF k
<1>12. Cut(msg', added', b, lo, hi)
  BY <1>2, <1>8
<1>13. Shown' /\ ViewAt(lo, hi, b)'
  <2>1. CASE k = hi
    <3>1. view.end = Len(msg)
      BY <1>8, <1>11, <2>1
    <3>2. view' = [begin |-> view.end, end |-> view.end, valid |-> FALSE, finished |-> TRUE]
      BY <1>2, <3>1 DEF NextTlv
    <3>3. /\ view'.begin = view.end /\ view'.end = view.end /\ ~view'.valid /\ view'.finished
          /\ seen' = seen
      BY <1>2, <3>2
    <3>4. Len(seen') = k
      BY <3>3 DEF k
    <3>5. view'.begin \in Nat /\ view'.end = b[k] /\ view'.begin <= view'.end
      BY <1>8, <1>10, <3>3
    <3>6. Shown'
      BY <1>2, <3>3 DEF QInv, Shown
    <3>7. ViewAt(lo, hi, b)'
      BY <1>8, <1>12, <2>1, <3>4, <3>5 DEF ViewAt
    <3>8. QED BY <3>6, <3>7
  <2>2. CASE k # hi
    <3>1. k < hi /\ k + 1 \in lo .. hi /\ k + 1 \in 1 .. Len(added)
      BY <1>3, <1>5, <1>8, <1>9, <2>2
    <3> DEFINE seg == added[k + 1]
               y == b[k + 1]
    <3>2. seg \in Added /\ Piece(msg, view.end, y, seg) /\ view.end \in Nat
      BY <1>8, <1>10, <3>1
    <3> HIDE DEF seg, y
    <3>3. /\ NextTlv(msg, view) = [begin |-> view.end + HeaderSize, end |-> y,
                                   valid |-> TRUE, finished |-> FALSE]
          /\ Viewed(msg, NextTlv(msg, view)) = seg
          /\ view.end + HeaderSize <= y /\ y \in Nat
      BY <1>3, <3>2, NextPiece
    <3>4. /\ view'.begin = view.end + HeaderSize /\ view'.end = y
          /\ view'.valid /\ view'.finished = FALSE
      BY <1>2, <3>3
    <3>5. Viewed(msg, view') = seg
      BY <1>2, <3>3
    <3>6. seen' = Append(seen, seg)
      BY <1>2, <3>4, <3>5
    <3>7. /\ seen' \in Seq(Added) /\ Len(seen') = k + 1 /\ seen'[k + 1] = seg
          /\ \A j \in 1 .. k : seen'[j] = seen[j]
      BY <1>9, <3>2, <3>6, AppendProperties DEF k
    <3>8. \A j \in 1 .. k + 1 : seen'[j] = added[j]
      BY <1>9, <3>7 DEF seg
    <3>9. k + 1 <= Len(added)
      BY <3>1
    <3>10. Shown'
      BY <1>2, <3>7, <3>8, <3>9 DEF Shown
    <3>11. view'.begin \in Nat /\ view'.end = b[k + 1] /\ view'.begin <= view'.end
      BY <3>2, <3>3, <3>4 DEF y, HeaderSize
    <3>12. ViewAt(lo, hi, b)'
      BY <1>12, <3>1, <3>4, <3>7, <3>11 DEF ViewAt
    <3>13. QED BY <3>10, <3>12
  <2>3. QED BY <2>1, <2>2
<1>14. Viewing(hi)'
  BY <1>6, <1>7, <1>13 DEF Viewing
<1>15. Divided(queue', added', p) /\ Viewing(p[0])'
  BY <1>2, <1>4, <1>14 DEF hi
<1>16. QED BY <1>1, <1>2, <1>3, <1>13, <1>15 DEF QInv

LEMMA InitQInv == Init => QInv
BY StartQInv DEF Init

LEMMA RenewQInv == ASSUME Renew PROVE QInv'
<1>1. /\ queue' = NewQueue /\ added' = <<>> /\ seen' = <<>> /\ writing' = FALSE
      /\ msg' = <<>> /\ view' = NewView
  BY DEF Renew
<1>2. IInv'
  BY <1>1, EmptySeq DEF IInv
<1>3. Shown'
  <2>1. <<>> \in Seq(Added)
    OBVIOUS
  <2>2. Len(<<>>) = 0 /\ 1 .. 0 = {}
    OBVIOUS
  <2>3. QED BY <1>1, <2>1, <2>2 DEF Shown
<1>4. QED BY <1>1, <1>2, <1>3, StartDivided DEF QInv

LEMMA StutterQInv == ASSUME QInv, UNCHANGED vars PROVE QInv'
<1>1. IInv'
  BY NextIInv DEF QInv
<1>2. QED BY <1>1 DEF QInv, Shown, Viewing, ViewAt, vars

LEMMA NextQInv == LengthsFit /\ QInv /\ [Next]_vars => QInv'
BY AddQInv, PopQInv, ReadQInv, RenewQInv, StutterQInv DEF Next

-----------------------------------------------------------------------------
\* Where the view stands when a message is there.
LEMMA WhereViewStands ==
    ASSUME QInv, writing
    PROVE  \E lo \in Nat, hi \in Nat : \E b \in [lo .. hi -> Nat \ {0}] :
             /\ lo < hi /\ hi <= Len(added) /\ ViewAt(lo, hi, b)
             /\ queue = <<>> => hi = Len(added)
<1>1. PICK p : Divided(queue, added, p) /\ Viewing(p[0])
  BY DEF QInv
<1>2. /\ Len(queue) \in Nat /\ p \in [0 .. Len(queue) -> 0 .. Len(added)]
      /\ p[Len(queue)] = Len(added) /\ Len(added) \in Nat
  BY <1>1, QueueType, LenProperties DEF QInv, Divided
<1>3. p[0] \in Nat /\ p[0] <= Len(added)
  <2>1. 0 \in 0 .. Len(queue)
    BY <1>2
  <2>2. QED BY <1>2, <2>1
<1>4. queue = <<>> => p[0] = Len(added)
  BY <1>2
<1>5. QED BY <1>1, <1>3, <1>4 DEF Viewing

LEMMA QInvOrder == QInv => ShownInOrder
<1>1. SUFFICES ASSUME QInv PROVE ShownInOrder
  OBVIOUS
<1>2. /\ seen \in Seq(Added) /\ Len(seen) <= Len(added) /\ \A j \in 1 .. Len(seen) : seen[j] = added[j]
      /\ added \in Seq(Added)
  BY <1>1, QueueType DEF QInv, Shown
<1>3. Len(seen) \in Nat /\ Len(added) \in Nat
  BY <1>2, LenProperties
<1> DEFINE k == Len(seen)
           t == SubSeq(added, 1, k)
<1>4. seen = t
  <2>1. \A i \in 1 .. k : added[i] \in Added
    BY <1>2, <1>3, ElementOfSeq
  <2>2. /\ t \in Seq(Added) /\ Len(t) = IF 1 <= k THEN k - 1 + 1 ELSE 0
        /\ \A i \in 1 .. k - 1 + 1 : t[i] = added[1 + i - 1]
    BY <1>3, <2>1, SubSeqProperties
  <2> HIDE DEF t
  <2>3. Len(t) = k /\ \A i \in 1 .. k : t[i] = added[i]
    BY <1>3, <2>2
  <2>4. QED BY <1>2, <2>2, <2>3, SeqEqual
<1>5. ASSUME Drained PROVE seen = added
  <2>1. writing /\ queue = <<>> /\ view.finished
    BY <1>5 DEF Drained
  <2>2. Len(seen) = Len(added)
    BY <1>1, <2>1, WhereViewStands DEF ViewAt
  <2>3. QED BY <1>2, <2>2, SeqEqual
<1>6. QED BY <1>2, <1>4, <1>5 DEF ShownInOrder

LEMMA QInvInside == QInv => ViewInside
<1>1. SUFFICES ASSUME QInv, msg # <<>> PROVE view.begin <= view.end /\ view.end <= Len(msg)
  BY DEF ViewInside
<1>2. writing /\ msg \in Message /\ added \in Seq(Added)
  BY <1>1, QueueType DEF QInv
<1>3. PICK lo \in Nat, hi \in Nat : \E b \in [lo .. hi -> Nat \ {0}] :
             /\ lo < hi /\ hi <= Len(added) /\ ViewAt(lo, hi, b)
  BY <1>1, <1>2, WhereViewStands
<1>4. PICK b \in [lo .. hi -> Nat \ {0}] : hi <= Len(added) /\ ViewAt(lo, hi, b)
  BY <1>3
<1>5. /\ Cut(msg, added, b, lo, hi) /\ Len(seen) \in lo .. hi
      /\ view.end = b[Len(seen)] /\ view.begin <= view.end
  BY <1>4 DEF ViewAt
<1>6. b[Len(seen)] <= Len(msg)
  BY <1>2, <1>4, <1>5, CutInside
<1>7. QED BY <1>5, <1>6

LEMMA QInvEnd == QInv => EndRecognised
<1>1. SUFFICES ASSUME QInv, view.finished, seen # <<>>, LastSeen = EndSegment PROVE VerifyEnd(msg)
  BY DEF EndRecognised
<1>2. writing
  BY <1>1 DEF QInv
<1>3. msg \in Message /\ added \in Seq(Added) /\ msg \in Seq(Byte)
  BY <1>1, <1>2, QueueType, MessageType DEF QInv
<1>4. PICK lo \in Nat, hi \in Nat : \E b \in [lo .. hi -> Nat \ {0}] :
             /\ lo < hi /\ hi <= Len(added) /\ ViewAt(lo, hi, b)
  BY <1>1, <1>2, WhereViewStands
<1>5. PICK b \in [lo .. hi -> Nat \ {0}] : lo < hi /\ hi <= Len(added) /\ ViewAt(lo, hi, b)
  BY <1>4
<1>6. Cut(msg, added, b, lo, hi) /\ Len(seen) = hi
  BY <1>1, <1>5 DEF ViewAt
<1>7. added[hi] = EndSegment
  <2>1. hi \in 1 .. Len(seen)
    BY <1>5, <1>6
  <2>2. seen[hi] = added[hi]
    BY <1>1, <2>1 DEF QInv, Shown
  <2>3. QED BY <1>1, <1>6, <2>2 DEF LastSeen
<1> DEFINE x == b[hi - 1]
           lm == Len(msg)
<1>8. x \in Nat /\ lm \in Nat /\ Piece(msg, x, lm, EndSegment)
  <2>1. hi \in lo + 1 .. hi /\ hi - 1 \in lo .. hi
    BY <1>5
  <2>2. Piece(msg, b[hi - 1], b[hi], added[hi]) /\ b[hi] = lm
    BY <1>6, <2>1 DEF Cut
  <2>3. b[hi - 1] \in Nat
    BY <2>1
  <2>4. QED BY <1>3, <1>7, <2>2, <2>3, MessageType
<1>9. EndSegment.type = END /\ Len(EndSegment.value) = 0
  BY DEF EndSegment
<1>10. LengthBytes(0) = <<0, 0, 0, 0>>
  BY DEF LengthBytes
<1> HIDE DEF x, lm
<1>11. lm = x + 5
  BY <1>8, <1>9 DEF Piece, HeaderSize
<1>12. msg[x + 1] = END /\ \A i \in 1 .. 4 : msg[x + 1 + i] = 0
  <2>1. msg[x + 1] = END /\ \A i \in 1 .. 4 : msg[x + 1 + i] = LengthBytes(0)[i]
    BY <1>8, <1>9 DEF Piece
  <2>2. \A i \in 1 .. 4 : <<0, 0, 0, 0>>[i] = 0
    OBVIOUS
  <2>3. QED BY <1>10, <2>1, <2>2
<1> DEFINE e == <<END, 0, 0, 0, 0>>
           t == SubSeq(msg, x + 1, lm)
<1>13. e \in Seq(Byte) /\ Len(e) = 5 /\ e[1] = END /\ \A i \in 2 .. 5 : e[i] = 0
  BY DEF Byte, END
<1>14. t \in Seq(Byte) /\ Len(t) = 5 /\ \A i \in 1 .. 5 : t[i] = msg[x + i]
  <2>1. \A i \in x + 1 .. lm : msg[i] \in Byte
    <3>1. \A i \in 1 .. lm : msg[i] \in Byte
      BY <1>3, ElementOfSeq DEF lm
    <3>2. QED BY <1>8, <3>1
  <2>2. /\ t \in Seq(Byte) /\ Len(t) = IF x + 1 <= lm THEN lm - (x + 1) + 1 ELSE 0
        /\ \A i \in 1 .. lm - (x + 1) + 1 : t[i] = msg[x + 1 + i - 1]
    BY <1>8, <2>1, SubSeqProperties
  <2> HIDE DEF t
  <2>3. lm - (x + 1) + 1 = 5 /\ x + 1 <= lm /\ \A i \in 1 .. 5 : x + 1 + i - 1 = x + i
    BY <1>8, <1>11
  <2>4. QED BY <2>2, <2>3
<1> HIDE DEF e, t
<1>15. ASSUME NEW i \in 1 .. 5 PROVE t[i] = e[i]
  <2>1. CASE i = 1
    BY <1>12, <1>13, <1>14, <2>1
  <2>2. CASE i # 1
    <3>1. i - 1 \in 1 .. 4 /\ x + 1 + (i - 1) = x + i /\ i \in 2 .. 5
      BY <1>8, <2>2
    <3>2. msg[x + i] = 0
      BY <1>12, <3>1
    <3>3. QED BY <1>13, <1>14, <3>1, <3>2
  <2>3. QED BY <2>1, <2>2
<1>16. t = e
  BY <1>13, <1>14, <1>15, SeqEqual
<1>17. x + 1 = Len(msg) - HeaderSize + 1
  BY <1>8, <1>11 DEF lm, HeaderSize
<1>18. QED BY <1>16, <1>17 DEF VerifyEnd, t, e, lm

\* The views show what has been added, whole, once and in order, whatever the chunk size
\* and however the segments fall into messages.
THEOREM SeenInOrder == ASSUME LengthsFit PROVE Spec => []ShownInOrder
<1>1. Init => QInv
  BY InitQInv
<1>2. QInv /\ [Next]_vars => QInv'
  BY NextQInv
<1>3. QInv => ShownInOrder
  BY QInvOrder
<1>4. QED BY <1>1, <1>2, <1>3, PTL DEF Spec

\* next_tlv stays inside every message that add_TLV made.
THEOREM ViewsStayInside == ASSUME LengthsFit PROVE Spec => []ViewInside
<1>1. Init => QInv
  BY InitQInv
<1>2. QInv /\ [Next]_vars => QInv'
  BY NextQInv
<1>3. QInv => ViewInside
  BY QInvInside
<1>4. QED BY <1>1, <1>2, <1>3, PTL DEF Spec

\* verify_end finds every END that is the last segment of its message.
THEOREM EndsFound == ASSUME LengthsFit PROVE Spec => []EndRecognised
<1>1. Init => QInv
  BY InitQInv
<1>2. QInv /\ [Next]_vars => QInv'
  BY NextQInv
<1>3. QInv => EndRecognised
  BY QInvEnd
<1>4. QED BY <1>1, <1>2, <1>3, PTL DEF Spec
=============================================================================
