------------------------------ MODULE Message ------------------------------
(***************************************************************************)
(* communication/message.cpp and communication/tlv_view.cpp: a message is  *)
(* a type byte and a sequence of segments, each a type byte, the length of *)
(* the value in four bytes, most significant first, and the value.         *)
(*                                                                         *)
(* Positions of a view are offsets from the begin of the message, as the   *)
(* iterators of the code are; the byte at offset i is msg[i + 1].          *)
(***************************************************************************)
EXTENDS Naturals, Sequences

Byte    == 0 .. 255
Message == Seq(Byte) \ {<<>>}
Segment == [type : Byte, value : Seq(Byte)]

\* communication::TLV_TYPE
ITEM    == 2
END     == 3
OK      == 4
ERROR   == 5
CONTENT == 6

EndSegment == [type |-> END, value |-> <<>>]

HeaderSize == 5     \* of a segment

\* (length >> (3 - i) * 8) & 0xFF for i = 0 .. 3
LengthBytes(n) ==
    <<(((n \div 256) \div 256) \div 256) % 256, ((n \div 256) \div 256) % 256,
      (n \div 256) % 256, n % 256>>

LengthOf(b) == ((b[1] * 256 + b[2]) * 256 + b[3]) * 256 + b[4]

\* message(msg_type), and message::add_TLV
NewMessage(type)  == <<type>>
WithSegment(msg, seg) == msg \o <<seg.type>> \o LengthBytes(Len(seg.value)) \o seg.value

\* The view on a message before the first next_tlv.
NewView == [begin |-> 1, end |-> 1, valid |-> FALSE, finished |-> FALSE]

\* A mutant: one byte too many.
ValueEndTooFar(msg, begin) == begin + LengthOf(SubSeq(msg, begin - 3, begin)) + 1

\* Where the value that begins at begin ends, by the length before it.
ValueEnd(msg, begin) == begin + LengthOf(SubSeq(msg, begin - 3, begin))

\* tlv_view::next_tlv, on a view that is not finished
NextTlv(msg, view) ==
    IF view.end = Len(msg)
    THEN [begin |-> view.end, end |-> view.end, valid |-> FALSE, finished |-> TRUE]
    ELSE LET begin == view.end + HeaderSize
         IN [begin |-> begin, end |-> ValueEnd(msg, begin), valid |-> TRUE, finished |-> FALSE]

\* tlv_type, and the range from cbegin to cend.  What lies beyond the message is
\* undefined; here it is cut off.
Viewed(msg, view) ==
    LET end == IF view.end <= Len(msg) THEN view.end ELSE Len(msg)
    IN [type |-> msg[view.begin - 4], value |-> SubSeq(msg, view.begin + 1, end)]

\* A mutant: the search starts at end, not before it.
VerifyEndOffByOne(msg) ==
    Len(msg) > HeaderSize /\ SubSeq(msg, Len(msg) - HeaderSize, Len(msg) - 1) = <<END, 0, 0, 0, 0>>

\* tlv_view::verify_end looks at the last five bytes of the message, whatever
\* segment they belong to.
VerifyEnd(msg) ==
    SubSeq(msg, Len(msg) - HeaderSize + 1, Len(msg)) = <<END, 0, 0, 0, 0>>
=============================================================================
