--------------------------- MODULE MCMessageQueue ---------------------------
(***************************************************************************)
(* MessageQueue with chunks of 16 bytes.  The longest value fills a chunk. *)
(***************************************************************************)
EXTENDS MessageQueue

\* Segments of 5, 6, 8 and 15 bytes.
SomeSegments ==
    {EndSegment, [type |-> OK, value |-> <<>>], [type |-> ERROR, value |-> <<49>>],
     [type |-> ITEM, value |-> <<65, 0, 66>>],
     [type |-> CONTENT, value |-> <<9, 8, 7, 6, 5, 4, 3, 2, 1, 0>>]}

\* CONTENT that happens to end like a message that ends in END.
EndLikeContent ==
    {EndSegment, [type |-> ITEM, value |-> <<65>>], [type |-> CONTENT, value |-> <<END, 0, 0, 0, 0>>]}
=============================================================================
