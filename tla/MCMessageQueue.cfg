\* Answers of up to five segments in messages of up to 16 bytes.
SPECIFICATION Spec
CONSTANTS
    CHUNK_SIZE = 16
    MsgType = 1
    Added <- SomeSegments
    MaxAdded = 5
INVARIANTS WithinChunk NoBareMessage ShownInOrder ViewInside EndRecognised
