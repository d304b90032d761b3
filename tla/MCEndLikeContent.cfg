\* A chunk of content whose last bytes are those of an END segment.
SPECIFICATION Spec
CONSTANTS
    CHUNK_SIZE = 32
    MsgType = 1
    Added <- EndLikeContent
    MaxAdded = 3
INVARIANT OnlyEndRecognised
