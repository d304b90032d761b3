\* Two connections of one user: the file or the temporary goes before the handler is back at it.
SPECIFICATION Spec
CONSTANTS
    c1 = c1
    c2 = c2
    u1 = u1
    u2 = u2
    a = a
    b = b
    aTemp = aTemp
    bTemp = bTemp
    x = x
    Conn = {c1, c2}
    User = {u1}
    Owner <- SameOwner
    Path = {a}
    Name = {a, aTemp}
    Temp <- OneTemp
    Asks <- AsksAll
    Chunk = {x}
    MaxLen = 1
    StreamId = {1, 2, 3, 4}
    TEMP = TEMP
    Unlinked = Unlinked
    FailedStream = FailedStream
    Dangling = Dangling
    None = None
INVARIANT HandlersSurvive
