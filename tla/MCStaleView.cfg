\* Two connections of one user: the view of one does not follow the other.
SPECIFICATION Spec
CONSTANTS
    c1 = c1
    c2 = c2
    u1 = u1
    a = a
    b = b
    aTemp = aTemp
    bTemp = bTemp
    x = x
    Conn = {c1, c2}
    User = {u1}
    Owner <- SameOwner
    Path = {a}
    Name = {a, aTemp}
    Temp <- OneTemp
    Chunk = {x}
    MaxLen = 1
    TEMP = TEMP
    FreshFlag = {FALSE}
    Faults = {}
    FailedStream = FailedStream
    Unlinked = Unlinked
    None = None
INVARIANT EntryBacked
