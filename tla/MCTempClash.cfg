\* The temporary of a left by an interrupted update is the file b to the next session.
SPECIFICATION Spec
CONSTANTS
    c1 = c1
    c2 = c2
    u1 = u1
    a = a
    b = b
    aTemp = aTemp
    bTemp = bTemp
    x = x
    Conn = {c1}
    User = {u1}
    Owner <- OneOwner
    Path = {a, b}
    Name = {a, b, bTemp}
    Temp <- ClashingTemp
    Chunk = {x}
    MaxLen = 1
    TEMP = TEMP
    FreshFlag = {FALSE}
    Faults = {}
    FailedStream = FailedStream
    Unlinked = Unlinked
    None = None
INVARIANT EntryBacked
