\* Two uploads of one connection, their chunks mixed.
SPECIFICATION Spec
CONSTANTS
    c1 = c1
    c2 = c2
    u1 = u1
    a = a
    b = b
    aTemp = aTemp
    bTemp = bTemp
    x = x
    Conn = {c1}
    User = {u1}
    Owner <- OneOwner
    Path = {a, b}
    Name = {a, b, aTemp, bTemp}
    Temp <- TempOf
    Chunk = {x}
    MaxLen = 1
    TEMP = TEMP
    FreshFlag = {FALSE}
    Faults = {}
    FailedStream = FailedStream
    Unlinked = Unlinked
    None = None
PROPERTY WritesWhereNamed
