\* A client that stays on its connection after a FAILED.
SPECIFICATION ClientSpec
CONSTANTS
    c1 = c1
    c2 = c2
    u1 = u1
    a = a
    b = b
    aTemp = aTemp
    bTemp = bTemp
    x = x
    Conn = {c1}
    User = {u1}
    Owner <- OneOwner
    Path = {a, b}
    Name = {a, b, aTemp, bTemp}
    Temp <- TempOf
    Chunk = {x}
    MaxLen = 2
    TEMP = TEMP
    FreshFlag = {FALSE}
    Faults = {"open"}
    FailedStream = FailedStream
    Unlinked = Unlinked
    None = None
    Me = c1
    File <- Files
    MaxFaults = 1
    MaxEdits = 0
    Reconnects = FALSE
PROPERTY EventuallyBackedUp
CHECK_DEADLOCK FALSE
