\* The flags of class user have the values the memory happens to hold.
SPECIFICATION Spec
CONSTANTS
    c1 = c1
    c2 = c2
    u1 = u1
    a = a
    b = b
    aTemp = aTemp
    bTemp = bTemp
    x = x
    Conn = {c1}
    User = {u1}
    Owner <- OneOwner
    Path = {a}
    Name = {a, aTemp}
    Temp <- OneTemp
    Chunk = {x}
    MaxLen = 1
    TEMP = TEMP
    FreshFlag = {TRUE, FALSE}
    Faults = {}
    FailedStream = FailedStream
    Unlinked = Unlinked
    None = None
INVARIANT EveryRequestAnswered
