\* One user, one connection at a time, and every file system call may fail.
\* user.h leaves the flags uninitialised.
SPECIFICATION Spec
CONSTANTS
    c1 = c1
    c2 = c2
    u1 = u1
    a = a
    b = b
    aTemp = aTemp
    bTemp = bTemp
    x = x
    Conn = {c1}
    User = {u1}
    Owner <- OneOwner
    Path = {a, b}
    Name = {a, b, aTemp, bTemp}
    Temp <- TempOf
    Chunk = {x}
    MaxLen = 1
    TEMP = TEMP
    FreshFlag = {TRUE, FALSE}
    Faults = {"sync", "mkdir", "open", "write", "read", "remove", "rename", "sign"}
    FailedStream = FailedStream
    Unlinked = Unlinked
    None = None
INVARIANTS TypeOK EntryBacked UploadUnfinished NoOrphanStream FinalOkStored NoMatchLeavesNothing
PROPERTIES VanishOnlyAsReported CompleteFileKept
SYMMETRY Symmetric
