\* A client that leaves early takes the process down.
SPECIFICATION Spec
CONSTANTS
    Thread = {t1, t2}
    Client = {k1, k2}
INVARIANT AcceptsAgain
CHECK_DEADLOCK FALSE
