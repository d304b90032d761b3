\* A wait that expires as the last operation ends.
SPECIFICATION Spec
CONSTANTS
    MaxReplies = 1
    MaxFired = 1
    TimerFails = FALSE
CHECK_DEADLOCK FALSE
INVARIANT TimeoutFindsConnection
