\* A timer that could not be set: the read is started without it.
SPECIFICATION Spec
CONSTANTS
    MaxReplies = 1
    MaxFired = 1
    TimerFails = TRUE
CHECK_DEADLOCK FALSE
INVARIANT ReadGuarded
