\* A wait expires just before the request it guards has arrived.
SPECIFICATION Spec
CONSTANTS
    MaxReplies = 1
    MaxFired = 1
    TimerFails = FALSE
PROPERTIES TimeoutOnlyWhileReading
CHECK_DEADLOCK FALSE
