\* A client that does not read its answer.
SPECIFICATION Spec
CONSTANTS
    MaxReplies = 1
    MaxFired = 1
    TimerFails = FALSE
CHECK_DEADLOCK FALSE
PROPERTY UnreadAnswerDropped
