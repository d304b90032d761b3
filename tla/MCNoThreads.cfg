\* The option threads set to 0.
SPECIFICATION Spec
CONSTANTS
    Thread = {}
    Client = {k1, k2}
INVARIANT RunsUntilStopped
CHECK_DEADLOCK FALSE
