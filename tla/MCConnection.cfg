\* Every order of completions, expiries and handlers.  A connection ends.
SPECIFICATION Spec
CONSTANTS
    MaxReplies = 3
    MaxFired = 2
    TimerFails = FALSE
INVARIANTS ReadGuarded StreamNotLeaked
PROPERTIES NothingAfterTimeout SilentClientDropped TimeoutCloses
CHECK_DEADLOCK FALSE
