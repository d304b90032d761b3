\* Two threads, three clients, any of which may never answer a close_notify.
SPECIFICATION Spec
CONSTANTS
    Thread = {t1, t2}
    Client = {k1, k2, k3}
INVARIANTS OneAccept RunsUntilStopped
PROPERTIES ServedUnlessBlocked ExitsUnlessBlocked
CHECK_DEADLOCK FALSE
