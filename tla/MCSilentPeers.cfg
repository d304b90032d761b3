\* As many clients that never answer a close_notify as there are threads.
SPECIFICATION Spec
CONSTANTS
    Thread = {t1, t2}
    Client = {k1, k2, k3}
PROPERTY ClientTaken
CHECK_DEADLOCK FALSE
