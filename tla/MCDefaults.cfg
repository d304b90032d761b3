\* The message for the logger file follows the credentials file.
SPECIFICATION Spec
INVARIANT DefaultsAnnounced
CHECK_DEADLOCK FALSE
