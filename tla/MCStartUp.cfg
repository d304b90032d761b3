\* Every set of options on the command line and in the file.
SPECIFICATION Spec
INVARIANT ServesWhatWasAsked
CHECK_DEADLOCK FALSE
