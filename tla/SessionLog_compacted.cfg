SPECIFICATION SessionSpec
CONSTANTS
    MaxMessages = 6
    MaxResumes = 2
INVARIANT CompactedTurnsLogged
CHECK_DEADLOCK FALSE
