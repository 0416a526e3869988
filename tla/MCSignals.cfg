SPECIFICATION Spec
CONSTANTS
    Threads = {1, 2}
    Main = 1
    MAX_SENDS = 2
    Repertoires <- All
INVARIANTS MaskKept
PROPERTIES  PendingTaken
CHECK_DEADLOCK FALSE
