\* s2 starts as a value that no count has.
CONSTANTS
    Publishes = 2
    Garbage = {99}
SPECIFICATION SnapshotSpec
CHECK_DEADLOCK FALSE
INVARIANT WholeCopies
