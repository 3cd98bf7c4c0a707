\* Five events through channels of one or two and batches of two; two faults
\* and two shutdowns anywhere.
CONSTANTS
    QueueA = 2
    BatchMax = 2
    QueueB = 1
    BatchSize = 2
    Bad = {3}
    MaxEvents = 5
    MaxFaults = 2
    MaxStops = 2
SPECIFICATION FairSpec
CHECK_DEADLOCK FALSE
INVARIANTS
    TypeOK
    InOrderOnce
    NothingLost
PROPERTIES
    StoredAtLast
    ShutdownEnds
