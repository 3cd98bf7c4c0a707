\* Three hours of at most two rows, one failure and one restart at any point.
CONSTANTS
    Lag = 1
    MaxHour = 2
    MaxRows = 2
    MaxFailures = 1
    MaxCrashes = 1
SPECIFICATION FairSpec
CHECK_DEADLOCK FALSE
INVARIANTS
    ObjectsComplete
    LoopLeavesNoHole
    BackfillExports
PROPERTY NewHourExported
