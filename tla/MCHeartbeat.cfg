\* The real intervals; three PINGs and a late tick each fit in 45 seconds.
CONSTANTS
    PingInterval = 10
    PongTimeout = 5
    Lag = 2
    MaxTime = 45
SPECIFICATION Spec
CHECK_DEADLOCK FALSE
INVARIANTS
    SilenceEndsSession
    DeadSocketDetected
    OneOutstanding
