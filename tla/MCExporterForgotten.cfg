CONSTANTS
    Lag = 1
    MaxHour = 2
    MaxRows = 1
    MaxFailures = 0
    MaxCrashes = 0
SPECIFICATION Spec
CHECK_DEADLOCK FALSE
INVARIANT NoHourForgotten
