\* Two markets on one pair of connections: markets come and go while the
\* connections go up and down; both are collected at the end.
CONSTANTS
    Markets = {m1, m2}
    Copies = {1}
    MaxAssets = 4
    MailboxSize = 1
    MaxConns = 4
    MaxStatus = 3
SPECIFICATION MonitorFairSpec
CHECK_DEADLOCK FALSE
INVARIANTS
    MonitorTypeOK
    HealthKnown
PROPERTY CallsReturn
