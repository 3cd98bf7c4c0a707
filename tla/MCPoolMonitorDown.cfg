CONSTANTS
    Markets = {m1}
    Copies = {1}
    MaxAssets = 2
    MailboxSize = 1
    MaxConns = 5
    MaxStatus = 4
SPECIFICATION MonitorSpec
CHECK_DEADLOCK FALSE
INVARIANT DownMeansBothDown
