\* Three markets on connections of four assets: a pair is filled, left part-filled,
\* spilled over and collected; the commands of every call wait in mailboxes of one.
SPECIFICATION Spec
SYMMETRY Symmetry
CONSTANTS
    Markets = {m1, m2, m3}
    Copies = {1}
    MaxAssets = 4
    MailboxSize = 1
    MaxConns = 4
INVARIANTS
    TypeOK
    TwoConnections
    HandlesMatchIndex
    TasksConverge
    CapacityRespected
    Pass1AlwaysFits
    NoEmptyConnection
PROPERTIES
    NoMigration
CHECK_DEADLOCK FALSE
