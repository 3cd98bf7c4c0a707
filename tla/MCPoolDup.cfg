SPECIFICATION Spec
SYMMETRY Symmetry
CONSTANTS
    Markets = {m1}
    Copies = {1, 2}
    MaxAssets = 2
    MailboxSize = 2
    MaxConns = 6
INVARIANTS
    HeldByExactlyTwo
CHECK_DEADLOCK FALSE
