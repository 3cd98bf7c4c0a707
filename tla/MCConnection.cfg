SPECIFICATION NetworkFairSpec
CONSTANTS
    Assets = {a1, a2}
    MailboxSize = 2
    MaxDelay = 60
    MaxCommands = 4
    MaxBreaks = 2
INVARIANTS
    TypeOK
    NoCommandLost
    ServerConverges
    OneMarketFrame
CHECK_DEADLOCK FALSE
PROPERTIES
    SubscriptionTakesHold
    DroppedConnectionEnds
