\* One market is listed when the tracker starts, two open later; pages of two markets,
\* so that a market is passed over when another closes between two requests; one
\* failure, crash or restart anywhere.
CONSTANTS
    Markets = {m1, m2, m3}
    Listed = {m1}
    PageSize = 2
    MaxStart = 2
    MaxFaults = 1
SPECIFICATION TrackerFairSpec
CHECK_DEADLOCK FALSE
INVARIANT DroppedIsTold
PROPERTIES
    CacheCatchesUp
    AnnouncementsCatchUp
