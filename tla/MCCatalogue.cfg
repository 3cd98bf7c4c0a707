\* One market is listed when the tracker starts, the other opens later, with the same
\* startDate or a later one, so that the watermark moves.  One fault; or a failed
\* acknowledgement and the end of the collector.  Two entries not acknowledged: the
\* announcement of a market and that of its resolution in one reply.
CONSTANTS
    Markets = {m1, m2}
    Listed = {m1}
    PageSize = 1
    MaxStart = 2
    MaxFaults = 2
    ReadCount = 2
    MaxUnread = 2
SPECIFICATION Spec
CONSTRAINTS
    FewUnread
    FewFaults
CHECK_DEADLOCK FALSE
INVARIANTS
    TypeOK
    PoolFollowsStream
    PoolFollowsGamma
