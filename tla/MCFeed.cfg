\* Two connections share a channel of one; three events arrive in frames that
\* explode into one, two or a mix, and the clock outlives a whole rotation.
SPECIFICATION FeedSpec
SYMMETRY Symmetry
CONSTANTS
    Frames <- SampleFrames
    Keys <- SampleKeys
    Conns = {c1, c2}
    None = None
    RotateEvery = 2
    Capacity = 1
    MaxTime = 4
    MaxEvents = 3
INVARIANTS
    FeedTypeOK
    AbsorbedCopyIsNotTheLast
    EveryEntryKept
PROPERTIES
    ImplementsFilter
    RowsSayWhatTheWireSaid
CHECK_DEADLOCK FALSE
