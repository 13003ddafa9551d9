\* A ring that boot sorted by slot; lag, a lost socket, a failed fetch, trimming.
SPECIFICATION FairSpec
CONSTANTS
    Restored <- BySlot
    ChannelCap = 1
    SnapshotSize = 1
    PageSize = 2
    SocketCap = 1
    ParkCap = 7
    MaxId = 6
    MaxTrim = 1
    MaxDrops = 1
    MaxFailures = 1
    MaxScrolls = 1
INVARIANTS
    TypeOK
    NothingFallsBetween
    WindowIsCovered
PROPERTY CatchesUp
CHECK_DEADLOCK FALSE
