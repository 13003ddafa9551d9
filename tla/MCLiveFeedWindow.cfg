\* The same ring, no faults.
SPECIFICATION Spec
CONSTANTS
    Restored <- BySlot
    ChannelCap = 1
    SnapshotSize = 1
    PageSize = 2
    SocketCap = 1
    ParkCap = 7
    MaxId = 4
    MaxTrim = 0
    MaxDrops = 0
    MaxFailures = 0
    MaxScrolls = 0
INVARIANT ExhaustedCoversWindow
CHECK_DEADLOCK FALSE
