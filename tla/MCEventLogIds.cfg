\* A restart whose window leaves published events out.
SPECIFICATION LogSpec
CONSTANTS
    t1 = t1  t2 = t2  t3 = t3  v3 = v3  v4 = v4
    Block <- MCBlock
    Path <- MCPath
    Slot <- MCSlot
    Origin = Origin
    RecentCap = 5
    OrphanCap = 5
    ResumePoints = 2
    Pipeline = 1
    MaxReorgs = 1
    MaxDrops = 0
    Retention = 2
    Backfill = 2
    TearKinds = {}
    MaxClock = 5
    MaxCrashes = 2
    MaxTears = 0
INVARIANT IdsAreUnique
CHECK_DEADLOCK FALSE
