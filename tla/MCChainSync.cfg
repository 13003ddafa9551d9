\* Capacities never exceeded by the tree: what the feed says is exact.
SPECIFICATION Spec
CONSTANTS
    t1 = t1  t2 = t2  t3 = t3  t4 = t4  u3 = u3  v2 = v2  v3 = v3  v4 = v4
    Block <- MCBlock
    Path <- MCPath
    Slot <- MCSlot
    Origin = Origin
    RecentCap = 5
    OrphanCap = 12
    ResumePoints = 2
    Pipeline = 2
    MaxReorgs = 2
    MaxDrops = 2
INVARIANTS
    CurrentIsRecent
    NoForkNoOrphan
    BattlesReported
PROPERTIES
    BattlesAreReal
    KeepsPromise
CHECK_DEADLOCK FALSE
