\* Capacities smaller than a fork is deep: eviction, a forgotten orphan, a
\* single resume point; liveness when node and link settle.
SPECIFICATION FairSpec
CONSTANTS
    t1 = t1  t2 = t2  t3 = t3  t4 = t4  u3 = u3  v2 = v2  v3 = v3  v4 = v4
    Block <- MCBlock
    Path <- MCPath
    Slot <- MCSlot
    Origin = Origin
    RecentCap = 2
    OrphanCap = 1
    ResumePoints = 1
    Pipeline = 2
    MaxReorgs = 2
    MaxDrops = 2
INVARIANTS
    ChainInv
    RecentIsChain
    EndsAtPosition
PROPERTIES
    Converges
    TipSettles
CHECK_DEADLOCK FALSE
