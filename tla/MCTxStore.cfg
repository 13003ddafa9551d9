\* Two crashes and a failed write or a block handled twice, while the
\* backfill and a lookup run.
SPECIFICATION FairSpec
CONSTANTS
    Tip = 3
    Retention = 1
    CacheCap = 1
    Margin = 0
    MaxCrashes = 2
    MaxMishaps = 1
INVARIANTS
    TypeOK
    FindIsRight
    BodiesKept
    NoBodyForgotten
PROPERTIES
    Refills
CHECK_DEADLOCK FALSE
