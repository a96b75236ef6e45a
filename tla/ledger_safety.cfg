\* Two tool calls at once, two tabs, no restart, a disk that works.
CONSTANTS
    a1 = a1
    a2 = a2
    t1 = t1
    t2 = t2
    Tools = {t1, t2}
    Tabs = {a1, a2}
    Gaps = {gap1}
    None = None
    MaxOrders = 2
    MaxRuns = 1
    MaxRefusals = 1
    LossyDisk = FALSE
SPECIFICATION Spec
SYMMETRY Symmetry
INVARIANTS
    TypeOK
    PlacedOnce
    LedgerMatchesStoreLink
    TrailIsFinal
    TrailIsComplete
    SubmittedShowsDelivery
PROPERTIES
    DecisionsStand
    WarningMissesOnlyNewer
    TrailIsTrueWhenWritten
