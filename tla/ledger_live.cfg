\* Liveness: every request is answered, every accepted order gets on record.
CONSTANTS
    a1 = a1
    a2 = a2
    t1 = t1
    t2 = t2
    Tools = {t1}
    Tabs = {a1, a2}
    Gaps = {gap1}
    None = None
    MaxOrders = 1
    MaxRuns = 1
    MaxRefusals = 2
    LossyDisk = FALSE
SPECIFICATION FairSpec
PROPERTIES
    Answered
    PlacedReachesTrail
