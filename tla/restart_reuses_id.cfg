\* A tab left open over a restart approves another order.
CONSTANTS
    a1 = a1
    a2 = a2
    t1 = t1
    t2 = t2
    Tools = {t1}
    Tabs = {a1}
    Gaps = {gap1}
    None = None
    MaxOrders = 1
    MaxRuns = 2
    MaxRefusals = 0
    LossyDisk = FALSE
SPECIFICATION Spec
INVARIANT SeenIsPlaced
