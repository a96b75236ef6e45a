\* Restarts and lost audit records: the order number of one run comes back in the next.
CONSTANTS
    a1 = a1
    a2 = a2
    t1 = t1
    t2 = t2
    Tools = {t1}
    Tabs = {a1, a2}
    Gaps = {gap1}
    None = None
    MaxOrders = 1
    MaxRuns = 2
    MaxRefusals = 1
    LossyDisk = TRUE
SPECIFICATION Spec
SYMMETRY Symmetry
INVARIANTS
    LedgerInv
    TrailStaysTrue
PROPERTIES
    ImplementsApproval
