\* The audit trail (cap 0) and a diagnostic stream that rotates; a line of 7
\* characters is longer than the cap of 6.
CONSTANTS
    Writers = {w1, w2}
    Caps = {0, 6}
    Lengths = {3, 7}
    Extras = {0, 1}
    None = None
    Torn = Torn
    Split = Split
    MaxRecords = 4
    MaxTears = 1
SPECIFICATION Spec
INVARIANTS
    TypeOK
    DiskIsRecent
    DiskIsBounded
    ReadIsOrdered
    AuditReadIsComplete
    TearCostsOne
    FollowMissesOnlyLate
PROPERTIES
    RollsOnlyFull
