\* Two calls for one store contend for the provider's lock while IT writes.
CONSTANTS
    Calls = {c1, c2}
    Stores = {s1}
    Keys = {k1, k2}
    None = None
    MaxWrites = 3
SPECIFICATION FairSpec
INVARIANTS
    TypeOK
    StampTellsTruth
    ExpiredIsHonest
    MissingIsHonest
PROPERTIES
    CacheNeverGoesBack
    CallsEnd
