\* Two agents read from two threads, one gap more than the cache holds.
CONSTANTS
    Threads = {t1, t2}
    Sessions = {s1, s2}
    Gaps = {g1, g2, g3, g4}
    None = None
    CacheMax = 3
SPECIFICATION Spec
SYMMETRY Symmetry
INVARIANTS
    TypeOK
    
    StaysFull
