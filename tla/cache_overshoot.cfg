\* Threads that evict the same key meet twice: the second time from a larger cache.
CONSTANTS
    Threads = {t1, t2}
    Sessions = {s1}
    Gaps = {g1, g2, g3, g4}
    None = None
    CacheMax = 2
SPECIFICATION Spec
INVARIANT CacheIsBounded
