SPECIFICATION FairSpec
CONSTANTS
    Keys = {k1}
    Values = {v1}
    Procs = {p1, p2, p3}
    GC = gc
    None = None
INVARIANTS TypeOK ClosedOnReturn
PROPERTIES CallsReturn SweeperEnds ImplementsCache
