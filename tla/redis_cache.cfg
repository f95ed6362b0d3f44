\* Two goroutines on one key, one retry or none, one connection or two.
SPECIFICATION FairSpec
CONSTANTS
    Keys = {k1}
    Values = {v1}
    Procs = {p1, p2}
    Options <- MCOptions
    LibraryRetries = 1
    LibraryPool = 2
    Faults = {"connect", "pool", "reply"}
    None = None
INVARIANTS TypeOK
PROPERTIES CallsReturn ImplementsLateCache
