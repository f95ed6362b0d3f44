\* Two goroutines on a user with two keys.
SPECIFICATION Spec
CONSTANTS
    Users = {u1}
    Keys = {k1, k2}
    Values = {v1}
    Categories = {c1, c2}
    Procs = {p1, p2}
    None = None
SYMMETRY Symmetry
INVARIANTS TypeOK Isolated NoEmptyMaps
PROPERTIES ImplementsStorage
