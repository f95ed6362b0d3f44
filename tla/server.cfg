\* Two requests and two signals, at any time; the key main defines and another one.
SPECIFICATION FairSpec
CONSTANTS
    Keys = {theme, other}
    Versions = {light}
    BuiltIn = {theme}
    Requests = {r1, r2}
    MaxSignals = 2
    Faults = {"bind", "accept", "network"}
    None = None
INVARIANTS TypeOK ShutdownInOrder DefinedIsFound
PROPERTIES SignalEnds NoIdleProcess
CHECK_DEADLOCK FALSE
