SPECIFICATION FairSpec
CONSTANTS
    u1 = u1  u2 = u2  k1 = k1  k2 = k2  p1 = p1  p2 = p2  c1 = c1  c2 = c2
    a = a  b = b  j = j  seven = seven  nan = nan  nothing = nothing
    None = None  Empty = Empty
    Kind <- MCKind  Unencodable <- MCUnencodable  Blank <- MCBlank  Parses <- MCParses
    Users = {u1}
    Keys = {k1}
    Categories = {c1}
    Ids = {a, b}
    Definitions <- OnlyPlain
    InitialDefs <- DefinedPlain
    Procs = {p1, p2}
    HasCache = TRUE
    HasEncryption = FALSE
    Backend = "memory"
    CacheFaults = {"get", "set", "delete"}
    StorageFaults = {}
    CacheDurable = FALSE
    Ops = {"get", "set", "delete", "getall", "bycategory", "crash"}
INVARIANTS CoherentUnlessDisturbed
PROPERTIES ImplementsService Converges
