\* Two goroutines on a user with two keys, a pool of two connections, either driver.
SPECIFICATION FairSpec
CONSTANTS
  u1 = u1
  k1 = k1
  k2 = k2
  v1 = v1
  c1 = c1
  bad = bad
  p1 = p1
  p2 = p2
  d1 = d1
  d2 = d2
  None = None
  Shared = Shared
  Users = {u1}
  Keys = {k1, k2}
  Values = {v1, bad}
  Unencodable = {bad}
  Categories = {c1}
  Procs = {p1, p2}
  Conns = {d1, d2}
  Drivers = {"sqlite", "postgres"}
  Files = {"prefs.db"}
  Options <- MCOptions
  Faults = {"open", "connect", "error", "indefinite", "row", "stream", "cancel"}
INVARIANTS TypeOK NothingLeaks ConstructorSound
PROPERTIES CallsReturn ImplementsStorage
CHECK_DEADLOCK FALSE
