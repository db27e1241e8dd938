\* Restarts at any point and failing reads; every completed write is clean.
CONSTANTS
  Admins = {a1, a2}
  Items = {i1, i2}
  Clients = {c1, c2}
  Values = {v1, v2}
  Absent = Absent
  Deleted = Deleted
  NoFetch = NoFetch
  NoValue = NoValue
  MaxVersion = 2
  Faults = {"crash", "readFails"}
SPECIFICATION Spec
SYMMETRY Symmetry
INVARIANTS TypeOK ClientCurrent CacheCurrent EmptyNotRetained IdleAnnounced
PROPERTIES ImplementsFeed
