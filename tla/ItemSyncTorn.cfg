\* A write that throws after it changed some of its rows.
CONSTANTS
  Admins = {a1}
  Items = {i1, i2}
  Clients = {c1, c2}
  Values = {v1, v2}
  Absent = Absent
  Deleted = Deleted
  NoFetch = NoFetch
  NoValue = NoValue
  MaxVersion = 2
  Faults = {"tornWrite"}
SPECIFICATION Spec
INVARIANTS ClientCurrent
