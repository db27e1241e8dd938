\* Counter saves that fail, so that a version is handed out twice; a fair
\* database and a polling client, no restarts.
CONSTANTS
  Admins = {a1, a2}
  Items = {i1, i2}
  Clients = {c1}
  Values = {v1}
  Absent = Absent
  Deleted = Deleted
  NoFetch = NoFetch
  NoValue = NoValue
  MaxVersion = 2
  Faults = {"saveFails"}
SPECIFICATION FairSpec
PROPERTIES WritesSettle ClientsCatchUp
