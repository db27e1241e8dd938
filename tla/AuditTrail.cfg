\* Two admins, the settings and two items; failing counter saves,
\* writes that throw and events that are not recorded.
CONSTANTS
  Admins = {a1, a2}
  HeadAdmins = {a1}
  Items = {i1, i2}
  Values = {v1, v2}
  Absent = Absent
  Deleted = Deleted
  MaxVersion = 2
  MaxWrites = 2
  Faults = {"crash", "saveFails", "tornWrite"}
SPECIFICATION Spec
SYMMETRY Symmetry
INVARIANTS TypeOK RevokedAtOnce EventsTellWrites ChangesAreLogged
