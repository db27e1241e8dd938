\* A restart between a setting and its counter save.
CONSTANTS
  Admins = {a1}
  Tabs = {t1}
  Settings = {off, on}
  Default = off
  MaxVersion = 2
  Faults = {"crash"}
SPECIFICATION Spec
INVARIANTS StatusCurrent
