\* Restarts at any point, failing counter saves, writes that throw, stored or
\* not. A database that answers, and polling tabs.
CONSTANTS
  Admins = {a1, a2}
  Tabs = {t1}
  Settings = {off, on}
  Default = off
  MaxVersion = 3
  Faults = {"crash", "saveFails", "tornWrite"}
SPECIFICATION FairSpec
INVARIANTS TypeOK PollerCurrent SettingsSurviveRestart
PROPERTIES TabsConverge
