SPECIFICATION FairSpec
CONSTANTS
  Items = {i1}
  Clients = {c1}
  NoList = NoList
  MaxVersion = 2
  MaxWrites = 2
CONSTRAINT BeforeStaleWrite
INVARIANTS TypeOK ClientCurrent SettingsKept NoCutoff
PROPERTIES DeploymentEnds
