\* Two admins, one of them the head admin; three saves after each other.
CONSTANTS
  Admins = {a1, a2}
  HeadAdmins = {a1}
  Grants <- MCGrants
  Snapshots <- MCSnapshots
  Fields = {model, fiyat}
  Price = fiyat
  Values = {1, 2}
  Null = Null
  RuleIds = {p, q}
  BatchItems <- MCBatchItems
  BatchEdit <- MCBatchEdit
  MaxRevision = 3
  p = p
  q = q
  model = model
  fiyat = fiyat
SPECIFICATION Spec
INVARIANTS TypeOK AuditTellsChange ApprovedKnowingly RulesResolve PricesArePublished
PROPERTIES NoLostSave PermissionsCoverChange
