\* Two bulk edits and a save of rules, up to two rows each, one group to a
\* page.
CONSTANTS
  Batches = {b1, b2, b3}
  RuleBatches = {b3}
  MaxRows = 2
  PageSize = 1
  MaxTime = 2
SPECIFICATION Spec
SYMMETRY Symmetry
INVARIANTS TypeOK WalkSeesAll
