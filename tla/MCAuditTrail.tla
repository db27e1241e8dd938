--------------------------- MODULE MCAuditTrail ---------------------------
EXTENDS AuditTrail, TLC

Symmetry == Permutations(Items) \union Permutations(Values)
===========================================================================
