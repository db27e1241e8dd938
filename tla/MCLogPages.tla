---------------------------- MODULE MCLogPages ----------------------------
EXTENDS LogPages, TLC

Symmetry == Permutations(Batches \ RuleBatches)
===========================================================================
