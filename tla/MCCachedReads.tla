--------------------------- MODULE MCCachedReads ---------------------------
EXTENDS CachedReads, TLC

Symmetry == Permutations(Readers)
============================================================================
