---------------------------- MODULE MCItemSync ----------------------------
EXTENDS ItemSync, TLC

Symmetry ==
  Permutations(Admins) \union Permutations(Items) \union
  Permutations(Clients) \union Permutations(Values)
===========================================================================
