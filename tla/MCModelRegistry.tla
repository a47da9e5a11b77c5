-------------------------- MODULE MCModelRegistry --------------------------
EXTENDS ModelRegistry, TLC
CONSTANTS c1, c2, c3, p1, p2, m1, m2, r1

RegistrySymmetry ==
  Permutations(Clients) \cup Permutations(Providers) \cup Permutations(Models)
=============================================================================
