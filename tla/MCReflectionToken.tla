------------------------- MODULE MCReflectionToken -------------------------
EXTENDS ReflectionToken, TLC

Symmetry == Permutations(Users)
=============================================================================
