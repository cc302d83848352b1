---------------------------- MODULE MCLpRewards ----------------------------
EXTENDS LpRewards, TLC

Symmetry == Permutations(Owners)
=============================================================================
