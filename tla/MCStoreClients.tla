---------------------------- MODULE MCStoreClients ----------------------------
EXTENDS StoreClients, TLC

MCCursors == {<<1, 0>>, <<1, 1>>}
Symmetry == Permutations(Proc)
=============================================================================
