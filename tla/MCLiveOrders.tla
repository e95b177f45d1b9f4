---------------------------- MODULE MCLiveOrders ----------------------------
EXTENDS LiveOrders, TLC

Symmetry == Permutations(Request) \cup Permutations(Syncer)
=============================================================================
