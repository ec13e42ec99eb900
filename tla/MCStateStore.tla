---------------------------- MODULE MCStateStore ----------------------------
EXTENDS StateStoreDurable, TLC

Sym == Permutations(Threads) \cup Permutations(Slices)
=============================================================================
