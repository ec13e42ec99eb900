---------------------------- MODULE MCImageBuild ----------------------------
EXTENDS ImageBuild, TLC

Sym == Permutations(Threads)
=============================================================================
