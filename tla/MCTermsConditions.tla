-------------------------- MODULE MCTermsConditions --------------------------
EXTENDS TermsConditionsRegister, TLC

Sym == Permutations(Threads) \cup Permutations(Users)
=============================================================================
