----------------------------- MODULE MCTokenTable -----------------------------
EXTENDS TokenTable, TLC

Symmetry == Permutations(Tokens)
=============================================================================
