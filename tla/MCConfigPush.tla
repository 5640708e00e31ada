----------------------------- MODULE MCConfigPush -----------------------------
EXTENDS ConfigPush, TLC

Symmetry == Permutations(Hosts) \cup Permutations(Streams)
=============================================================================
