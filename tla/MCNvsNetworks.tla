--------------------------- MODULE MCNvsNetworks ---------------------------
\* Small instances of NvsNetworks for TLC: more names than a list can hold.
EXTENDS NvsNetworks, TLC

Symmetry == Permutations(Names) \cup Permutations(Secrets)
=============================================================================
