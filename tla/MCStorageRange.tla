---------------------------- MODULE MCStorageRange ----------------------------
\* StorageTransaction and its range on three ordered keys and two values, for TLC.
EXTENDS StorageRange, TLC
CONSTANTS v1, v2
MCKeys == 1 .. 3
MCValues == {v1, v2}
Symmetry == Permutations(MCValues)
=============================================================================
