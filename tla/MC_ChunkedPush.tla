--------------------------- MODULE MC_ChunkedPush ---------------------------
EXTENDS ChunkedPush, TLC

\* Pushes and Paths are model values that no definition tells apart.
Symmetry == Permutations(Pushes) \cup Permutations(Paths)
=============================================================================
