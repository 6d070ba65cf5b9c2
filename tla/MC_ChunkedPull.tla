--------------------------- MODULE MC_ChunkedPull ---------------------------
EXTENDS ChunkedPull, TLC

\* Pulls, Sources, Stems and Exts are model values that no definition tells apart.
Symmetry == Permutations(Pulls) \cup Permutations(Sources) \cup Permutations(Exts)
=============================================================================
