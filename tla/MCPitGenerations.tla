--------------------------- MODULE MCPitGenerations ---------------------------
\* Collectors and datasets are interchangeable.
EXTENDS PitGenerations, TLC

Symmetric == Permutations(Procs) \cup Permutations(Datasets)
===============================================================================
