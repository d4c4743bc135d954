------------------------ MODULE MCRecommendationService ------------------------
\* One audit that admits both symbols.
EXTENDS RecommendationService, TLC

MCAllowed == [p \in Pools |-> Symbols]
Symmetry == Permutations(Runs) \cup Permutations(Symbols)
=============================================================================
