------------------------ MODULE MCRecommendationLock ------------------------
\* Model values and symmetry for RecommendationLock.
EXTENDS RecommendationLock, TLC

RunSymmetry == Permutations(Runs)
=============================================================================
