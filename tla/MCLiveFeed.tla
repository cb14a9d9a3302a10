------------------------- MODULE MCLiveFeed -------------------------
\* LiveFeed on the instances that the MCLiveFeed_*.cfg give.
EXTENDS LiveFeed, TLC

\* Bodies are only compared with each other.
BodySymmetry == Permutations(Bodies)
=============================================================================
