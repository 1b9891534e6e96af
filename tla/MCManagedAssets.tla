--------------------------- MODULE MCManagedAssets ---------------------------
EXTENDS ManagedAssets, TLC

\* Requests are interchangeable.
AssetSymmetry == Permutations(Requests)
=============================================================================
