--------------------------- MODULE MCResourceCache ----------------------------
\* ResourceCache for TLC: the configurations Cache*.cfg give the constants.
EXTENDS ResourceCache, TLC

\* Windows, and the calls of all windows alike, are interchangeable.
Symmetry == Permutations(Windows) \cup Permutations(Slots)
=============================================================================
