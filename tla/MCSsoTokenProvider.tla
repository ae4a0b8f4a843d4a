------------------------- MODULE MCSsoTokenProvider --------------------------
\* SsoTokenProvider for TLC: the configurations Sso*.cfg give the constants.
EXTENDS SsoTokenProvider, TLC

\* Windows are interchangeable, and so are the calls of all windows alike.
Symmetry == Permutations(Windows) \cup Permutations(Slots)
=============================================================================
