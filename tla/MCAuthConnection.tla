------------------------ MODULE MCAuthConnection ------------------------
EXTENDS AuthConnection, TLC

\* Connections and calls are interchangeable.
Symmetry == Permutations(Conns) \cup Permutations(Tasks)
=========================================================================
