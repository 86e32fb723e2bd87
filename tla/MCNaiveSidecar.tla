--------------------------- MODULE MCNaiveSidecar ---------------------------
EXTENDS NaiveSidecar, TLC

CONSTANTS n1, n2, r1, r2

OneNode == {n1}
TwoNodes == {n1, n2}
OneRequest == {r1}
TwoRequests == {r1, r2}
TwoVers == {1, 2}
OneVer == {1}
OnePort == {1}
TwoPorts == {1, 2}

Symmetry == Permutations(TwoRequests) \cup Permutations(TwoNodes)
=============================================================================
