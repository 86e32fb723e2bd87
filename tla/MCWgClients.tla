---------------------------- MODULE MCWgClients ----------------------------
EXTENDS WgClients, TLC

CONSTANTS phone, laptop, r1, r2, s1, s2

TwoNames == {phone, laptop}
OneRequest == {r1}
TwoRequests == {r1, r2}
TwoSlots == {s1, s2}

\* Nothing tells two requests, or two rows of the node table, apart.
Symmetry == Permutations(TwoRequests) \cup Permutations(TwoSlots)
=============================================================================
