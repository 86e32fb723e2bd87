---- MODULE MCServerDeploy ----
(* Small instances of ServerDeploy. *)
EXTENDS ServerDeploy, TLC

CONSTANTS i1, i2, q1, q2

OneSlot == {i1}
TwoSlots == {i1, i2}
OneRequest == {q1}
TwoRequests == {q1, q2}
NewPort == {2222}
BothPorts == {22, 2222}

Symmetry == Permutations(Slots) \cup Permutations(Requests)
====
