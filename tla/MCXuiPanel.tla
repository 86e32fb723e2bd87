------------------------------ MODULE MCXuiPanel ------------------------------
EXTENDS XuiPanel, TLC

CONSTANTS r1, r2
Two        == {r1, r2}
One        == {r1}
InbOne     == <<1, 1>>
SymWorkers == Permutations(Two)

\* What each kind of event may add up to is a bound.
Bound(unregister, add, delete, delinbound, export, sync, hand, node, fault) ==
  [import |-> 1 + unregister, unregister |-> unregister, add |-> add, delete |-> delete,
   delinbound |-> delinbound, export |-> export, sync |-> sync, hand |-> hand, node |-> node,
   fault |-> fault]

MCSafe   == Bound(1, 1, 1, 1, 1, 1, 1, 1, 1)
MCTwins  == Bound(0, 1, 0, 0, 1, 2, 1, 0, 0)
MCBlank  == Bound(0, 0, 1, 0, 1, 0, 1, 0, 0)
===============================================================================
