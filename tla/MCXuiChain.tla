------------------------------ MODULE MCXuiChain ------------------------------
EXTENDS XuiChain, TLC

CONSTANTS r1, r2
One == {r1}
Two == {r1, r2}
SymWorkers == Permutations(Two)

\* Two chains of two channels; what each kind of event, and all of them, may add up to is
\* a bound.
Bound(all, create, delete, channel, unclient, export, fault, drift) ==
  [all |-> all, create |-> create, delete |-> delete, channel |-> channel, unclient |-> unclient,
   export |-> export, fault |-> fault, drift |-> drift]

MCThree   == Bound(3, 2, 1, 1, 1, 1, 1, 1)
MCFour    == Bound(4, 2, 1, 1, 1, 1, 1, 1)
MCSafe    == Bound(9, 2, 1, 1, 1, 1, 1, 0)
MCChannel == Bound(9, 2, 0, 2, 0, 0, 0, 0)
MCOrphan  == Bound(9, 1, 0, 0, 1, 1, 0, 0)
MCGone    == Bound(9, 1, 1, 0, 0, 0, 0, 0)
===============================================================================
