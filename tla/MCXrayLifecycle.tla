-------------------------- MODULE MCXrayLifecycle ---------------------------
(* Instances of XrayLifecycle for TLC. *)
EXTENDS XrayLifecycle, TLC

CONSTANTS o1, o2, o3, x1, x2, x3, x4

OneCall == {o1}
TwoCalls == {o1, o2}
ThreeCalls == {o1, o2, o3}
ThreeRuns == {x1, x2, x3}
FourRuns == {x1, x2, x3, x4}

AllKinds == Kind
Lifecycle == {"start", "stop", "restart", "reload"}
StopOnly == {"stop"}
StartOnly == {"start"}
StopReload == {"stop", "reload"}
StartStop == {"start", "stop"}
StartFailover == {"start", "failover"}
RotateOnly == {"rotate"}

AllConfs == Conf
Switching == {c \in Conf : c.auto /\ ~c.bypass}
Plain == {[kill |-> FALSE, auto |-> TRUE, bypass |-> FALSE]}
KillSwitchNoRestart == {[kill |-> TRUE, auto |-> FALSE, bypass |-> FALSE]}
=============================================================================
