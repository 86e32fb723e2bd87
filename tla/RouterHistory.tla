--------------------------- MODULE RouterHistory ----------------------------
(***************************************************************************)
(* RouterMode with history variables, for what the documentation says of   *)
(* confirmations and teardowns: whether the operator has confirmed what is *)
(* saved cannot be read off the settings rows alone.                       *)
(***************************************************************************)
EXTENDS RouterMode

VARIABLES
  unproven,   \* the saved router settings were changed since the last confirmation
  confirmed,  \* the operator confirmed and has changed nothing since; "late" when
              \* the watchdog was already reverting
  torn        \* a teardown to gateway returned and no setting was written since

hvars == <<vars, unproven, confirmed, torn>>

Confirming == /\ pending # "none" /\ pending' = "none"
              /\ pc' = pc /\ left' = left

Saving == \E r \in Reqs : pc[r] = "commit" /\ pc'[r] = "arm"

Restoring == left'["restore"] # left["restore"]

\* The operator touches the settings: a PATCH that changes them or is answered
\* with a refusal, or a restore.
Touching == \/ \E r \in Reqs : pc[r] \in {"commit", "arm", "disarm", "giveup"} /\ pc'[r] # pc[r]
            \/ Restoring

Reverting == ret["watchdog"] = "reverted" \/ pc["watchdog"] \in RevertSteps

TornDown == \E p \in Procs : pc[p] = "t_bridge" /\ pc'[p] \in {"disarm", "set_gateway"}

HInit == Init /\ unproven = FALSE /\ confirmed = "no" /\ torn = FALSE

HNext ==
  /\ Next
  /\ unproven' = IF mode' = "gateway" \/ Confirming THEN FALSE ELSE unproven \/ Saving
  /\ confirmed' = IF Confirming /\ mode = "router"
                  THEN IF Reverting THEN "late" ELSE "clean"
                  ELSE IF Confirming \/ Touching THEN "no" ELSE confirmed
  /\ torn' = IF TornDown THEN TRUE
             ELSE torn /\ ~Restoring /\ \A r \in Reqs : pc[r] = "commit" => pc'[r] = "commit"

HSpec == HInit /\ [][HNext]_hvars

\* The history variables never hold a step back: RouterMode's fairness carries over.
HFairSpec == HSpec /\ Fairness

\* What the operator confirmed in time is never reverted behind his back, by the
\* watchdog or by a restart: only he leaves router mode.
ConfirmedIsKept == confirmed = "clean" => mode = "router"

\* README: "PiTun therefore reverts to gateway unless you confirm the network
\* still works, and an unconfirmed change never survives a reboot."
UnconfirmedNeverBoots == pc["boot"] = "start" => ~(unproven /\ "nat" \in up)

\* POST /network/router-mode/confirm: "Tell the watchdog the network still works,
\* cancelling the auto-revert": a confirmation that was accepted holds.
ConfirmCancelsRevert == confirmed # "no" => mode = "router"

\* teardown(): "Return the box to gateway mode. Safe to call at any time."  With no
\* setting written since it returned, the box is a gateway once all is quiet.
TeardownHolds == torn /\ Quiet => GatewayBox

=============================================================================
