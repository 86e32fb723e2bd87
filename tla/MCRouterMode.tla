--------------------------- MODULE MCRouterMode ----------------------------
(* Instances of RouterMode for TLC. *)
EXTENDS RouterMode, TLC

CONSTANTS r1, r2

\* A bridged LAN with an access point; a dialled uplink and a wired LAN.
Bridged == {"bridge", "dhcp", "wifi"}
Dialled == {"wan", "dhcp"}

OneRequest == {r1}
TwoRequests == {r1, r2}
TwoConfigs == {Dialled, Bridged}
OneConfig == {Bridged}
NoPiece == {}
Sidecars == {"dhcp", "wifi"}
RefusalsOnly == {"ok", "refused"}
AllVerdicts == {"ok", "refused", "error"}
AlwaysOk == {"ok"}
=============================================================================
