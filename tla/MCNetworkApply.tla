---- MODULE MCNetworkApply ----
(* Small instances of NetworkApply. *)
EXTENDS NetworkApply

Debian == [manager |-> "ifupdown", dhcpcd |-> FALSE]
Raspbian == [manager |-> "ifupdown", dhcpcd |-> TRUE]
Desktop == [manager |-> "networkmanager", dhcpcd |-> FALSE]

AllHosts == {Debian, Raspbian, Desktop}
OnlyDebian == {Debian}
Router == [gw |-> "router", dns |-> {"router"}]
Addresses == {"router", "other", "self"}
Resolvers == {"router", "isp", "f1", "f2"}
\* The gateway alone, the servers alone, both, and what is refused.
Bodies == {[gw |-> "other", dns |-> None], [gw |-> None, dns |-> {"isp"}],
           [gw |-> "other", dns |-> {"isp"}], [gw |-> "self", dns |-> None],
           [gw |-> None, dns |-> None]}
OneFallback == {{}, {"f1"}}
TwoFallbacks == {{}, {"f1"}, {"f1", "f2"}}
====
