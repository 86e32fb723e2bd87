------------------------------ MODULE ConfigGen ------------------------------
(***************************************************************************)
(* What the tables of the database say to xray: the outbounds that         *)
(* generate_config builds and how they dial through each other, the        *)
(* balancers, the routing rules in their order and the DNS servers; and    *)
(* what the route explainer says of the same tables.                       *)
(*                                                                         *)
(* d is the database: d.node, d.rule, d.group, d.circle, d.active, d.mode, *)
(* d.peopled (the routing sets that have a device) and d.dns.              *)
(***************************************************************************)
EXTENDS Naturals, Sequences, FiniteSets, FiniteSetsExt, SequencesExt, Functions

CONSTANTS
  Ids,       \* node ids
  Servers,   \* what a node may point at: protocol, address, port and credentials
  WireGuard, \* the servers that speak WireGuard
  Groups,    \* ids of balancer groups
  CircleIds,   \* ids of node circles
  Sets,      \* ids of routing sets
  MaxDepth   \* _MAX_CHAIN_DEPTH

ASSUME IdsAssumption == /\ IsFiniteSet(Ids) /\ Ids # {} /\ Ids = 1..Cardinality(Ids)
                        /\ Groups \subseteq Nat \ {0} /\ IsFiniteSet(Groups)
                        /\ CircleIds \subseteq Nat \ {0}
                        /\ Sets \subseteq Nat \ {0} /\ IsFiniteSet(Sets)
                        /\ WireGuard \subseteq Servers
ASSUME DepthAssumption == MaxDepth \in Nat \ {0}

None == [server |-> "none"]

IsRow(d, n) == n \in Ids /\ d.node[n] # None

\* A member of all_nodes, which the callers load with enabled == True.
Live(d, n) == IsRow(d, n) /\ d.node[n].on

\* A finite set of numbers in its order, and the elements of s at the places I.
Ascending(S) == [k \in 1..Cardinality(S) |-> CHOOSE x \in S : Cardinality({y \in S : y <= x}) = k]
Picked(s, I) == LET at == Ascending(I) IN [k \in 1..Cardinality(I) |-> s[at[k]]]

\* The first element of s that is in H.
FirstIn(s, H) == s[Min({i \in DOMAIN s : s[i] \in H})]

-----------------------------------------------------------------------------
(* Outbounds.                                                              *)

\* The relay that node n dials through, 0 for none: itself, a missing or disabled node
\* and a WireGuard node are skipped with a warning.
Relay(d, n) ==
  LET m == d.node[n].chain
  IN IF m # n /\ Live(d, m) /\ d.node[m].server \notin WireGuard THEN m ELSE 0

\* The nodes _apply_chain visits from n: it stops at a node it has seen, and at its depth.
Path(d, n) ==
  LET Trail[k \in 0..MaxDepth] ==
        IF k = 0 THEN <<n>>
        ELSE LET s == Trail[k - 1]
                 m == Relay(d, Last(s))
             IN IF m = 0 \/ m \in Range(s) THEN s ELSE Append(s, m)
  IN Trail[MaxDepth]

\* Mutant: only the first hop is wired; a deeper relay dials direct.
WireMutant(d, w, n) ==
  LET p == Path(d, n)
  IN [built |-> w.built \cup Range(p),
      dials |-> [i \in Ids |-> IF i = n /\ Len(p) > 1 THEN p[2] ELSE w.dials[i]]]

\* _apply_chain: every node on the path has an outbound, which points at the next one.
\* Outbounds that are there already are shared, and pointed again.
Wire(d, w, n) ==
  LET p == Path(d, n)
  IN [built |-> w.built \cup Range(p),
      dials |-> [i \in Ids |-> IF \E k \in 1..Len(p)-1 : p[k] = i
                               THEN p[1 + CHOOSE k \in 1..Len(p)-1 : p[k] = i]
                               ELSE w.dials[i]]]

\* resolve_active_circle: the first enabled circle that has the active node.
ActiveCircle(d) ==
  LET S == {c \in CircleIds : /\ d.circle[c] # None /\ d.circle[c].on
                            /\ d.active \in Range(d.circle[c].ids)}
  IN IF IsRow(d, d.active) /\ S # {} THEN Min(S) ELSE 0

\* The nodes that get an outbound besides the active one, in the order of the code: members
\* of the active circle, targets of rules, members of enabled groups.
Roots(d) ==
  LET Members[g \in 0..Max({0} \cup Groups)] ==
        IF g = 0 THEN <<>>
        ELSE Members[g - 1] \o (IF g \in Groups /\ d.group[g] # None /\ d.group[g].on
                               THEN Ascending(d.group[g].ids) ELSE <<>>)
  IN (IF ActiveCircle(d) = 0 THEN <<>> ELSE d.circle[ActiveCircle(d)].ids)
     \o Ascending({n \in Ids : \E i \in DOMAIN d.rule : d.rule[i].act = <<"node", n>>})
     \o Members[Max({0} \cup Groups)]

\* The active node is loaded by id, so that it may be disabled; the others are not
\* wired when they are there already.
Wired(d) ==
  LET nothing == [built |-> {}, dials |-> [i \in Ids |-> 0]]
      first   == IF IsRow(d, d.active) THEN Wire(d, nothing, d.active) ELSE nothing
      Add(w, n) == IF n \in w.built \/ ~Live(d, n) THEN w ELSE Wire(d, w, n)
      roots   == Roots(d)
      Added[k \in 0..Len(roots)] == IF k = 0 THEN first ELSE Add(Added[k - 1], roots[k])
  IN Added[Len(roots)]

\* The balancers with their selectors: enabled groups with members, whether these have an
\* outbound or not, and the active circle over the members that do.
Balancers(d) ==
  {<<"balancer", g, d.group[g].ids>> :
     g \in {g \in Groups : d.group[g] # None /\ d.group[g].on /\ d.group[g].ids # {}}}
  \cup (IF ActiveCircle(d) = 0 THEN {}
        ELSE {<<"circle", ActiveCircle(d),
                Range(d.circle[ActiveCircle(d)].ids) \cap Wired(d).built>>})

-----------------------------------------------------------------------------
(* Routing.  A rule is [set, when, act]: set 0 is global.  A packet has a site that a  *)
(* domain rule may name, is listed in a category or not, is private or not.            *)

Whens == {"site", "list", "any", "mac"}
Packets == [via : {0} \cup Sets, site : BOOLEAN, list : BOOLEAN, private : BOOLEAN,
            port : {53, 443}]

\* _routing_rule_to_xray drops mac rules: nftables has them.
Matches(when, p) ==
  CASE when \in {"all", "any"} -> TRUE
    [] when = "site"    -> p.site
    [] when = "list"    -> p.list
    [] when = "private" -> p.private
    [] when = "dns"     -> p.port = 53
    [] when = "mac"     -> FALSE

ProxyTarget(d) == IF ActiveCircle(d) # 0 THEN <<"circle", ActiveCircle(d)>>
                  ELSE IF IsRow(d, d.active) THEN <<"node", d.active>> ELSE <<"direct">>

Target(d, act) == IF act = <<"proxy">> THEN ProxyTarget(d) ELSE act

\* The rules of set s, as they go into the configuration: in a set only for its inbound.
Emitted(d, s) ==
  LET own == Picked(d.rule, {i \in DOMAIN d.rule : d.rule[i].set = s /\ d.rule[i].when # "mac"})
  IN [i \in DOMAIN own |-> [via |-> s, when |-> own[i].when, to |-> Target(d, own[i].act)]]

\* The rules of the sets that have a device, set by set.
OfSets(d) ==
  LET Upto[s \in 0..Max({0} \cup Sets)] ==
        IF s = 0 THEN <<>>
        ELSE Upto[s - 1] \o (IF s \in d.peopled THEN Emitted(d, s) ELSE <<>>)
  IN Upto[Max({0} \cup Sets)]

Everywhere(when, to) == <<[via |-> 0, when |-> when, to |-> to]>>

\* Mutant: the rules of the sets come after the global ones.
RulesMutant(d) ==
  Everywhere("dns", <<"direct">>)
  \o CASE d.mode = "bypass" -> Everywhere("all", <<"direct">>)
       [] d.mode = "global" -> Everywhere("private", <<"direct">>)
                               \o Everywhere("all", ProxyTarget(d))
       [] d.mode = "rules"  -> Everywhere("private", <<"direct">>) \o Emitted(d, 0)
                               \o OfSets(d) \o Everywhere("all", <<"direct">>)

\* The rules of xray, but for those of its own inbounds (api, dns-in, speed-probe). Only
\* sets with a device have an inbound and rules.
Rules(d) ==
  Everywhere("dns", <<"direct">>)
  \o CASE d.mode = "bypass" -> Everywhere("all", <<"direct">>)
       [] d.mode = "global" -> Everywhere("private", <<"direct">>)
                               \o Everywhere("all", ProxyTarget(d))
       [] d.mode = "rules"  -> Everywhere("private", <<"direct">>) \o OfSets(d)
                               \o Emitted(d, 0) \o Everywhere("all", <<"direct">>)

\* What xray does with a packet that came in by the inbound of set p.via, 0 for the others.
Routed(d, p) ==
  FirstIn(Rules(d), {x \in Range(Rules(d)) : x.via \in {0, p.via} /\ Matches(x.when, p)}).to

\* The outbound the explainer names, and whether it is sure.  It takes the set of the
\* device and that set's rules from its caller, and a category for a possible match.
Explained(d, p) ==
  LET Say(to, sure) == [to |-> to, sure |-> sure]
      active == IF d.active # 0 THEN <<"node", d.active>> ELSE <<"direct">>
      Of(s) == Picked(d.rule, {i \in DOMAIN d.rule : d.rule[i].set = s})
      walk  == IF p.via = 0 THEN Of(0) ELSE Of(p.via) \o Of(0)
      hits  == {x \in Range(walk) : x.when = "list" \/ Matches(x.when, p)}
      hit   == FirstIn(walk, hits)
  IN CASE d.mode = "bypass" -> Say(<<"direct">>, TRUE)
       [] d.mode = "global" -> Say(IF p.private THEN <<"direct">> ELSE active, TRUE)
       [] d.mode = "rules" ->
            IF p.private \/ p.port = 53 \/ hits = {} THEN Say(<<"direct">>, TRUE)
            ELSE Say(IF hit.act = <<"proxy">> THEN active ELSE hit.act, hit.when # "list")

-----------------------------------------------------------------------------
(* DNS.  A rule is [server, when]; a name is in some categories.                       *)

\* _build_dns_section: one entry for each server that a rule names, where its first rule is,
\* with the domains of all its rules; the primary upstream last.
DnsEntries(d) ==
  LET Add(es, r) ==
        IF \E i \in DOMAIN es : es[i].server = r.server
        THEN [i \in DOMAIN es |-> IF es[i].server = r.server
                                  THEN [es[i] EXCEPT !.when = @ \cup {r.when}] ELSE es[i]]
        ELSE Append(es, [server |-> r.server, when |-> {r.when}])
  IN FoldLeft(Add, <<>>, d.dns)

\* The server xray asks for a name that the patterns in name match.
Asked(d, name) ==
  LET hits == {e \in Range(DnsEntries(d)) : e.when \cap name # {}}
  IN IF hits = {} THEN "primary" ELSE FirstIn(DnsEntries(d), hits).server

\* explain_dns: the first rule that matches, in the order of the rules.
DnsExplained(d, name) ==
  LET hits == {r \in Range(d.dns) : r.when \in name}
  IN IF hits = {} THEN "primary" ELSE FirstIn(d.dns, hits).server
=============================================================================
