---- MODULE NetworkApply ----
(***************************************************************************)
(* The gateway and the DNS servers of the host: core/network_apply.py      *)
(* behind api/network.py.  An apply backs the configuration up, then       *)
(* rewrites it one command at a time, and any command may be refused; a    *)
(* rollback puts a backup back the same way.  Both run on the event loop   *)
(* without an await, so no other coroutine sees them half done; but the    *)
(* endpoints that delete backups run on threads, and a power cut does not  *)
(* wait.  Another caller adds fallback servers to the resolver of the host.*)
(*                                                                         *)
(* A list of DNS servers is the set of them.  Hosts run ifupdown or        *)
(* NetworkManager, without systemd-resolved, and have an address.          *)
(***************************************************************************)
EXTENDS Integers, FiniteSets, FiniteSetsExt

CONSTANTS Hosts,       \* [manager, dhcpcd]: what the box runs
          Lease,       \* [gw, dns]: what the DHCP server of the LAN hands out
          Gateways, NameServers, Self,   \* addresses; Self is the box's own
          Requests,    \* apply bodies: [gw, dns], either of them None
          Fallbacks,   \* values of the host_fallback_dns setting
          None, MaxTime, MaxBackups, MaxMishaps

ASSUME ConstantsAssumption ==
  /\ Hosts \subseteq [manager : {"ifupdown", "networkmanager"}, dhcpcd : BOOLEAN]
  /\ Self \in Gateways /\ Lease.gw \in Gateways \ {Self} /\ Lease.dns \subseteq NameServers
  /\ Requests \subseteq [gw : Gateways \cup {None}, dns : (SUBSET NameServers) \cup {None}]
  /\ {} \in Fallbacks /\ Fallbacks \subseteq SUBSET NameServers
  /\ None \notin Gateways /\ None \notin 0..MaxTime /\ \A s \in SUBSET NameServers : s # None
  /\ MaxTime \in Nat /\ MaxBackups \in Nat \ {0} /\ MaxMishaps \in Nat

VARIABLES host,       \* the box
          conf,       \* the interface in /etc/network/interfaces, or the NM key file
          profile,    \* NetworkManager's copy of that file, None under ifupdown
          route,      \* the gateway of the default route
          resolv,     \* /etc/resolv.conf: its own lines, and those marked pitun-fallback-dns
          head,       \* /etc/resolv.conf.head, None when there is none
          leased,     \* a DHCP client runs
          backups,    \* id -> backup, in HOST_BACKUP_DIR
          clock,      \* the second that _backup_id would print
          mode,       \* Settings.operating_mode
          fallback,   \* Settings.host_fallback_dns
          op,         \* the request in hand
          left,       \* refusals, power cuts and deletions left
          taken,      \* history: the host as it was when each backup was made
          last,       \* history: the backup of the last apply, None once it is deleted
          settled,    \* history: what the last change, if it went through, left to stand
          skewed      \* history: the clock was set back

vars == <<host, conf, profile, route, resolv, head, leased, backups, clock, mode,
          fallback, op, left, taken, last, settled, skewed>>
hostVars == <<conf, profile, route, resolv, head, leased>>

Idle == [kind |-> "none", at |-> "idle", gw |-> None, dns |-> None, id |-> None, files |-> None]
Conf == [mode : {"dhcp", "static"}, gw : Gateways \cup {None}, dns : SUBSET NameServers]
Resolv == [own : SUBSET NameServers, marked : SUBSET NameServers]
Seconds == 0..MaxTime
Backup == [gw : Gateways, dns : SUBSET NameServers, conf : Conf, resolv : Resolv]

Listed(r) == r.own \cup r.marked             \* read_dns_servers
IsNM == host.manager = "networkmanager"

TypeOK ==
  /\ host \in Hosts /\ conf \in Conf
  /\ profile \in (IF IsNM THEN Conf ELSE {None})
  /\ \A c \in {conf, profile} \ {None} : c.mode = "static" => c.gw # None
  /\ route \in Gateways /\ resolv \in Resolv /\ head \in (SUBSET NameServers) \cup {None}
  /\ leased \in BOOLEAN
  /\ DOMAIN backups \subseteq Seconds /\ Cardinality(DOMAIN backups) <= MaxBackups
  /\ \A id \in DOMAIN backups : backups[id] \in Backup
  /\ clock \in Seconds /\ mode \in {"gateway", "router"} /\ fallback \in Fallbacks
  /\ op.kind \in {"none", "apply", "rollback"}
  /\ op.at \in {"idle", "asked", "file", "route", "resolv", "up"}
  /\ left \in 0..MaxMishaps /\ route # Self
  /\ DOMAIN taken = DOMAIN backups /\ last \in Seconds \cup {None} /\ skewed \in BOOLEAN

-----------------------------------------------------------------------------
(* What the managers of the host do. *)

\* The resolver as NetworkManager, dhclient or dhcpcd's hook leaves it.
Fresh(servers) == [own |-> servers, marked |-> {}]
Leased(c) == IF c.mode = "dhcp" THEN Lease.dns ELSE {}
Via(c) == IF c.mode = "static" THEN c.gw ELSE Lease.gw

\* Which resolv.conf a start of the host ends with.
Resolved(c, r, pin) ==
  CASE IsNM -> Fresh(c.dns \cup Leased(c))
    [] ~ IsNM /\ host.dhcpcd -> Fresh((IF pin = None THEN {} ELSE pin) \cup Leased(c))
    [] ~ IsNM /\ ~ host.dhcpcd -> IF c.mode = "dhcp" THEN Fresh(Lease.dns) ELSE r

Mishap == left > 0 /\ left' = left - 1
Smooth == UNCHANGED left

-----------------------------------------------------------------------------
(* The fallback servers of the host's resolver. *)

\* _fallback_via_resolvconf: the marked lines make way for those now missing.
Appended(r, servers) ==
  LET missing == servers \ Listed(r)
  IN IF missing = {} THEN r ELSE [r EXCEPT !.marked = missing]

\* _fallback_via_nm, in the connection profile.
Extended(c, servers) == [c EXCEPT !.dns = @ \cup servers]

\* apply_host_fallback_dns(): nmcli modify writes the key file and nmcli up
\* activates the profile, whose gateway therefore is the one in force.
Ensure(servers, c, p, r) ==
  CASE servers = {} -> /\ conf' = c /\ profile' = p /\ resolv' = r
    [] servers # {} /\ IsNM ->
         LET q == Extended(p, servers)
         IN conf' = q /\ profile' = q /\ resolv' = Fresh(q.dns \cup Leased(q))
    [] servers # {} /\ ~ IsNM -> /\ conf' = c /\ profile' = p /\ resolv' = Appended(r, servers)

\* PATCH /dns/settings or /system/settings.
SetFallback(servers) ==
  /\ op.at \in {"idle", "asked"} /\ fallback' = servers
  /\ \/ /\ Ensure(servers, conf, profile, resolv) /\ Smooth
        /\ route' = IF servers # {} /\ IsNM THEN Via(profile) ELSE route
     \/ Mishap /\ UNCHANGED <<conf, profile, resolv, route>>      \* only logged
  /\ UNCHANGED <<host, head, leased, backups, clock, mode, op, taken, last, settled, skewed>>

-----------------------------------------------------------------------------
(* Applying a change. *)

Servers == Listed(resolv)

\* The mode is read in one step and acted upon in the next.
Ask(kind, gw, dns, id) ==
  /\ op = Idle /\ mode = "gateway"
  /\ op' = [Idle EXCEPT !.kind = kind, !.at = "asked", !.gw = gw, !.dns = dns, !.id = id]
  /\ UNCHANGED <<host, hostVars, backups, clock, mode, fallback, left, taken, last, settled, skewed>>

Accepted(q) == (q.gw # None \/ q.dns # None) /\ q.gw # Self
AskApply(q) == Accepted(q) /\ Ask("apply", q.gw, q.dns, None)

\* create_backup with _prune_backups: the file names sort by time.
Captured == [gw |-> route, dns |-> Servers, conf |-> conf, resolv |-> resolv]
Newest(ids, n) == {id \in ids : Cardinality({j \in ids : j > id}) < n}
Prune(store) == [id \in Newest(DOMAIN store, MaxBackups) |-> store[id]]
StoredMutant(store, id, b) == [i \in DOMAIN store \cup {id} |-> IF i \in DOMAIN store THEN store[i] ELSE b]
Stored(store, id, b) == [i \in DOMAIN store \cup {id} |-> IF i = id THEN b ELSE store[i]]

\* What a request asks for, with what it leaves out read from the running system.
Final == [mode |-> "static",
          gw |-> IF op.gw # None THEN op.gw ELSE route,
          dns |-> IF op.dns # None THEN op.dns ELSE Servers]

\* The host as it is, for the history.
Now == [conf |-> conf, route |-> route, servers |-> Servers, head |-> head]

\* The backup comes first; without it nothing is touched.
Begin ==
  /\ op.kind = "apply" /\ op.at = "asked"
  /\ \/ /\ backups' = Prune(Stored(backups, clock, Captured)) /\ settled' = None /\ last' = clock
        /\ taken' = [id \in DOMAIN backups' |-> IF id = clock THEN Now ELSE taken[id]]
        /\ op' = [op EXCEPT !.at = "file", !.gw = Final.gw, !.dns = Final.dns]
        /\ Smooth
     \/ Mishap /\ op' = Idle /\ UNCHANGED <<backups, settled, taken, last>>
  /\ UNCHANGED <<host, hostVars, clock, mode, fallback, skewed>>

\* Every later command either works or ends the request where it stands.
Refused ==
  /\ op.at \in {"file", "route", "resolv", "up"} /\ Mishap /\ op' = Idle
  /\ UNCHANGED <<host, hostVars, backups, clock, mode, fallback, taken, last, settled, skewed>>

Stands(now, next, servers) ==
  settled' = [by |-> op.kind, now |-> now, next |-> next, dns |-> servers]
Done == op' = Idle
Goto(at) == op' = [op EXCEPT !.at = at]

WriteFile ==
  /\ op.kind = "apply" /\ op.at = "file" /\ Smooth
  /\ conf' = Final /\ profile' = IF IsNM THEN Final ELSE None
  /\ Goto(IF IsNM THEN "up" ELSE "route")
  /\ UNCHANGED <<host, route, resolv, head, leased, backups, clock, mode, fallback, taken, last, settled, skewed>>

ReplaceRoute ==
  /\ op.kind = "apply" /\ op.at = "route" /\ Smooth
  /\ route' = op.gw
  /\ IF op.dns # {} THEN Goto("resolv") /\ UNCHANGED settled
                    ELSE Done /\ Stands(op.gw, op.gw, {})
  /\ UNCHANGED <<host, conf, profile, resolv, head, leased, backups, clock, mode, fallback, taken, last, skewed>>

WriteResolvMutant ==
  /\ op.kind = "apply" /\ op.at = "resolv"
  /\ resolv' = Fresh(op.dns) /\ UNCHANGED head /\ Smooth /\ Stands(op.gw, op.gw, op.dns)
  /\ Done
  /\ UNCHANGED <<host, conf, profile, route, leased, backups, clock, mode, fallback, taken, last, skewed>>
\* The .head file is written with no look at the result.
WriteResolv ==
  /\ op.kind = "apply" /\ op.at = "resolv"
  /\ resolv' = Fresh(op.dns)
  /\ \/ head' = op.dns /\ Smooth /\ Stands(op.gw, op.gw, op.dns)
     \/ UNCHANGED head /\ Mishap /\ UNCHANGED settled
  /\ Done
  /\ UNCHANGED <<host, conf, profile, route, leased, backups, clock, mode, fallback, taken, last, skewed>>

\* nmcli connection up: the old method's DHCP client goes.
ConnectionUp ==
  /\ op.kind = "apply" /\ op.at = "up" /\ Smooth
  /\ route' = profile.gw /\ resolv' = Fresh(profile.dns) /\ leased' = FALSE
  /\ Done /\ Stands(op.gw, op.gw, op.dns)
  /\ UNCHANGED <<host, conf, profile, head, backups, clock, mode, fallback, taken, last, skewed>>

-----------------------------------------------------------------------------
(* Rolling back, and deleting backups. *)

AskRollback(id) == id \in DOMAIN backups \cup {None} /\ Ask("rollback", None, None, id)

\* The id, or the newest; the whole blob is read before anything is written.
Chosen == IF op.id # None THEN op.id ELSE Max(DOMAIN backups)
Load ==
  /\ op.kind = "rollback" /\ op.at = "asked"
  /\ IF DOMAIN backups = {} \/ Chosen \notin DOMAIN backups
     THEN op' = Idle /\ UNCHANGED settled
     ELSE /\ op' = [op EXCEPT !.at = "file", !.id = Chosen, !.gw = backups[Chosen].gw,
                              !.dns = backups[Chosen].dns, !.files = backups[Chosen]]
          /\ settled' = None
  /\ UNCHANGED <<host, hostVars, backups, clock, mode, fallback, left, taken, last, skewed>>

\* The files in the order of the blob: the interface, then resolv.conf.
RestoreFile ==
  /\ op.kind = "rollback" /\ op.at = "file" /\ Smooth
  /\ conf' = op.files.conf /\ Goto("resolv")
  /\ UNCHANGED <<host, profile, route, resolv, head, leased, backups, clock, mode, fallback, taken, last, settled, skewed>>

RestoreResolv ==
  /\ op.kind = "rollback" /\ op.at = "resolv" /\ Smooth
  /\ resolv' = op.files.resolv /\ Goto("route")
  /\ UNCHANGED <<host, conf, profile, route, head, leased, backups, clock, mode, fallback, taken, last, settled, skewed>>

\* The running state: a refused route is only logged, as is a refused tee.
RestoreRunning ==
  /\ op.kind = "rollback" /\ op.at = "route"
  /\ \/ route' = op.gw /\ Smooth /\ Stands(op.gw, Via(op.files.conf), op.dns)
     \/ UNCHANGED route /\ Mishap /\ UNCHANGED settled
  /\ IF op.dns # {} THEN resolv' = Fresh(op.dns) /\ head' = op.dns
                    ELSE UNCHANGED resolv /\ head' = None
  /\ Done
  /\ UNCHANGED <<host, conf, profile, leased, backups, clock, mode, fallback, taken, last, skewed>>

\* DELETE /backups/{id} and DELETE /backups, on a thread of their own.
DeleteBackups(ids) ==
  /\ Mishap /\ ids # {} /\ ids \subseteq DOMAIN backups
  /\ backups' = [id \in DOMAIN backups \ ids |-> backups[id]]
  /\ taken' = [id \in DOMAIN taken \ ids |-> taken[id]]
  /\ last' = IF last \in ids THEN None ELSE last
  /\ UNCHANGED <<host, hostVars, clock, mode, fallback, op, settled, skewed>>

-----------------------------------------------------------------------------
(* Around them: the mode, the clock, the DHCP client and the power. *)

\* PATCH operating_mode; router mode itself is RouterMode's.
SwitchMode ==
  /\ op.at \in {"idle", "asked"} /\ mode' = IF mode = "router" THEN "gateway" ELSE "router"
  /\ UNCHANGED <<host, hostVars, backups, clock, fallback, op, left, taken, last, settled, skewed>>

Tick == /\ clock < MaxTime /\ clock' = clock + 1
        /\ UNCHANGED <<host, hostVars, backups, mode, fallback, op, left, taken, last, settled, skewed>>
SetBack == /\ clock > 0 /\ Mishap /\ clock' = clock - 1 /\ skewed' = TRUE
           /\ UNCHANGED <<host, hostVars, backups, mode, fallback, op, taken, last, settled>>

\* A lease renewal sets the route and the servers again; one in the milliseconds between
\* two commands of a request is left out.
Renew ==
  /\ leased /\ op.at \in {"idle", "asked"}
  /\ route' = Lease.gw /\ resolv' = Fresh(Lease.dns)
  /\ settled' = IF settled = None THEN None ELSE [settled EXCEPT !.by = "lease"]
  /\ UNCHANGED <<host, conf, profile, head, leased, backups, clock, mode, fallback, op, left, taken, last, skewed>>

\* The backend alone comes back: it asks for the fallback servers again.
Restart ==
  /\ Mishap /\ op' = Idle /\ Ensure(fallback, conf, profile, resolv)
  /\ route' = IF fallback # {} /\ IsNM THEN Via(profile) ELSE route
  /\ UNCHANGED <<host, head, leased, backups, clock, mode, fallback, taken, last, settled, skewed>>

\* The box reboots: its manager reads the files, then the backend starts.
Reboot ==
  /\ Mishap /\ op' = Idle
  /\ route' = Via(conf) /\ leased' = (conf.mode = "dhcp")
  /\ Ensure(fallback, conf, IF IsNM THEN conf ELSE None, Resolved(conf, resolv, head))
  /\ UNCHANGED <<host, head, backups, clock, mode, fallback, taken, last, settled, skewed>>

Init ==
  /\ host \in Hosts
  /\ conf \in {[mode |-> "dhcp", gw |-> None, dns |-> {}],
               [mode |-> "static", gw |-> Lease.gw, dns |-> Lease.dns]}
  /\ profile = IF IsNM THEN conf ELSE None
  /\ route = Lease.gw /\ resolv = Fresh(Lease.dns) /\ head = None
  /\ leased = (conf.mode = "dhcp") /\ backups = [id \in {} |-> None]
  /\ clock = 0 /\ mode = "gateway" /\ fallback = {} /\ op = Idle /\ left = MaxMishaps
  /\ taken = [id \in {} |-> None] /\ last = None /\ settled = None /\ skewed = FALSE

Next ==
  \/ \E q \in Requests : AskApply(q)
  \/ \E id \in Seconds \cup {None} : AskRollback(id)
  \/ Begin \/ WriteFile \/ ReplaceRoute \/ WriteResolv \/ ConnectionUp \/ Refused
  \/ Load \/ RestoreFile \/ RestoreResolv \/ RestoreRunning
  \/ \E ids \in SUBSET DOMAIN backups : (Cardinality(ids) = 1 \/ ids = DOMAIN backups) /\ DeleteBackups(ids)
  \/ \E servers \in Fallbacks : SetFallback(servers)
  \/ SwitchMode \/ Tick \/ SetBack \/ Renew \/ Restart \/ Reboot

Spec == Init /\ [][Next]_vars

-----------------------------------------------------------------------------
(* Properties. *)

\* What an apply answered with ok stands: the gateway and the servers are in
\* force, and a reboot finds them again, whatever else asks the resolver for
\* fallbacks and whether or not dhcpcd rewrites resolv.conf behind ifupdown, until the
\* DHCP client of before, which nobody stops, renews its lease.
AppliedStands ==
  settled # None /\ settled.by = "apply" =>
    /\ route = settled.now /\ settled.dns \subseteq Servers
    /\ Via(conf) = settled.next /\ settled.dns \subseteq Listed(Resolved(conf, resolv, head))

\* The newest backup is the one the last apply made before it touched anything,
\* however that apply ended, unless somebody deleted it or set the clock back: a
\* rollback without an id undoes the last change.
NewestIsLast == last # None /\ ~skewed => last \in DOMAIN backups /\ last = Max(DOMAIN backups)

\* A rollback that ran to its end leaves the file, the route and the servers as
\* they were when its backup was made, through refused applies and reboots in
\* between.
RollbackReturns ==
  [][op.at = "route" /\ op.kind = "rollback" /\ left' = left /\ op' = Idle /\ op.id \in DOMAIN taken
       => /\ conf' = taken[op.id].conf /\ route' = taken[op.id].route
          /\ Listed(resolv') = taken[op.id].servers]_vars

(* Claims the code does not keep. *)

\* api/network.py: a rollback without an id "defaults to newest": the last apply's backup,
\* whatever the clock of a box that has no battery for it says.
LatestIsLast == last # None => last \in DOMAIN backups /\ last = Max(DOMAIN backups)

\* network_apply.py: static, "because DHCP lease renewal would otherwise clobber our
\* hand-set gateway on the next renew".
AppliedOutlivesLease ==
  [][Renew /\ settled # None /\ settled.by = "apply" => UNCHANGED <<route, resolv>>]_vars

\* network_apply.py: "restore the dhcpcd .head pin we wrote on apply (or delete
\* it when the pre-change state had no DNS pin)".
RollbackReturnsPin ==
  [][op.at = "route" /\ op.kind = "rollback" /\ left' = left /\ op' = Idle /\ op.id \in DOMAIN taken
       => head' = taken[op.id].head]_vars

\* network_apply.py, rollback(): "Restores BOTH the config files (so the change
\* survives reboot) AND the runtime state".
RolledBackStands ==
  settled # None /\ settled.by = "rollback" => route \in {settled.now, settled.next} /\ Via(conf) = settled.next

\* network_apply.py, apply_host_fallback_dns(): "Ensure `servers` are present as
\* FALLBACK DNS ... Idempotent - safe to call on every boot".
FallbacksPresent ==
  [][\A servers \in Fallbacks :
       SetFallback(servers) /\ left' = left => servers \subseteq Listed(resolv')]_vars

\* api/network.py: "Captures a backup of the current config FIRST so /rollback
\* can return to this state at any time".
BackupsAreKept == [][\A id \in DOMAIN backups \cap DOMAIN backups' : backups'[id] = backups[id]]_vars

\* api/network.py: "Block host-network edits while PiTun is the router".
RouterKeepsRoute == [][mode = "router" /\ op.at \notin {"idle", "asked"} => UNCHANGED <<conf, route>>]_vars
====
