---------------------------- MODULE CircleFailover ----------------------------
(***************************************************************************)
(* Which node carries the traffic: circle rotations (the scheduler's tick, *)
(* "rotate now", a failover), the health checker with the two tiers of its *)
(* failover, and the operator's requests, over the rows of the database,   *)
(* the configuration file and what the running xray has loaded.            *)
(*                                                                         *)
(* A step runs to its next commit, probe or call of xray: the local reads  *)
(* before a commit are taken with it.                                      *)
(***************************************************************************)
EXTENDS Naturals, FiniteSets, Sequences, SequencesExt

CONSTANTS
  Nodes,            \* ids of node rows; 0 is "no node"
  Circles,          \* ids of circle rows
  Lists,            \* the member lists an operator may give a circle
  Mode,             \* [Circles -> {"sequential", "random", "best"}]
  Budget,           \* circles with a latency budget, which skip a healthy node
  KnownBad,         \* nodes whose last measurements miss the circle's floor
  FailoverOn,       \* setting failover_enabled
  FailoverList,     \* setting failover_node_ids
  Threshold,        \* health_fail_threshold
  Ops,              \* requests that change the active node
  SlowApi,          \* the gRPC port opens after reload() has returned
  RefusesUnloaded,  \* xray refuses to override with an outbound it has not loaded
  Limits            \* how often each kind of outside event may happen, and all together

ASSUME NodesAssumption ==
  Nodes \subseteq Nat \ {0} /\ Circles \subseteq Nat \ {0} /\ IsFiniteSet(Circles)
ASSUME ListsAssumption == /\ \A l \in Lists : l \in Seq(Nodes)
                          /\ FailoverList \in Seq(Nodes)
                          /\ Mode \in [Circles -> {"sequential", "random", "best"}]
ASSUME FlagsAssumption == {FailoverOn, SlowApi, RefusesUnloaded} \subseteq BOOLEAN
ASSUME LimitsAssumption ==
  /\ Threshold \in Nat \ {0}
  /\ Limits \in [{"all", "edit", "toggle", "flip", "restart", "reboot", "deadline", "rotate"} -> Nat]

VARIABLES
  node,     \* the node rows: "gone", "off" or "on"
  seen,     \* nodes whose row says is_online
  alive,    \* nodes that answer a probe at the moment
  circle,   \* the circle rows: st, ids, idx (0-based, as in the code)
  active,   \* the row active_node_id
  fails,    \* HealthChecker._fail_counts
  hc,       \* the health checker's loop
  rot,      \* the coroutines inside rotate_circle
  lockOf,   \* CircleScheduler._rotate_locks: circle -> lock object, 0 for none
  op,       \* the requests that change the active node
  file,     \* what config.json routes to
  live,     \* what the running xray routes to
  left,     \* what remains of Limits
  alone,    \* history: the switch under way has met nobody and nothing else
  dropped   \* history: circles whose lock was dropped while a rotation held it or
            \* had yet to wake up and take it

vars == <<node, seen, alive, circle, active, fails, hc, rot, lockOf, op, file, live, left,
          alone, dropped>>
rows == <<node, seen, circle, active>>
xray == <<file, live>>

Rotators == {"tick", "manual", "failover"}
\* What Working names the switches by.
ASSUME OpsAssumption == Ops \cap (Rotators \cup {"health"}) = {}
Locks    == 1..(Cardinality(Rotators) + Cardinality(Circles))
States   == {"gone", "off", "on"}
RotAt    == {"idle", "wait", "probe", "write", "swap", "override", "sync", "reload", "pin"}
Inside   == RotAt \ {"idle", "wait"}
NoRot    == [at |-> "idle", circle |-> 0, cands |-> <<>>, lock |-> 0, pin |-> FALSE,
             ok |-> FALSE]

Enabled(n) == n \in Nodes /\ node[n] = "on"
Members(c) == Range(circle[c].ids)
Least(S)   == CHOOSE x \in S : \A y \in S : x <= y

\* The elements of s that are in S, in the order of s.
Within(s, S) ==
  LET f[i \in 0..Len(s)] == IF i = 0 THEN <<>>
                            ELSE IF s[i] \in S THEN Append(f[i - 1], s[i]) ELSE f[i - 1]
  IN  f[Len(s)]

\* resolve_active_circle, _find_circle_for_node: the first enabled circle with n, or 0.
CircleOf(n) ==
  LET cs == {c \in Circles : circle[c].st = "on" /\ n \in Members(c)}
  IN  IF cs = {} THEN 0 ELSE Least(cs)

\* The configuration generate_config makes when active_node_id is n: its proxy rules point
\* at a balancer over the circle's enabled members, or at the node itself.
Config(n) ==
  LET here == n # 0 /\ node[n] # "gone"
      c    == IF here THEN CircleOf(n) ELSE 0
  IN  [node |-> IF here THEN n ELSE 0, bal |-> c,
       members |-> IF c = 0 THEN {} ELSE {m \in Members(c) : m = n \/ Enabled(m)}]

Configs == [node : Nodes \cup {0}, bal : Circles \cup {0}, members : SUBSET Nodes]

\* HealthChecker._reload_xray calls generate_config without the active circle.
PlainConfig(n) == [Config(n) EXCEPT !.bal = 0, !.members = {}]

\* A restart of xray with configuration conf: every override is forgotten.
Load(conf) == live' = [up |-> TRUE, api |-> ~SlowApi, conf |-> conf, pin |-> 0]

TypeOK ==
  /\ node \in [Nodes -> States] /\ seen \subseteq Nodes /\ alive \subseteq Nodes
  /\ circle \in [Circles -> [st : States, ids : Seq(Nodes), idx : Nat]]
  /\ active \in Nodes \cup {0} /\ fails \in [Nodes -> 0..Threshold]
  /\ hc \in [at : {"idle", "probe", "tier", "rotating", "list", "commit", "apply"},
             node : Nodes \cup {0}, cands : Seq(Nodes)]
  /\ rot \in [Rotators -> [at : RotAt, circle : Circles \cup {0}, cands : Seq(Nodes),
                           lock : Locks \cup {0}, pin : BOOLEAN, ok : BOOLEAN]]
  /\ lockOf \in [Circles -> Locks \cup {0}]
  /\ op \in [Ops -> [at : {"unsent", "heal", "regen", "reload", "pin", "done"},
                     node : Nodes \cup {0}]]
  /\ file \in Configs
  /\ live \in [up : BOOLEAN, api : BOOLEAN, conf : Configs, pin : Nodes \cup {0}]
  /\ left \in [DOMAIN Limits -> Nat] /\ \A k \in DOMAIN Limits : left[k] <= Limits[k]
  /\ alone \in BOOLEAN /\ dropped \subseteq Circles

Init ==
  /\ node = [n \in Nodes |-> "on"] /\ seen = Nodes /\ alive = Nodes
  /\ circle \in [Circles -> {[st |-> "on", ids |-> l, idx |-> 0] : l \in Lists}]
  /\ active \in Nodes
  /\ fails = [n \in Nodes |-> 0]
  /\ hc = [at |-> "idle", node |-> 0, cands |-> <<>>]
  /\ rot = [r \in Rotators |-> NoRot] /\ lockOf = [c \in Circles |-> 0]
  /\ op = [o \in Ops |-> [at |-> "unsent", node |-> 0]]
  /\ file = Config(active)
  /\ live = [up |-> TRUE, api |-> TRUE, conf |-> file, pin |-> IF file.bal = 0 THEN 0 ELSE active]
  /\ left = Limits /\ alone = TRUE /\ dropped = {}

Spend(k) == /\ left[k] > 0 /\ left["all"] > 0
            /\ left' = [left EXCEPT ![k] = @ - 1, !["all"] = @ - 1]

-------------------------------------------------------------------------------
(* Rotation *)

\* A mutant: a lock object of one's own.
EnterMutant(r, c) ==
  LET used == Range(lockOf) \cup {rot[q].lock : q \in Rotators}
  IN  /\ rot[r].at = "idle"
      /\ rot' = [rot EXCEPT ![r] = [NoRot EXCEPT !.at = "wait", !.circle = c,
                                                 !.lock = Least(Locks \ used)]]
      /\ UNCHANGED lockOf

\* rotate_circle up to its lock: an object of _rotate_locks, made when there is none.
\* With two names for one circle's lock two rotations do not exclude each other.
Enter(r, c) ==
  LET used == Range(lockOf) \cup {rot[q].lock : q \in Rotators}
      l    == IF lockOf[c] # 0 THEN lockOf[c] ELSE Least(Locks \ used)
  IN  /\ rot[r].at = "idle"
      /\ rot'    = [rot EXCEPT ![r] = [NoRot EXCEPT !.at = "wait", !.circle = c, !.lock = l]]
      /\ lockOf' = [lockOf EXCEPT ![c] = l]

\* _tick: forget the locks of circles that are not enabled, rotate one that is due.
Tick ==
  LET stale == {c \in Circles : circle[c].st # "on"}
      held  == {c \in stale : \E r \in Rotators : rot[r].at # "idle" /\ rot[r].lock = lockOf[c]}
  IN  /\ rot["tick"].at = "idle" /\ left["rotate"] > 0 /\ left["all"] > 0
      /\ dropped' = dropped \cup {c \in held : lockOf[c] # 0}
      /\ \/ /\ \E c \in stale : lockOf[c] # 0
            /\ lockOf' = [c \in Circles |-> IF c \in stale THEN 0 ELSE lockOf[c]]
            /\ UNCHANGED <<rot, left>>
         \/ /\ \A c \in stale : lockOf[c] = 0
            /\ \E c \in Circles \ stale : Len(circle[c].ids) >= 2 /\ Enter("tick", c)
            /\ Spend("rotate")
      /\ UNCHANGED <<rows, alive, fails, hc, op, xray>>

\* POST /nodecircle/{id}/rotate.
RotateNow ==
  /\ \E c \in Circles : circle[c].st = "on" /\ Enter("manual", c)
  /\ Spend("rotate")
  /\ UNCHANGED <<rows, alive, fails, hc, op, xray, dropped>>

Done(r, ok) == rot' = [rot EXCEPT ![r] = [NoRot EXCEPT !.ok = ok]]
Go(r, at)   == rot' = [rot EXCEPT ![r].at = at]

\* The candidates in the order they are probed: a walk round the circle, or any order
\* of the others; disabled and known-bad nodes are left out.
Orders(c) ==
  LET ids  == circle[c].ids
      n    == Len(ids)
      cur  == IF circle[c].idx < n THEN circle[c].idx ELSE 0
      walk == [i \in 1..(n - 1) |-> ids[((cur + i) % n) + 1]]
  IN  {Within(s, {m \in Nodes \ KnownBad : Enabled(m)}) :
         s \in IF Mode[c] = "sequential" THEN {walk}
               ELSE {s \in [1..(n - 1) -> Range(walk)] : Range(s) = Range(walk)}}

SkipsHealthy(r, c) ==
  r = "tick" /\ c \in Budget /\ active # 0 /\ node[active] # "gone" /\ active \in seen

\* The lock is free: phase 1 takes its snapshot.
Snapshot(r) ==
  LET c == rot[r].circle
  IN  /\ rot[r].at = "wait"
      /\ \A q \in Rotators : ~(rot[q].at \in Inside /\ rot[q].lock = rot[r].lock)
      /\ IF circle[c].st = "gone" \/ Len(circle[c].ids) < 2 \/ SkipsHealthy(r, c)
         THEN Done(r, FALSE)
         ELSE \E s \in Orders(c) :
                IF s = <<>> THEN Done(r, FALSE)
                ELSE rot' = [rot EXCEPT ![r].at = "probe", ![r].cands = s]
      /\ UNCHANGED <<rows, alive, fails, hc, lockOf, op, xray, left, dropped>>

\* Phase 2: the head of the list answers, or the next one is tried.
Probe(r) ==
  /\ rot[r].at = "probe"
  /\ IF Head(rot[r].cands) \in alive THEN Go(r, "write")
     ELSE IF Len(rot[r].cands) = 1 THEN Done(r, FALSE)
     ELSE rot' = [rot EXCEPT ![r].cands = Tail(@)]
  /\ UNCHANGED <<rows, alive, fails, hc, lockOf, op, xray, left, dropped>>

\* A mutant: phase 3 trusts the list read before the probes.
WriteMutant(r) ==
  LET c == rot[r].circle
  IN  /\ rot[r].at = "write"
      /\ IF circle[c].st = "on" THEN active' = Head(rot[r].cands) /\ Go(r, "swap")
         ELSE Done(r, FALSE) /\ UNCHANGED active
      /\ UNCHANGED <<node, seen, circle, alive, fails, hc, lockOf, op, xray, left, dropped>>

\* Phase 3: if the circle still stands and still holds the chosen node, its place in the
\* list of now and the active node in one commit.
Write(r) ==
  LET c == rot[r].circle
      n == Head(rot[r].cands)
  IN  /\ rot[r].at = "write"
      /\ IF circle[c].st = "on" /\ n \in Members(c)
         THEN /\ \E i \in 1..Len(circle[c].ids) :
                   /\ circle[c].ids[i] = n
                   /\ \A j \in 1..(i - 1) : circle[c].ids[j] # n
                   /\ circle' = [circle EXCEPT ![c].idx = i - 1]
              /\ active' = n /\ Go(r, "swap")
         ELSE Done(r, FALSE) /\ UNCHANGED <<circle, active>>
      /\ UNCHANGED <<node, seen, alive, fails, hc, lockOf, op, xray, left, dropped>>

\* The gRPC port, once it was found open or may have opened since the last restart.
Finds(open) == open \in {TRUE, live.api}

\* _seamless_rotate: with the circle's balancer and the API an override, else a reload.
Swap(r) ==
  LET n == Head(rot[r].cands)
  IN  /\ rot[r].at = "swap"
      /\ \/ ~live.up /\ Done(r, TRUE) /\ UNCHANGED live
         \/ \E open \in BOOLEAN :
              /\ live.up /\ Finds(open) /\ live' = [live EXCEPT !.api = open]
              /\ Go(r, IF CircleOf(n) # 0 /\ open THEN "override" ELSE "reload")
      /\ UNCHANGED <<rows, alive, fails, hc, lockOf, op, file, left, dropped>>

\* `xray api bo` through the open port: what the running xray makes of an override of
\* node n's circle to n.
Overrides(n, open) ==
  LET c == CircleOf(n)
  IN  /\ live.up /\ open /\ c # 0 /\ live.conf.bal = c
      /\ RefusesUnloaded => n \in live.conf.members
PinTo(n, open) ==
  live' = IF Overrides(n, open) THEN [live EXCEPT !.pin = n, !.api = TRUE] ELSE live

Override(r) ==
  LET n == Head(rot[r].cands)
  IN  /\ rot[r].at = "override"
      /\ \E open \in BOOLEAN :
           /\ Finds(open) /\ PinTo(n, open)
           /\ IF Overrides(n, open) THEN Go(r, "sync")
              ELSE rot' = [rot EXCEPT ![r].at = "reload", ![r].pin = TRUE]
      /\ UNCHANGED <<rows, alive, fails, hc, lockOf, op, file, left, dropped>>

\* _update_config_file after an override that landed.
Sync(r) ==
  /\ rot[r].at = "sync" /\ file' = Config(active) /\ Done(r, TRUE)
  /\ UNCHANGED <<rows, alive, fails, hc, lockOf, op, live, left, dropped>>

\* A mutant: the reload comes before the file.
FullReloadMutant(r) ==
  /\ rot[r].at = "reload" /\ file' = Config(active)
  /\ IF live.up THEN Load(file) ELSE UNCHANGED live
  /\ IF rot[r].pin THEN Go(r, "pin") ELSE Done(r, TRUE)
  /\ UNCHANGED <<rows, alive, fails, hc, lockOf, op, left, dropped>>

\* _full_reload; only after a missed override is the node pinned again.
FullReload(r) ==
  /\ rot[r].at = "reload" /\ file' = Config(active)
  /\ IF live.up THEN Load(file') ELSE UNCHANGED live
  /\ IF rot[r].pin THEN Go(r, "pin") ELSE Done(r, TRUE)
  /\ UNCHANGED <<rows, alive, fails, hc, lockOf, op, left, dropped>>

\* The override after the reload, tried once.
Repin(r) ==
  /\ rot[r].at = "pin" /\ Done(r, TRUE)
  /\ \E open \in BOOLEAN : Finds(open) /\ PinTo(Head(rot[r].cands), open)
  /\ UNCHANGED <<rows, alive, fails, hc, lockOf, op, file, left, dropped>>

\* The 20 s deadline cancels a rotation wherever it waits.
Deadline(r) ==
  /\ rot[r].at \in Inside /\ Spend("deadline") /\ Done(r, FALSE)
  /\ UNCHANGED <<rows, alive, fails, hc, lockOf, op, xray, dropped>>

-------------------------------------------------------------------------------
(* Health checks and failover *)

Check ==
  /\ hc.at = "idle" /\ Enabled(active)
  /\ hc' = [hc EXCEPT !.at = "probe", !.node = active]
  /\ UNCHANGED <<rows, alive, fails, rot, lockOf, op, xray, left, dropped>>

\* The probe's result: the row (if it is still there), the count, and from the
\* threshold on a failover.
Record ==
  LET n     == hc.node
      count == IF fails[n] < Threshold THEN fails[n] + 1 ELSE Threshold
  IN  /\ hc.at = "probe"
      /\ seen' = IF n \in alive /\ node[n] # "gone" THEN seen \cup {n} ELSE seen \ {n}
      /\ fails' = [fails EXCEPT ![n] = IF n \in alive THEN 0 ELSE count]
      /\ hc' = [hc EXCEPT !.at = IF fails'[n] = Threshold /\ FailoverOn THEN "tier" ELSE "idle"]
      /\ UNCHANGED <<node, circle, active, alive, rot, lockOf, op, xray, left, dropped>>

\* check_all_nodes: every enabled node's row is refreshed.
Sweep ==
  /\ seen' = {n \in Nodes : node[n] # "gone" /\ IF Enabled(n) THEN n \in alive ELSE n \in seen}
  /\ seen' # seen
  /\ UNCHANGED <<node, circle, active, alive, fails, hc, rot, lockOf, op, xray, left, dropped>>

\* _failover: snapshot of the list, then the first tier if a circle holds the node.
Tier ==
  LET c     == CircleOf(hc.node)
      cands == Within(FailoverList, {m \in Nodes \ {hc.node} : Enabled(m)})
  IN  /\ hc.at = "tier"
      /\ IF c # 0
         THEN Enter("failover", c) /\ hc' = [hc EXCEPT !.at = "rotating", !.cands = cands]
         ELSE hc' = [hc EXCEPT !.at = "list", !.cands = cands] /\ UNCHANGED <<rot, lockOf>>
      /\ UNCHANGED <<rows, alive, fails, op, xray, left, dropped>>

Recovered == hc' = [hc EXCEPT !.at = "idle"] /\ fails' = [fails EXCEPT ![hc.node] = 0]

\* A mutant: an aborted rotation counts as a recovery.
TierDoneMutant ==
  /\ hc.at = "rotating" /\ rot["failover"].at = "idle" /\ Recovered
  /\ UNCHANGED <<rows, alive, rot, lockOf, op, xray, left, dropped>>

TierDone ==
  /\ hc.at = "rotating" /\ rot["failover"].at = "idle"
  /\ IF rot["failover"].ok THEN Recovered ELSE hc' = [hc EXCEPT !.at = "list"] /\ UNCHANGED fails
  /\ UNCHANGED <<rows, alive, rot, lockOf, op, xray, left, dropped>>

\* Probe the next candidate of the list; out of candidates, the count stays.
ListProbe ==
  /\ hc.at = "list"
  /\ hc' = IF hc.cands = <<>> THEN [hc EXCEPT !.at = "idle"]
           ELSE IF Head(hc.cands) \in alive THEN [hc EXCEPT !.at = "commit"]
           ELSE [hc EXCEPT !.cands = Tail(@)]
  /\ UNCHANGED <<rows, alive, fails, rot, lockOf, op, xray, left, dropped>>

\* Re-check candidate and active node right before the write.
ListCommit ==
  LET n == Head(hc.cands)
  IN  /\ hc.at = "commit"
      /\ \/ /\ ~Enabled(n)
            /\ hc' = [hc EXCEPT !.at = "list", !.cands = Tail(@)]
            /\ UNCHANGED <<active, fails>>
         \/ /\ Enabled(n) /\ active \notin {0, hc.node}
            /\ Recovered /\ UNCHANGED active
         \/ /\ Enabled(n) /\ active \in {0, hc.node}
            /\ active' = n /\ hc' = [hc EXCEPT !.at = "apply"] /\ UNCHANGED fails
      /\ UNCHANGED <<node, seen, circle, alive, rot, lockOf, op, xray, left, dropped>>

\* _reload_xray: manager.reload() also starts an xray that is not running.
ListApply ==
  /\ hc.at = "apply" /\ file' = PlainConfig(active) /\ Load(file') /\ Recovered
  /\ UNCHANGED <<rows, alive, rot, lockOf, op, left, dropped>>

-------------------------------------------------------------------------------
(* Requests *)

OpGo(o, at, n) == op' = [op EXCEPT ![o] = [at |-> at, node |-> n]]

\* POST /system/active-node: any row will do, an enabled one or not.
SetActive(o) ==
  /\ op[o].at = "unsent"
  /\ \E n \in Nodes : node[n] # "gone" /\ active' = n /\ OpGo(o, "regen", n)
  /\ UNCHANGED <<node, seen, circle, alive, fails, hc, rot, lockOf, xray, left, dropped>>

\* DELETE /nodes/{id}, first commit: the row, and its id in every circle's list; an index
\* past the end goes back to 0.
DeleteNode(o) ==
  /\ op[o].at = "unsent"
  /\ \E n \in Nodes :
       /\ node[n] # "gone"
       /\ node' = [node EXCEPT ![n] = "gone"] /\ seen' = seen \ {n}
       /\ circle' = [c \in Circles |->
            LET ids == Within(circle[c].ids, Nodes \ {n})
            IN  IF n \notin Members(c) THEN circle[c]
                ELSE [circle[c] EXCEPT !.ids = ids,
                                       !.idx = IF @ >= Len(ids) THEN 0 ELSE @]]
       /\ OpGo(o, "heal", n)
  /\ UNCHANGED <<active, alive, fails, hc, rot, lockOf, xray, left, dropped>>

\* The survivor an active node that was deleted is replaced by: online first, lowest id.
Survivor ==
  LET on == {n \in Nodes : Enabled(n)}
  IN  IF on = {} THEN 0 ELSE IF on \cap seen # {} THEN Least(on \cap seen) ELSE Least(on)

\* _heal_active_node_after_delete; with nobody left the proxy is stopped.
Heal(o) ==
  /\ op[o].at = "heal"
  /\ IF active # op[o].node THEN OpGo(o, "done", 0) /\ UNCHANGED <<active, live>>
     ELSE /\ active' = Survivor
          /\ IF active' = 0
             THEN OpGo(o, "done", 0) /\ live' = [live EXCEPT !.up = FALSE]
             ELSE OpGo(o, IF live.up THEN "regen" ELSE "done", active') /\ UNCHANGED live
  /\ UNCHANGED <<node, seen, circle, alive, fails, hc, rot, lockOf, file, left, dropped>>

\* The file is written before the response, the reload and the pin come after it.
Regenerate(o) ==
  /\ op[o].at = "regen" /\ file' = Config(active) /\ OpGo(o, "reload", op[o].node)
  /\ UNCHANGED <<rows, alive, fails, hc, rot, lockOf, live, left, dropped>>

OpReload(o) ==
  /\ op[o].at = "reload" /\ OpGo(o, "pin", op[o].node)
  /\ IF live.up THEN Load(file) ELSE UNCHANGED live
  /\ UNCHANGED <<rows, alive, fails, hc, rot, lockOf, file, left, dropped>>

\* _pin_circle_balancer waits for the API; without one for 8 s it gives up.
OpPin(o) ==
  /\ op[o].at = "pin" /\ OpGo(o, "done", 0)
  /\ \E open \in BOOLEAN : Finds(open) /\ PinTo(op[o].node, open)
  /\ UNCHANGED <<rows, alive, fails, hc, rot, lockOf, file, left, dropped>>

-------------------------------------------------------------------------------
(* Events that do not wait for each other *)

\* PATCH and DELETE of a circle; nothing is regenerated or reloaded.
EditCircle ==
  /\ Spend("edit")
  /\ \E c \in Circles : circle[c].st # "gone" /\
       \/ \E l \in Lists : /\ \A m \in Range(l) : node[m] # "gone"
                           /\ circle' = [circle EXCEPT ![c].ids = l]
       \/ \E st \in States \ {circle[c].st} : circle' = [circle EXCEPT ![c].st = st]
  /\ UNCHANGED <<node, seen, active, alive, fails, hc, rot, lockOf, op, xray, dropped>>

\* PATCH of a node's enabled flag.
ToggleNode ==
  /\ Spend("toggle")
  /\ \E n \in Nodes : /\ node[n] # "gone"
                      /\ node' = [node EXCEPT ![n] = IF @ = "on" THEN "off" ELSE "on"]
  /\ UNCHANGED <<seen, circle, active, alive, fails, hc, rot, lockOf, op, xray, dropped>>

\* A server goes down or comes back.
Flip ==
  /\ Spend("flip")
  /\ \E n \in Nodes : alive' = (alive \ {n}) \cup ({n} \ alive)
  /\ UNCHANGED <<rows, fails, hc, rot, lockOf, op, xray, dropped>>

\* xray crashes and is brought back: _auto_restart_if_enabled regenerates, but does not pin.
XrayRestart ==
  /\ Spend("restart") /\ live.up /\ \E n \in Nodes : Enabled(n)
  /\ file' = Config(active) /\ Load(file')
  /\ UNCHANGED <<rows, alive, fails, hc, rot, lockOf, op, dropped>>

\* The backend starts anew: what was in memory is gone, a stale active node is replaced
\* by the first enabled one, and xray is started.
Reboot ==
  LET on     == {n \in Nodes : Enabled(n)}
      healed == IF active = 0 \/ Enabled(active) THEN active
                ELSE IF on = {} THEN 0 ELSE Least(on)
      stop   == [up |-> FALSE, api |-> FALSE, conf |-> live.conf, pin |-> 0]
  IN  /\ Spend("reboot")
      /\ active' = healed
      /\ fails' = [n \in Nodes |-> 0]
      /\ hc' = [at |-> "idle", node |-> 0, cands |-> <<>>]
      /\ rot' = [r \in Rotators |-> NoRot] /\ lockOf' = [c \in Circles |-> 0]
      /\ op' = [o \in Ops |-> IF op[o].at = "unsent" THEN op[o] ELSE [at |-> "done", node |-> 0]]
      /\ IF on # {} /\ healed # 0 THEN file' = Config(healed) /\ Load(file')
         ELSE live' = stop /\ UNCHANGED file
      /\ UNCHANGED <<node, seen, circle, alive, dropped>>

-------------------------------------------------------------------------------
\* The switches under way. A failover and the rotation it asked for are one.
Working ==
  {r \in Rotators \ {"failover"} : rot[r].at # "idle"}
    \cup {o \in Ops : op[o].at \notin {"unsent", "done"}}
    \cup (IF hc.at \in {"idle", "probe"} THEN {} ELSE {"health"})

RotStep(r) == \/ Snapshot(r) \/ Probe(r) \/ Write(r) \/ Swap(r) \/ Override(r)
              \/ Sync(r) \/ FullReload(r) \/ Repin(r)
HealthStep == Check \/ Record \/ Tier \/ TierDone \/ ListProbe \/ ListCommit \/ ListApply
OpStep(o)  == Heal(o) \/ Regenerate(o) \/ OpReload(o) \/ OpPin(o)

Step(A)  == A /\ alone' = (Working = {} \/ Working' = {} \/ (alone /\ Working' \subseteq Working))
Event(A) == A /\ alone' = (Working' = {})

Next ==
  \/ Step(Tick) \/ Step(RotateNow) \/ Step(HealthStep) \/ Step(Sweep)
  \/ \E r \in Rotators : Step(RotStep(r)) \/ Event(Deadline(r))
  \/ \E o \in Ops : Step(SetActive(o)) \/ Step(DeleteNode(o)) \/ Step(OpStep(o))
  \/ Event(EditCircle) \/ Event(ToggleNode) \/ Event(Flip) \/ Event(XrayRestart) \/ Event(Reboot)

Spec == Init /\ [][Next]_vars

\* Coroutines that can go on do; a lock is handed to its waiters in turn.
FairSpec ==
  /\ Spec
  /\ WF_vars(Step(HealthStep))
  /\ \A r \in Rotators : WF_vars(Step(RotStep(r))) /\ SF_vars(Step(Snapshot(r)))
  /\ \A o \in Ops : WF_vars(Step(OpStep(o)))

-------------------------------------------------------------------------------
(* Properties *)

\* Two rotations of one circle are never past its lock together, as long as the lock has
\* not been dropped under one of them (circle_scheduler.py:103).
Together(c) == \E r, q \in Rotators : /\ r # q /\ rot[r].at \in Inside /\ rot[q].at \in Inside
                                      /\ rot[r].circle = c /\ rot[q].circle = c
OneRotation == \A c \in Circles : Together(c) => c \in dropped

\* "Locks for deleted/disabled circles aren't held (we drop them while they're free)": two
\* rotations of one circle are never past its lock together.
LocksAreDroppedFree == \A c \in Circles : ~Together(c)

\* Once no switch is under way, the active node is a row that exists, whatever was deleted
\* while rotations and failovers were probing.
ActiveExists == Working = {} => (active = 0 \/ node[active] # "gone")

\* New connections go through the node the row names.
Serves ==
  live.up => IF live.conf.bal = 0 THEN live.conf.node = active
             ELSE live.pin = active /\ active \in live.conf.members

\* The last step of a switch that changed what is active, its own and not an event's.
Completes ==
  /\ left' = left
  /\ \/ \E r \in Rotators : rot[r].at \in {"sync", "reload", "pin"} /\ rot'[r].at = "idle"
     \/ \E o \in Ops : op[o].at = "pin" /\ op'[o].at = "done"
     \/ hc.at = "apply" /\ hc'.at = "idle"

\* A switch nobody interfered with ends with the traffic on the active node, whatever
\* circle edits, restarts and half-done switches came before it.
LoneSwitchServes == [][alone /\ Completes => Serves']_vars

\* "writing here would silently revert their choice and send traffic somewhere they didn't
\* pick": a failover only replaces the node that failed.
OperatorStands ==
  [][(\/ hc.at = "commit" /\ hc'.at = "apply"
      \/ rot["failover"].at = "write" /\ rot'["failover"].at = "swap")
     /\ active' # active
     => active \in {0, hc.node}]_vars

\* An active node that stays dead is left for one of the list that stays alive.
Stranded ==
  /\ FailoverOn /\ Enabled(active) /\ active \notin alive
  /\ \E n \in Range(FailoverList) \ {active} : Enabled(n) /\ n \in alive
LeavesDead == []<>~Stranded
===============================================================================
