------------------------------ MODULE NodeStore ------------------------------
(***************************************************************************)
(* The node rows, everything that names a node (the active node, rules,    *)
(* balancer groups, circles, the relay of another node), the subscription  *)
(* that adds, changes and removes nodes, and the configuration xray runs.  *)
(*                                                                         *)
(* db is the database, as ConfigGen reads it.  A step runs to the next     *)
(* commit: a request that goes on after a commit keeps what it has read.   *)
(***************************************************************************)
EXTENDS ConfigGen

CONSTANTS
  Served,  \* the servers the panel of the subscription may serve
  Memberships, \* the lists an operator may give a circle
  Bundles, \* the node tables an import may leave behind
  Worlds,  \* initial databases, each with the events that may happen in it
  MaxRules

Kinds == {"create", "patch", "delete", "import", "rule", "group", "circle", "switch",
          "unsubscribe", "refresh", "crash"}


VARIABLES
  db,    \* the tables
  sub,   \* the subscription's row is there
  conf,  \* what xray runs: outbounds, their dialers and their parameters; Stopped
  req,   \* a request that deletes nodes: what it does next, and the nodes it deleted
  task,  \* the refresh: what it does next, the servers it was given, the nodes it removed,
         \* changed, its force
  quota,  \* what remains of the bounds
  solo, \* history: the request or the refresh under way has met no other change
  was    \* history: the database, the configuration and the subscription when it began

storeVars == <<db, sub, conf, req, task, quota, solo, was>>

Stopped == [built |-> {}, dials |-> [i \in Ids |-> 0], par |-> [i \in Ids |-> <<0, 0>>]]
NoDelete == [at |-> "idle", gone |-> {}]
Idle  == [at |-> "idle", served |-> {}, removed |-> {}, changed |-> {}, force |-> FALSE]

\* ver stands for what the panel may change of a server without making it another one: SNI,
\* Reality key, name.
Node == [server : Servers, sub : BOOLEAN, on : BOOLEAN, chain : {0} \cup Ids, ver : {1, 2}]
Actions == {<<"proxy">>, <<"direct">>, <<"block">>} \cup ({"node"} \X Ids)
           \cup ({"balancer"} \X Groups)
Rule == [set : {0} \cup Sets, when : Whens, act : Actions]


Group == [on : BOOLEAN, ids : SUBSET Ids]

\* Circle rows with a member list of S; at is the place of the member in use, from 0.
CirclesOver(S) ==
  {c \in [on : BOOLEAN, linked : BOOLEAN, ids : S, at : Nat] : c.at \in 0..Max({0, Len(c.ids) - 1})}

MemberLists == {s \in Seq(Ids) : IsInjective(s)}

ASSUME ServedAssumption ==
  Served \subseteq Servers \cap Nat /\ IsFiniteSet(Served) /\ MaxRules \in Nat
ASSUME ImportAssumption ==
  Memberships \subseteq MemberLists /\ Bundles \subseteq [Ids -> Node \cup {None}]
Tables == [node : [Ids -> Node \cup {None}], rule : Seq(Rule), group : [Groups -> Group \cup {None}],
           circle : [CircleIds -> CirclesOver(MemberLists) \cup {None}], active : {0} \cup Ids,
           mode : {"rules", "global", "bypass"}, peopled : SUBSET Sets,
           dns : Seq([server : STRING, when : STRING])]

ASSUME WorldsAssumption == \A x \in Worlds : x.db \in Tables /\ x.quota \in [Kinds -> Nat]

Param(d, n) == <<d.node[n].server, d.node[n].ver>>

\* _regenerate_and_write and the reload that follows.
Running(d) ==
  LET w == Wired(d)
  IN [built |-> w.built, dials |-> w.dials,
      par |-> [i \in Ids |-> IF IsRow(d, i) THEN Param(d, i) ELSE <<0, 0>>]]

Up == conf # Stopped

\* _auto_reload_xray and others: nothing if xray does not run.
Reload(d) == conf' = IF Up THEN Running(d) ELSE conf

Confs == [built : SUBSET Ids, dials : [Ids -> {0} \cup Ids],
          par : [Ids -> (Servers \X {1, 2}) \cup {<<0, 0>>}]]

StoreTypeOK ==
  /\ db \in Tables /\ was \in [db : Tables, conf : Confs, sub : BOOLEAN]
  /\ conf \in Confs /\ \A n \in conf.built : conf.dials[n] \in {0} \cup conf.built
  /\ req \in [at : {"idle", "unchain", "heal"}, gone : SUBSET Ids]
  /\ task \in [at : {"idle", "fetch", "unchain", "reload"}, served : SUBSET Served,
              removed : SUBSET Ids, changed : SUBSET Ids, force : BOOLEAN]
  /\ quota \in [Kinds -> Nat] /\ sub \in BOOLEAN /\ solo \in BOOLEAN

StoreInit ==
  /\ \E x \in Worlds : db = x.db /\ quota = x.quota
  /\ sub = TRUE /\ conf = Running(db) /\ req = NoDelete /\ task = Idle
  /\ solo = TRUE /\ was = [db |-> db, conf |-> conf, sub |-> sub]

Take(k) == quota[k] > 0 /\ quota' = [quota EXCEPT ![k] = @ - 1]

\* Bookkeeping of the history: a request that begins while nothing is under way is alone
\* until something else happens.
Begin  == /\ solo' = (req.at = "idle" /\ task.at = "idle")
          /\ was' = [db |-> db, conf |-> conf, sub |-> sub]
Meet   == solo' = (solo /\ req.at = "idle" /\ task.at = "idle") /\ UNCHANGED was
GoOn   == UNCHANGED <<solo, was>>

NewId(d) == Max({0} \cup {n \in Ids : d.node[n] # None}) + 1

-----------------------------------------------------------------------------
(* The operator's edits.                                                   *)

\* POST /nodes: the relay is looked up, and refused if it is missing or speaks WireGuard.
ChainAllowed(m) == m # 0 => IsRow(db, m) /\ db.node[m].server \notin WireGuard

CreateNode(s, m) ==
  /\ Take("create") /\ NewId(db) \in Ids /\ ChainAllowed(m)
  /\ db' = [db EXCEPT !.node[NewId(db)] =
              [server |-> s, sub |-> FALSE, on |-> TRUE, chain |-> m, ver |-> 1]]
  /\ Meet /\ UNCHANGED <<sub, conf, req, task>>

\* PATCH /nodes/{id}: nothing is regenerated.
PatchNode(n, on, m) ==
  /\ Take("patch") /\ IsRow(db, n) /\ ChainAllowed(m)
  /\ db' = [db EXCEPT !.node[n].on = on, !.node[n].chain = m] /\ db' # db
  /\ Meet /\ UNCHANGED <<sub, conf, req, task>>

\* POST /active-node writes the configuration and reloads, or starts.
Switch(n) ==
  /\ Take("switch") /\ IsRow(db, n) /\ n # db.active
  /\ db' = [db EXCEPT !.active = n] /\ conf' = Running(db')
  /\ Meet /\ UNCHANGED <<sub, req, task>>

\* POST /routing/rules: a node or a group that the action names has to be there.
CreateRule(x) ==
  /\ Take("rule") /\ Len(db.rule) < MaxRules
  /\ x.act[1] = "node" => IsRow(db, x.act[2])
  /\ x.act[1] = "balancer" => db.group[x.act[2]] # None
  /\ db' = [db EXCEPT !.rule = Append(@, x)] /\ Reload(db')
  /\ Meet /\ UNCHANGED <<sub, req, task>>

DeleteRule(i) ==
  /\ Take("rule") /\ i \in DOMAIN db.rule
  /\ db' = [db EXCEPT !.rule = RemoveAt(@, i)] /\ Reload(db')
  /\ Meet /\ UNCHANGED <<sub, req, task>>

\* POST and PATCH /balancers: the ids are taken as they come, nothing is regenerated.
PutGroup(g, on, S) ==
  /\ Take("group") /\ db' = [db EXCEPT !.group[g] = [on |-> on, ids |-> S]] /\ db' # db
  /\ Meet /\ UNCHANGED <<sub, conf, req, task>>

\* The rules of s that do something else.
Others(s, act) == Picked(s, {i \in DOMAIN s : s[i].act # act})

DropGroup(g) ==
  /\ Take("group") /\ db.group[g] # None
  /\ db' = [db EXCEPT !.group[g] = None,
                      !.rule = Others(@, <<"balancer", g>>)]
  /\ Meet /\ UNCHANGED <<sub, conf, req, task>>

\* POST and PATCH /nodecircle; a new circle starts at its first member.
PutCircle(c, on, linked, s) ==
  /\ Take("circle")
  /\ db' = [db EXCEPT !.circle[c] =
              [on |-> on, linked |-> linked, ids |-> s,
               at |-> IF db.circle[c] = None \/ db.circle[c].at >= Len(s) THEN 0
                      ELSE db.circle[c].at]]
  /\ Meet /\ UNCHANGED <<sub, conf, req, task>>

-----------------------------------------------------------------------------
(* Nodes that go away.                                                     *)

\* clear_chain_refs.
Unchain(d, gone) == [d EXCEPT !.node = [n \in Ids |->
  IF IsRow(d, n) /\ d.node[n].chain \in gone THEN [d.node[n] EXCEPT !.chain = 0] ELSE d.node[n]]]

Keep(s, gone) == Picked(s, {i \in DOMAIN s : s[i] \notin gone})

\* A circle without some of its members; its index starts again when it is out of bounds.
Prune(circle, gone) ==
  IF circle = None THEN None
  ELSE LET s == Keep(circle.ids, gone)
       IN [circle EXCEPT !.ids = s, !.at = IF circle.at >= Len(s) THEN 0 ELSE @]

Without(d, gone) == [d EXCEPT !.node = [n \in Ids |-> IF n \in gone THEN None ELSE d.node[n]]]

\* Mutant: groups keep the id.
DropNodeMutant(n) ==
  /\ Take("delete") /\ req.at = "idle" /\ IsRow(db, n)
  /\ db' = [Unchain(Without(db, {n}), {n}) EXCEPT
              !.rule = Others(@, <<"node", n>>),
              !.circle = [c \in CircleIds |-> Prune(db.circle[c], {n})]]
  /\ req' = [at |-> "heal", gone |-> {n}]
  /\ Begin /\ UNCHANGED <<sub, conf, task>>

\* DELETE /nodes/{id} up to its commit: rules go, groups, circles and chains forget the id.
DropNode(n) ==
  /\ Take("delete") /\ req.at = "idle" /\ IsRow(db, n)
  /\ db' = [Unchain(Without(db, {n}), {n}) EXCEPT
              !.rule = Others(@, <<"node", n>>),
              !.group = [g \in Groups |-> IF db.group[g] = None THEN None ELSE
                                            [db.group[g] EXCEPT !.ids = @ \ {n}]],
              !.circle = [c \in CircleIds |-> Prune(db.circle[c], {n})]]
  /\ req' = [at |-> "heal", gone |-> {n}]
  /\ Begin /\ UNCHANGED <<sub, conf, task>>

\* DELETE /subscriptions/{id} up to its first commit, with or without the nodes.
Unsubscribe(nodes) ==
  /\ Take("unsubscribe") /\ req.at = "idle" /\ sub /\ sub' = FALSE
  /\ LET gone == IF nodes THEN {n \in Ids : IsRow(db, n) /\ db.node[n].sub} ELSE {}
     IN /\ db' = Without(db, gone)
        /\ req' = IF gone = {} THEN NoDelete ELSE [at |-> "unchain", gone |-> gone]
  /\ Begin /\ UNCHANGED <<conf, task>>

UnchainGone ==
  /\ req.at = "unchain" /\ req' = [req EXCEPT !.at = "heal"] /\ db' = Unchain(db, req.gone)
  /\ GoOn /\ UNCHANGED <<sub, conf, task, quota>>

\* _heal_active_node_after_delete: an enabled node takes over, one that is online before
\* one that is not; without any, the proxy is stopped.
HealActive ==
  /\ req.at = "heal" /\ req' = NoDelete
  /\ LET survivors == {n \in Ids : Live(db, n)}
     IN IF db.active \notin req.gone THEN UNCHANGED <<db, conf>>
        ELSE IF survivors = {} THEN db' = [db EXCEPT !.active = 0] /\ conf' = Stopped
        ELSE \E n \in survivors : db' = [db EXCEPT !.active = n] /\ Reload(db')
  /\ GoOn /\ UNCHANGED <<sub, task, quota>>

\* POST /nodes/import-json?replace=true: the rows of the bundle get the lowest ids, and
\* keep the relays they were exported with; nothing else is touched.
ImportReplace(rows) ==
  /\ Take("import") /\ db' = [db EXCEPT !.node = rows]
  /\ Meet /\ UNCHANGED <<sub, conf, req, task>>

-----------------------------------------------------------------------------
(* The refresh of the subscription.                                        *)

\* _fetch_subscription: one at a time, and only of a subscription that is there.
RefreshBegin ==
  /\ Take("refresh") /\ task.at = "idle" /\ sub
  /\ task' = [Idle EXCEPT !.at = "fetch"]
  /\ Begin /\ UNCHANGED <<db, sub, conf, req>>

\* An error, an empty answer, placeholders only, or a row that has gone meanwhile: the
\* nodes stay as they are.
RefreshFails ==
  /\ task.at = "fetch" /\ task' = Idle
  /\ GoOn /\ UNCHANGED <<db, sub, conf, req, quota>>

Ours(d) == {n \in Ids : IsRow(d, n) /\ d.node[n].sub}

\* Rows of one server: the one with the lowest id stays.
Keeper(d, n) == Min({m \in Ours(d) : d.node[m].server = d.node[n].server})
Twins(d) == {n \in Ours(d) : Keeper(d, n) # n}

\* The first of each.
Dedup(s) == Picked(s, {i \in DOMAIN s : \A j \in 1..i-1 : s[j] # s[i]})

\* Mutant: rules are not moved to the row that stays.
MergeTwinsMutant(d) ==
  LET To(n) == IF n \in Twins(d) THEN Keeper(d, n) ELSE n
      Circle(c) == LET s == Dedup([i \in DOMAIN c.ids |-> To(c.ids[i])])
                   IN IF s = c.ids THEN c
                      ELSE [c EXCEPT !.ids = s, !.at = IF @ >= Len(s) THEN 0 ELSE @]
  IN [Without(d, Twins(d)) EXCEPT
        !.circle = [c \in CircleIds |-> IF d.circle[c] = None THEN None ELSE Circle(d.circle[c])],
        !.active = To(d.active)]

\* Legacy duplicates: circles, rules and the active node move to the row that stays.
MergeTwins(d) ==
  LET To(n) == IF n \in Twins(d) THEN Keeper(d, n) ELSE n
      Circle(c) == LET s == Dedup([i \in DOMAIN c.ids |-> To(c.ids[i])])
                   IN IF s = c.ids THEN c
                      ELSE [c EXCEPT !.ids = s, !.at = IF @ >= Len(s) THEN 0 ELSE @]
      RuleOf(x) == IF x.act[1] = "node" THEN [x EXCEPT !.act = <<"node", To(x.act[2])>>] ELSE x
  IN [Without(d, Twins(d)) EXCEPT
        !.circle = [c \in CircleIds |-> IF d.circle[c] = None THEN None ELSE Circle(d.circle[c])],
        !.rule   = [i \in DOMAIN d.rule |-> RuleOf(d.rule[i])],
        !.active = To(d.active)]

\* The upsert: rows of servers the panel still serves are updated in place, new servers get
\* new rows.  got gives each server that is served its parameters.
Upsert(d, got) ==
  LET fresh == Ascending({s \in DOMAIN got : \A n \in Ours(d) : d.node[n].server # s})
      New(n) == n - NewId(d) + 1
  IN [d EXCEPT !.node = [n \in Ids |->
       IF n \in Ours(d) /\ d.node[n].server \in DOMAIN got
       THEN [d.node[n] EXCEPT !.ver = got[d.node[n].server]]
       ELSE IF New(n) \in DOMAIN fresh
       THEN [server |-> fresh[New(n)], sub |-> TRUE, on |-> TRUE, chain |-> 0,
             ver |-> got[fresh[New(n)]]]
       ELSE d.node[n]]]

Vanished(d, got) == {n \in Ours(d) : d.node[n].server \notin DOMAIN got}
Changed(d, got)  == {n \in Ours(d) \ Vanished(d, got) :
                       d.node[n].ver # got[d.node[n].server]}

\* A circle that is linked to the subscription: members from elsewhere stay, then the
\* subscription's enabled nodes.
Synced(d, circle, removed) ==
  IF circle = None \/ ~circle.linked THEN circle
  ELSE LET fresh == {n \in Ours(d) : d.node[n].on}
           s == Keep(circle.ids, fresh \cup removed) \o Ascending(fresh)
       IN IF s = circle.ids THEN circle
          ELSE [circle EXCEPT !.ids = s, !.at = IF @ >= Len(s) THEN 0 ELSE @]

\* From d, which has no duplicates any more: rows are updated, added and deleted, circles
\* follow, and an enabled node of the subscription takes over from an active node that went.
Save(d, removed, got) ==
  LET d2 == Without(Upsert(d, got), removed)
      d3 == [d2 EXCEPT !.circle = [c \in CircleIds |->
               IF removed = {} THEN d.circle[c] ELSE Prune(d.circle[c], removed)]]
      d4 == [d3 EXCEPT !.circle = [c \in CircleIds |-> Synced(d3, d3.circle[c], removed)]]
      heirs == {n \in Ours(d4) : d4.node[n].on}
      heal == d4.active \in removed /\ heirs # {}
  IN /\ \E n \in heirs \cup {0} :
          /\ (n # 0) = heal
          /\ db' = IF heal THEN [d4 EXCEPT !.active = n] ELSE d4
     /\ task' = [at |-> "unchain", served |-> DOMAIN got, removed |-> removed,
                 changed |-> Changed(d, got),
                 force |-> heal \/ \E c \in CircleIds : /\ d4.circle[c] # None
                                                      /\ d4.circle[c].on
                                                      /\ d4.circle[c] # d3.circle[c]]

\* The rest of _fetch_subscription_unlocked up to its commit.
RefreshCommit(got) ==
  /\ task.at = "fetch" /\ sub /\ got # <<>>
  /\ \E d \in {MergeTwins(db)} :
       /\ NewId(d) + Cardinality(DOMAIN got) <= Max(Ids) + 1
       /\ Save(d, Vanished(d, got), got)
  /\ GoOn /\ UNCHANGED <<sub, conf, req, quota>>

RefreshUnchain ==
  /\ task.at = "unchain" /\ task' = [task EXCEPT !.at = "reload"]
  /\ db' = Unchain(db, task.removed)
  /\ GoOn /\ UNCHANGED <<sub, conf, req, quota>>

\* What the rows name.
Named(d) ==
  {d.active} \cup UNION {Range(d.circle[c].ids) : c \in {c \in CircleIds : d.circle[c] # None}}
  \cup UNION {d.group[g].ids : g \in {g \in Groups : d.group[g] # None}}
  \cup {n \in Ids : \E i \in DOMAIN d.rule : d.rule[i].act = <<"node", n>>}

Closed(d, S) == \A n \in S : IsRow(d, n) => d.node[n].chain \in S \cup {0}

\* _config_referenced_node_ids: what the rows name now, and the relays behind it.
Referenced(d) ==
  {n \in Ids : \A S \in SUBSET Ids : Named(d) \ {0} \subseteq S /\ Closed(d, S) => n \in S}

\* Mutant: relays are not followed.
RefreshReloadMutant ==
  /\ task.at = "reload" /\ task' = Idle
  /\ LET touched == task.removed \cup task.changed
     IN IF task.force \/ touched \cap ({db.active} \cup UNION {db.group[g].ids :
                              g \in {g \in Groups : db.group[g] # None}}) # {}
        THEN Reload(db) ELSE UNCHANGED conf
  /\ GoOn /\ UNCHANGED <<db, sub, req, quota>>

\* _reload_if_config_nodes_touched.
RefreshReload ==
  /\ task.at = "reload" /\ task' = Idle
  /\ IF task.force \/ (task.removed \cup task.changed) \cap Referenced(db) # {}
     THEN Reload(db) ELSE UNCHANGED conf
  /\ GoOn /\ UNCHANGED <<db, sub, req, quota>>

-----------------------------------------------------------------------------
\* The backend dies and comes back: a dangling or disabled active node is replaced by the
\* first enabled one, and xray starts with what the rows say.
Crash ==
  /\ Take("crash") /\ req' = NoDelete /\ task' = Idle
  /\ LET survivors == {n \in Ids : Live(db, n)}
     IN db' = IF db.active = 0 \/ Live(db, db.active) THEN db
              ELSE [db EXCEPT !.active = IF survivors = {} THEN 0 ELSE Min(survivors)]
  /\ conf' = IF db'.active = 0 THEN Stopped ELSE Running(db')
  /\ solo' = FALSE /\ UNCHANGED <<sub, was>>

Edit ==
  \/ \E s \in Servers \ Served, m \in {0} \cup Ids : CreateNode(s, m)
  \/ \E n \in Ids, on \in BOOLEAN, m \in {0} \cup Ids : PatchNode(n, on, m)
  \/ \E n \in Ids : Switch(n)
  \/ \E x \in Rule : x.set = 0 /\ x.when = "any" /\ CreateRule(x)
  \/ \E i \in 1..MaxRules : DeleteRule(i)
  \/ \E g \in Groups : DropGroup(g) \/ \E on \in BOOLEAN, S \in SUBSET Ids : PutGroup(g, on, S)
  \/ \E c \in CircleIds, on \in BOOLEAN, linked \in BOOLEAN, s \in Memberships :
       PutCircle(c, on, linked, s)
  \/ \E rows \in Bundles : ImportReplace(rows)

Refresh ==
  \/ RefreshBegin \/ RefreshFails \/ RefreshUnchain \/ RefreshReload
  \/ \E S \in SUBSET Served : \E got \in [S -> {1, 2}] : RefreshCommit(got)

Delete ==
  \/ \E n \in Ids : DropNode(n)
  \/ \E nodes \in BOOLEAN : Unsubscribe(nodes)
  \/ UnchainGone \/ HealActive

StoreNext == Edit \/ Delete \/ Refresh \/ Crash

StoreSpec == StoreInit /\ [][StoreNext]_storeVars

-----------------------------------------------------------------------------
\* The route explainer is right when it says it is sure: whatever the rules, the sets and the
\* mode, xray sends the packet where explain_routing says; the balancer of the active circle
\* stands for the active node.  Port 53 in global mode is left out: see ExplainsDnsPort.
ExplainAgrees ==
  \A p \in {p \in Packets : p.via \in {0} \cup db.peopled} :
    LET said == Explained(db, p)
        done == Routed(db, p)
    IN (said.sure /\ (db.active = 0 \/ IsRow(db, db.active)) /\ ~(db.mode = "global" /\ p.port = 53))
       => said.to = IF done[1] = "circle" THEN <<"node", db.active>> ELSE done

\* The relays of n, then theirs, come to an end.
Ends(d, n) == Relay(d, Last(Path(d, n))) = 0

\* Whatever brought a node into the configuration (active, circle, rule, balancer, relay of
\* another), its outbound dials through the relay of its row, and a relay is always there,
\* so that a chain is never cut short; but for a node on a chain that goes round in a circle
\* or deeper than MaxDepth.
DialsFollowRows ==
  LET w == Wired(db)
  IN \A n \in w.built : (\A m \in w.built : n \in Range(Path(db, m)) => Ends(db, m))
       => /\ w.dials[n] = Relay(db, n)
          /\ Relay(db, n) \in w.built \cup {0}

\* A request that deletes nodes, and that nothing interferes with, leaves no reference behind:
\* DELETE /nodes/{id} none at all, DELETE /subscriptions/{id} no relay and no active node; and
\* xray is either stopped or has been told of the node that took over.
LoneDeletesCleanUp ==
  [][(req.at = "heal" /\ solo /\ HealActive) => \A n \in req.gone :
       /\ db'.active # n
       /\ (was.db.active = n /\ was.conf # Stopped) => conf' \in {Stopped, Running(db')}
       /\ \A m \in Ids : IsRow(db', m) => db'.node[m].chain # n
       /\ was.sub = sub =>
            /\ \A i \in DOMAIN db'.rule : db'.rule[i].act # <<"node", n>>
            /\ \A g \in Groups : db'.group[g] # None => n \notin db'.group[g].ids
            /\ \A c \in CircleIds : db'.circle[c] # None => n \notin Range(db'.circle[c].ids)]_storeVars

\* The server a reference names: a reference to nothing names none.
Names(d, n) == IF IsRow(d, n) THEN d.node[n].server ELSE 0

\* A refresh keeps what the operator chose.  While the panel still serves its server, or the
\* node is not of the subscription, the active node, the target of a rule and the members of
\* a circle name the same servers after the commit as before: rows may be merged, and new ones
\* may come, but nothing is redirected.
RefreshKeepsServers ==
  [][(task.at = "fetch" /\ task'.at = "unchain") =>
       LET Stays(n) == IsRow(db, n) /\ (~db.node[n].sub \/ db.node[n].server \in task'.served)
       IN /\ Stays(db.active) => Names(db', db'.active) = Names(db, db.active)
          /\ \A i \in DOMAIN db.rule :
               (db.rule[i].act[1] = "node" /\ Stays(db.rule[i].act[2]))
               => /\ db'.rule[i].act[1] = "node"
                  /\ Names(db', db'.rule[i].act[2]) = Names(db, db.rule[i].act[2])
          /\ \A c \in {c \in CircleIds : /\ db.circle[c] # None /\ ~db.circle[c].linked
                                       /\ \A n \in Range(db.circle[c].ids) : IsRow(db, n)} :
               {Names(db', n) : n \in Range(db'.circle[c].ids)}
               = {Names(db, n) : n \in {n \in Range(db.circle[c].ids) : Stays(n)}}]_storeVars

\* A refresh reaches xray.  If xray ran what the rows said when the refresh began, and nothing
\* interfered, then every node that xray runs and that the rows still wire has the parameters
\* of its row when the refresh is over, a relay behind a relay included; but for the id of a
\* duplicate that was merged, which may be another node's by now: see MergeMovesAll.
RefreshReachesXray ==
  [][(task.at = "reload" /\ solo /\ RefreshReload /\ Up /\ was.conf = Running(was.db)) =>
       \A n \in (conf'.built \cap Wired(db').built) \ Twins(was.db) : conf'.par[n] = Param(db', n)]_storeVars

-----------------------------------------------------------------------------
(* Claims of the repository that the code does not keep.                   *)

\* core/config_gen.py: "Self-chains, cycles, and an over-deep chain are truncated with a
\* warning instead of emitting a broken (or infinite) config."
ChainsEnd ==
  LET w == Wired(db)
      Hop(S, i) == {w.dials[n] : n \in S} \ {0}
  IN FoldLeft(Hop, w.built, [i \in 1..Cardinality(Ids) |-> i]) = {}

\* core/route_explain.py: "Honours the system rules PiTun always injects first: RFC1918 bypass
\* ... and the port-53 -> direct DNS guard."
ExplainsDnsPort ==
  \A p \in {p \in Packets : p.via = 0 /\ p.port = 53} :
    (db.active = 0 \/ IsRow(db, db.active)) => Explained(db, p).to = Routed(db, p)

\* core/route_explain.py: explain_dns "Mirrors config_gen's per-rule server grouping".
DnsExplainMirrors == \A name \in SUBSET {r.when : r \in Range(db.dns)} :
                       Asked(db, name) = DnsExplained(db, name)

\* api/subscriptions.py on duplicates: "remap all references on the other rows to the survivor
\* before deleting them".
MergeMovesAll ==
  [][(task.at = "fetch" /\ task'.at = "unchain") => \A n \in Twins(db) :
       /\ \A m \in Ids : IsRow(db', m) => db'.node[m].chain # n
       /\ \A g \in Groups : db'.group[g] # None => n \notin db'.group[g].ids]_storeVars

\* api/routing.py on why a target is validated: a rule that names a missing node or balancer
\* makes xray refuse the configuration.  A group that is emptied or disabled does it too.
BalancersDeclared ==
  Up => \A i \in DOMAIN db.rule :
    (db.rule[i].act[1] = "balancer" /\ db.mode = "rules" /\ db.rule[i].set = 0)
    => \E b \in Balancers(db) : b[1] = "balancer" /\ b[2] = db.rule[i].act[2]

\* core/../api/subscriptions.py, the event of a refresh that removed nodes: "the chain link was
\* cleared and they now connect directly".
UnchainedDialDirect ==
  [][(RefreshReload /\ solo /\ was.conf = Running(was.db)) =>
       \A n \in conf'.built : db'.node[n] # None => conf'.dials[n] \notin task.removed]_storeVars
=============================================================================
