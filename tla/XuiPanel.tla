------------------------------- MODULE XuiPanel -------------------------------
(***************************************************************************)
(* One 3x-ui panel and what PiTun keeps of it: the registered server, the  *)
(* cache of the clients on inbounds that belong to no chain, and the nodes *)
(* exported from them. The panel is also changed by hand, and the cache    *)
(* has no unique key.                                                      *)
(*                                                                         *)
(* A step runs to its next commit or call of the panel.                    *)
(***************************************************************************)
EXTENDS Naturals, FiniteSets, FiniteSetsExt

CONSTANTS
  Inbounds,   \* inbound ids of the panel
  Clients,    \* natural ids: a uuid or a password
  Passworded, \* clients whose natural id is a password: they have no "id"
  InboundOf,  \* the inbound on which a client is made
  Workers,    \* requests at work at the same time
  Limits      \* how often each kind of event may happen

Kinds == {"import", "unregister", "add", "delete", "delinbound", "export", "sync",
          "hand", "node", "fault"}

ASSUME IdsAssumption ==
  /\ Inbounds \subseteq Nat \ {0} /\ Inbounds # {} /\ Clients \subseteq Nat \ {0} /\ IsFiniteSet(Clients)
  /\ Passworded \subseteq Clients /\ InboundOf \in [Clients -> Inbounds]
ASSUME LimitsAssumption == Limits \in [Kinds -> Nat]

VARIABLES
  server,   \* the id of the XuiServer row, 0 for none
  rows,     \* the XuiClient rows of that server
  nodes,    \* node rows exported from a client, named by its natural id
  onPanel,  \* the panel's inbounds
  spent,    \* inbound ids and natural ids that are used: they are not made twice
  there,    \* the clients on the panel
  email,    \* the version of each client's email
  running,  \* the clients the panel's xray runs with
  w,        \* the workers
  quota,    \* what remains of Limits
  alone     \* history: the request under way has met nobody, no hand and no fault

panelState == <<onPanel, spent, there, email, running>>
panelVars  == <<server, rows, nodes, panelState, w, quota, alone>>

Label(k)  == <<k, email[k]>>
Rows      == [id : Nat, ib : Inbounds, key : Clients \cup {0}, lab : Clients \X {1, 2},
              node : Clients \cup {0}]
Idle      == [at |-> "idle", op |-> "none", server |-> 0, k |-> 0, ib |-> 0, lab |-> <<>>,
              view |-> {}]
NextId    == IF rows = {} THEN 1 ELSE Max({r.id : r \in rows}) + 1

\* The rows S when the nodes D are deleted: the link to them is set to null.
Unlink(S, D) == {[r EXCEPT !.node = IF @ \in D THEN 0 ELSE @] : r \in S}

\* What the panel answers of a client: its inbound, its natural id and its email.
View(k) == [ib |-> InboundOf[k], key |-> k, lab |-> Label(k)]

PanelTypeOK ==
  /\ server \in Nat /\ rows \subseteq Rows /\ nodes \subseteq Clients
  /\ onPanel \subseteq spent.ib /\ spent.ib \subseteq Inbounds
  /\ there \subseteq spent.key /\ spent.key \subseteq Clients /\ running \subseteq Clients
  /\ email \in [Clients -> {1, 2}] /\ \A k \in there : InboundOf[k] \in onPanel
  /\ \A i \in Workers : w[i].at \in {"idle", "probe", "send", "restart", "commit"}
  /\ \A r \in rows : r.node # 0 => r.node \in nodes
  /\ \A a, b \in rows : a.id = b.id => a = b
  /\ \A k \in Kinds : quota[k] \in 0..Limits[k]

PanelInit ==
  /\ server = 0 /\ rows = {} /\ nodes = {}
  /\ onPanel = {Min(Inbounds)} /\ there = {} /\ email = [k \in Clients |-> 1]
  /\ spent = [ib |-> onPanel, key |-> {}]
  /\ running = {} /\ w = [i \in Workers |-> Idle]
  /\ quota = Limits /\ alone = TRUE

Spend(k) == quota[k] > 0 /\ quota' = [quota EXCEPT ![k] = @ - 1]
Proceed(i, at) == w' = [w EXCEPT ![i].at = at]
Finish(i)   == w' = [w EXCEPT ![i] = Idle]

\* A call of the panel: an answer, or an error before or after the effect, which ends
\* the request.
Call(i, Eff, NoEff, next) ==
  \/ Eff /\ Proceed(i, next) /\ UNCHANGED quota
  \/ Spend("fault") /\ (Eff \/ NoEff) /\ Finish(i)

\* The session commits; a row whose server is gone is refused.
StillThere(i) == server # 0 /\ server = w[i].server

\* A request that names the registered server. The page names a client by its "id", or by
\* its email when it has none.
Begin(i, kind, rec) ==
  /\ w[i].at = "idle" /\ server # 0 /\ Spend(kind)
  /\ w' = [w EXCEPT ![i] = rec]
  /\ UNCHANGED <<server, rows, nodes, panelState>>
Request(op, ib) == [Idle EXCEPT !.at = "send", !.op = op, !.server = server, !.ib = ib]
ClientRequest(op, k) ==
  [Request(op, InboundOf[k]) EXCEPT !.k = k, !.lab = IF k \in Passworded THEN Label(k) ELSE <<>>]

\* The panel has the client under the name the request uses.
Named(i) == w[i].k \in there /\ w[i].lab \in {<<>>, Label(w[i].k)}

-------------------------------------------------------------------------------
(* The server *)

\* import_xui_server probes the panel before anything is stored.
ImportBegin(i) ==
  /\ w[i].at = "idle" /\ Spend("import") /\ w' = [w EXCEPT ![i] = [Idle EXCEPT !.at = "probe"]]
  /\ UNCHANGED <<server, rows, nodes, panelState>>

Import(i) ==
  /\ w[i].at = "probe" /\ Finish(i)
  /\ \/ server' = (IF server = 0 THEN Limits["import"] - quota["import"] ELSE server) /\ UNCHANGED quota
     \/ Spend("fault") /\ UNCHANGED server
  /\ UNCHANGED <<rows, nodes, panelState>>

\* delete_xui_server does not touch the panel; the cache cascades, the nodes stay.
Unregister ==
  /\ server # 0 /\ Spend("unregister") /\ server' = 0 /\ rows' = {}
  /\ UNCHANGED <<nodes, panelState, w>>

-------------------------------------------------------------------------------
(* Inbounds and clients *)

AddBegin(i) ==
  \E k \in Clients \ spent.key : Begin(i, "add", ClientRequest("add", k))

\* The inbound is looked up, then the client is added under an id made for it.
AddSend(i) ==
  LET k == w[i].k
  IN  /\ w[i].at = "send" /\ w[i].op = "add"
      /\ IF w[i].ib \notin onPanel \/ k \in spent.key THEN Finish(i) /\ UNCHANGED <<there, spent, quota>>
         ELSE Call(i, there' = there \cup {k} /\ spent' = [spent EXCEPT !.key = @ \cup {k}],
                   UNCHANGED <<there, spent>>, "restart")
      /\ UNCHANGED <<server, rows, nodes, onPanel, email, running>>

\* A mutant: the panel is trusted to reload by itself.
RestartMutant(i) ==
  /\ w[i].at = "restart" /\ Proceed(i, "commit")
  /\ UNCHANGED <<running, quota, server, rows, nodes, onPanel, spent, there, email>>

\* x-ui persists a change but does not reload xray; a failing restart is only logged.
Restart(i) ==
  /\ w[i].at = "restart" /\ Proceed(i, "commit")
  /\ \/ running' = there /\ UNCHANGED quota
     \/ Spend("fault") /\ running' \in {running, there}
  /\ UNCHANGED <<server, rows, nodes, onPanel, spent, there, email>>

AddCommit(i) ==
  LET k == w[i].k
  IN  /\ w[i].at = "commit" /\ w[i].op = "add" /\ Finish(i)
      /\ rows' = IF StillThere(i)
                 THEN rows \cup {[id |-> NextId, ib |-> w[i].ib, key |-> k, lab |-> Label(k),
                                  node |-> 0]}
                 ELSE rows
      /\ UNCHANGED <<server, nodes, panelState, quota>>

\* A client is deleted by the name the page has for it, which the panel resolves to an email.
DeleteBegin(i) == \E k \in there : Begin(i, "delete", ClientRequest("delete", k))

DeleteSend(i) ==
  /\ w[i].at = "send" /\ w[i].op = "delete"
  /\ IF ~Named(i) THEN Finish(i) /\ UNCHANGED <<there, quota>>
     ELSE Call(i, there' = there \ {w[i].k}, UNCHANGED there, "restart")
  /\ UNCHANGED <<server, rows, nodes, onPanel, spent, email, running>>

\* The first row whose natural id is that name, and the node it was exported to.
DeleteCommit(i) ==
  LET mine == {r \in rows : r.ib = w[i].ib /\ r.key = w[i].k /\ w[i].lab = <<>>}
      row  == CHOOSE r \in mine : \A q \in mine : r.id <= q.id
  IN  /\ w[i].at = "commit" /\ w[i].op = "delete" /\ Finish(i)
      /\ IF ~StillThere(i) \/ mine = {} THEN UNCHANGED <<rows, nodes>>
         ELSE /\ nodes' = nodes \ {row.node}
              /\ rows' = Unlink(rows \ {row}, {row.node})
      /\ UNCHANGED <<server, panelState, quota>>

DeleteInboundBegin(i) ==
  \E ib \in onPanel : Begin(i, "delinbound", Request("delinbound", ib))

DeleteInboundSend(i) ==
  /\ w[i].at = "send" /\ w[i].op = "delinbound"
  /\ IF w[i].ib \notin onPanel THEN Finish(i) /\ UNCHANGED <<onPanel, there, quota>>
     ELSE Call(i, /\ onPanel' = onPanel \ {w[i].ib}
                  /\ there' = {k \in there : InboundOf[k] # w[i].ib},
               UNCHANGED <<onPanel, there>>, "restart")
  /\ UNCHANGED <<server, rows, nodes, spent, email, running>>

\* Every row of the inbound with its node.
DeleteInboundCommit(i) ==
  LET mine == {r \in rows : StillThere(i) /\ r.ib = w[i].ib}
      gone == {r.node : r \in mine}
  IN  /\ w[i].at = "commit" /\ w[i].op = "delinbound" /\ Finish(i)
      /\ nodes' = nodes \ gone
      /\ rows' = Unlink(rows \ mine, gone)
      /\ UNCHANGED <<server, panelState, quota>>

\* create_inbound, from a preset; its restart is best effort too.
CreateInbound ==
  /\ server # 0 /\ Spend("add")
  /\ \E ib \in Inbounds \ spent.ib :
       onPanel' = onPanel \cup {ib} /\ spent' = [spent EXCEPT !.ib = @ \cup {ib}]
  /\ running' \in {running, there}
  /\ UNCHANGED <<server, rows, nodes, there, email, w>>

-------------------------------------------------------------------------------
(* Export and sync *)

ExportBegin(i) == \E k \in there : Begin(i, "export", ClientRequest("export", k))

\* The client as the panel shows it now.
ExportGet(i) ==
  /\ w[i].at = "send" /\ w[i].op = "export"
  /\ \/ /\ Named(i) /\ UNCHANGED quota
        /\ w' = [w EXCEPT ![i].at = "commit", ![i].view = {View(w[i].k)}]
     \/ ~Named(i) /\ Finish(i) /\ UNCHANGED quota
     \/ Spend("fault") /\ Finish(i)
  /\ UNCHANGED <<server, rows, nodes, panelState>>

\* The node a row of this client links to is updated in place; else a node with this
\* natural id is reused, or one is made, and the client's first row links to it. A row that
\* is added for a new node stores the client's "id", which one with a password lacks.
ExportCommit(i) ==
  LET v    == CHOOSE x \in w[i].view : TRUE
      pw   == v.key \in Passworded
      mine == {r \in rows : r.ib = v.ib /\ (IF pw THEN r.lab = v.lab ELSE r.key = v.key)}
      row  == CHOOSE r \in mine : \A q \in mine : r.id <= q.id
      new  == [id |-> NextId, ib |-> v.ib, key |-> IF pw /\ v.key \notin nodes THEN 0 ELSE v.key,
               lab |-> v.lab, node |-> v.key]
  IN  /\ w[i].at = "commit" /\ w[i].op = "export" /\ Finish(i)
      /\ IF ~StillThere(i) THEN UNCHANGED <<rows, nodes>>
         ELSE /\ nodes' = nodes \cup {v.key}
              /\ rows' = IF mine = {} THEN rows \cup {new}
                         ELSE (rows \ {row}) \cup {[row EXCEPT !.node = v.key]}
      /\ UNCHANGED <<server, panelState, quota>>

SyncBegin(i) == Begin(i, "sync", Request("sync", 0))

\* sync_xui_server: the panel's list first ...
SyncList(i) ==
  /\ w[i].at = "send" /\ w[i].op = "sync"
  /\ \/ w' = [w EXCEPT ![i].at = "commit", ![i].view = {View(k) : k \in there}] /\ UNCHANGED quota
     \/ Spend("fault") /\ Finish(i)
  /\ UNCHANGED <<server, rows, nodes, panelState>>

\* A mutant: no second look by label at a row without its natural id.
AdoptedMutant(v) == {}

\* A row without a natural id is adopted by the client with its label.
Adopted(v) == {r \in rows : r.ib = v.ib /\ r.key = 0 /\ r.lab = v.lab}

\* The last row with a key stands for it.
Standing == {r \in rows : \A q \in rows : q.ib = r.ib /\ q.key = r.key => q.id <= r.id}

\* The row of a client that is on the panel, if it has one.
RowOf(v) ==
  LET found == {r \in Standing : r.ib = v.ib /\ r.key = v.key}
  IN  IF found # {} THEN found
      ELSE IF Adopted(v) = {} THEN {} ELSE {CHOOSE r \in Adopted(v) : \A q \in Adopted(v) : q.id <= r.id}

\* ... then the cache against it. Rows found are refreshed, clients without a row get one, and
\* a row whose client is not in the list goes with its node.
SyncCommit(i) ==
  LET view  == w[i].view
      kept  == UNION {RowOf(v) : v \in view}
      gone  == {r \in Standing \ kept : ~\E v \in view : v.ib = r.ib /\ v.key = r.key}
      new   == {v \in view : RowOf(v) = {}}
      fresh == UNION {{[r EXCEPT !.lab = v.lab, !.key = v.key] : r \in RowOf(v)} : v \in view}
      dead  == {r.node : r \in gone}
      added == {[id |-> NextId + Cardinality({u \in new : u.key < v.key}), ib |-> v.ib,
                 key |-> v.key, lab |-> v.lab, node |-> 0] : v \in new}
  IN  /\ w[i].at = "commit" /\ w[i].op = "sync" /\ Finish(i)
      /\ IF ~StillThere(i) THEN UNCHANGED <<rows, nodes>>
         ELSE /\ nodes' = nodes \ dead
              /\ rows' = Unlink(((rows \ kept) \ gone) \cup fresh \cup added, dead)
      /\ UNCHANGED <<server, panelState, quota>>

-------------------------------------------------------------------------------
(* By hand *)

\* Somebody adds, removes or renames a client in the panel's own pages.
Hand ==
  /\ Spend("hand")
  /\ \/ \E k \in Clients \ there :
          /\ InboundOf[k] \in onPanel /\ there' = there \cup {k} /\ running' = running \cup {k}
          /\ spent' = [spent EXCEPT !.key = @ \cup {k}] /\ UNCHANGED email
     \/ \E k \in there : there' = there \ {k} /\ running' = running \ {k} /\ UNCHANGED <<email, spent>>
     \/ \E k \in there : email' = [email EXCEPT ![k] = 3 - @] /\ UNCHANGED <<there, running, spent>>
  /\ UNCHANGED <<server, rows, nodes, onPanel, w>>

\* The operator deletes a node; a row's link to it is set to null.
OperatorDeletesNode ==
  /\ Spend("node")
  /\ \E k \in nodes : nodes' = nodes \ {k} /\ rows' = Unlink(rows, {k})
  /\ UNCHANGED <<server, panelState, w>>

-------------------------------------------------------------------------------
Working == {i \in Workers : w[i].at # "idle"}

WorkStep(i) ==
  \/ Import(i) \/ AddSend(i) \/ Restart(i) \/ AddCommit(i) \/ DeleteSend(i) \/ DeleteCommit(i)
  \/ DeleteInboundSend(i) \/ DeleteInboundCommit(i) \/ ExportGet(i) \/ ExportCommit(i)
  \/ SyncList(i) \/ SyncCommit(i)
BeginStep(i) ==
  \/ ImportBegin(i) \/ AddBegin(i) \/ DeleteBegin(i) \/ DeleteInboundBegin(i)
  \/ ExportBegin(i) \/ SyncBegin(i)

Step(A)  == A /\ alone' = (\/ Working' = {} \/ Working = {}
                           \/ alone /\ Working' \subseteq Working /\ quota' = quota)
Event(A) == A /\ alone' = (Working' = {})

PanelNext ==
  \/ \E i \in Workers : Step(WorkStep(i)) \/ Step(BeginStep(i))
  \/ Event(Unregister) \/ Event(CreateInbound) \/ Event(Hand) \/ Event(OperatorDeletesNode)

PanelSpec == PanelInit /\ [][PanelNext]_panelVars

-------------------------------------------------------------------------------
(* Properties *)

Completes(i, op) == alone /\ w[i].at = "commit" /\ w[i].op = op /\ w'[i].at = "idle" /\ quota' = quota

\* No two rows stand for one client, and no two of an inbound have one key, which two without
\* a natural id have.
OneRowEach ==
  \A a, b \in rows : a.lab[1] = b.lab[1] \/ (a.ib = b.ib /\ a.key = b.key) => a = b

\* A node the sync can tell is alive: the row that links to it has the natural id or the
\* email of a client on the panel.
LinkedLive == {r.node : r \in {q \in rows : q.node \in there /\ (q.key = q.node \/ q.lab = Label(q.node))}}

\* What a sync owes: the cache holds exactly the panel's clients; of the nodes linked to
\* it, those whose client is gone are gone, and those whose client is there remain.
Mirrors ==
  /\ {<<r.ib, r.key>> : r \in rows'} = {<<InboundOf[k], k>> : k \in there}
  /\ \A r \in rows : r.node # 0 /\ r.node \notin there => r.node \notin nodes'
  /\ LinkedLive \subseteq nodes'

\* A sync nobody interfered with leaves a mirror, whatever requests that failed half-way,
\* raced or came from other hands left before it, if no two rows stood for one client.
LoneSyncMirrors == [][\A i \in Workers : Completes(i, "sync") /\ OneRowEach => Mirrors]_panelVars

\* "Cache row whose client vanished from the panel -> DELETE the cache row + cascade-delete
\* the linked Node": after every sync nobody interfered with, such a node is gone.
SyncDropsDead ==
  [][\A i \in Workers : Completes(i, "sync") =>
       \A r \in rows : r.node # 0 /\ r.node \notin there => r.node \notin nodes']_panelVars

\* "only rows with a genuinely missing counterpart are dropped": a sync nobody interfered
\* with spares the node of a client that is on the panel.
SyncSparesLive ==
  [][\A i \in Workers : Completes(i, "sync") => LinkedLive \subseteq nodes']_panelVars

\* After the deletion of an inbound no node is linked to, or was linked to, a client of it.
InboundTakesNodes ==
  [][\A i \in Workers : Completes(i, "delinbound") =>
       \A r \in rows : r.ib = w[i].ib => r.node \notin nodes']_panelVars

\* A request nobody interfered with leaves xray running with the clients the panel has, so
\* that a new client is accepted and a deleted one is not.
LoneChangeTakesEffect ==
  [][\A i \in Workers : Completes(i, "add") \/ Completes(i, "delete") \/ Completes(i, "delinbound")
       => running' = there]_panelVars

\* "Cascade-delete the exported Node row, if any": a client deleted by a request nobody
\* interfered with has no node left.
DeleteTakesNode ==
  [][\A i \in Workers : Completes(i, "delete") =>
       \A r \in rows : r.ib = w[i].ib /\ r.node = w[i].k => w[i].k \notin nodes']_panelVars
===============================================================================
