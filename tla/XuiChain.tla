------------------------------- MODULE XuiChain -------------------------------
(***************************************************************************)
(* Proxy chains over two 3x-ui panels: the orchestrations that create and  *)
(* delete chains, channels and clients, their compensation, the export of  *)
(* clients to nodes, and the drift check, over the rows of the database    *)
(* and what the exit and the relay panel hold.                             *)
(*                                                                         *)
(* A worker is a request's coroutine. A step runs to its next commit or    *)
(* call of a panel: the local reads before a commit are taken with it. A   *)
(* call of a panel may fail before or after it had its effect.             *)
(***************************************************************************)
EXTENDS Naturals, FiniteSets, FiniteSetsExt

CONSTANTS
  Chains,    \* ids of chain rows; all use the same two panels
  Chs,       \* channel names, created in their order
  Clients,   \* logical users
  Workers,   \* requests at work at the same time
  DriftCheck, \* setting chain_drift_check
  Limits     \* how often each kind of event may happen, and all together

ASSUME IdsAssumption == /\ Chains \subseteq Nat \ {0} /\ IsFiniteSet(Chains)
                        /\ Chs \subseteq Nat \ {0} /\ Chs # {}
                        /\ Clients \subseteq Nat \ {0} /\ DriftCheck \in BOOLEAN
ASSUME LimitsAssumption ==
  Limits \in [{"all", "create", "delete", "channel", "unclient", "export", "fault", "drift"} -> Nat]

VARIABLES
  chain,    \* the chain rows' status, "none" where there is no row
  chan,     \* the channel rows of each chain
  keyed,    \* those with remote ids and REALITY material
  pairs,    \* the ChainClientChannel rows, <<chain, channel, client>>
  nodes,    \* the node rows exported from them
  txn,      \* the worker whose write transaction is open, or NoWorker
  inb,      \* the panels' inbounds, <<side, chain, channel>>
  pcl,      \* the relay panel's clients, <<chain, channel, client>>
  tmpl,     \* the relay panel's xrayTemplateConfig: routes <<chain, channel, has material>>
  conf,     \* what the relay's xray runs
  w,        \* the workers
  hc,       \* the drift check
  users,    \* clients not added yet
  left,     \* what remains of Limits
  alone,    \* history: the orchestration under way has met nobody and no fault
  astrayI,  \* history: inbounds the panels may hold without PiTun knowing
  astrayC,  \* history: clients the relay may hold, or miss, without PiTun knowing
  raced,    \* history: nodes exported while their client was being deleted, or left by a chain
            \* that was dropped in place of an earlier one with its id
  mixed     \* history: chains that got their id while work for an earlier row with it went on

db    == <<chain, chan, keyed, pairs, nodes, txn>>
panel == <<inb, pcl, tmpl, conf>>
astray == <<astrayI, astrayC>>
ghost  == <<alone, mixed, astray, raced>>
vars  == <<db, panel, w, hc, users, left, ghost>>

NoWorker == "nobody"
ASSUME WorkersAssumption == NoWorker \notin Workers

Sides   == {"exit", "relay"}
Status  == {"none", "pending", "deployed", "degraded", "failed"}
Triples == Chains \X Chs \X Clients
Routes  == Chains \X Chs \X BOOLEAN
Tags    == Sides \X Chains \X Chs
WorkAt  == {"idle", "exit", "relay", "keys", "build", "push", "restart", "finish", "undo",
            "fail", "clear", "commit", "drop", "add", "reload", "remove"}
Ops     == {"none", "create", "delete", "channel", "client", "failed", "unclient"}
Worker  == [at : WorkAt, op : Ops, chain : {0} \cup Chains, ch : {0} \cup Chs,
            client : {0} \cup Clients, todo : SUBSET Chs, made : SUBSET Tags,
            added : SUBSET Triples, tmpl : SUBSET Routes, nodes : SUBSET Triples]
Idle    == [at |-> "idle", op |-> "none", chain |-> 0, ch |-> 0, client |-> 0, todo |-> {},
            made |-> {}, added |-> {}, tmpl |-> {},
            nodes |-> {}]

TypeOK ==
  /\ chain \in [Chains -> Status] /\ chan \in [Chains -> SUBSET Chs]
  /\ keyed \in [Chains -> SUBSET Chs] /\ \A c \in Chains : keyed[c] \subseteq chan[c]
  /\ pairs \subseteq Triples /\ nodes \subseteq Triples /\ pcl \subseteq Triples
  /\ txn \in Workers \cup {NoWorker}
  /\ inb \subseteq Tags /\ tmpl \subseteq Routes
  /\ conf \in [routes : SUBSET Routes, clients : SUBSET Triples]
  /\ w \in [Workers -> Worker]
  /\ hc \in [at : {"idle", "probe", "write"}, chain : {0} \cup Chains, was : Status, now : Status]
  /\ users \subseteq Clients /\ alone \in BOOLEAN
  /\ left \in [DOMAIN Limits -> Nat] /\ \A k \in DOMAIN Limits : left[k] <= Limits[k]
  /\ astrayI \subseteq Tags /\ astrayC \subseteq Triples /\ raced \subseteq Triples
  /\ mixed \subseteq Chains

Init ==
  /\ chain = [c \in Chains |-> "none"] /\ chan = [c \in Chains |-> {}] /\ keyed = chan
  /\ pairs = {} /\ nodes = {} /\ txn = NoWorker
  /\ inb = {} /\ pcl = {} /\ tmpl = {} /\ conf = [routes |-> {}, clients |-> {}]
  /\ w = [i \in Workers |-> Idle]
  /\ hc = [at |-> "idle", chain |-> 0, was |-> "none", now |-> "none"]
  /\ users = Clients /\ left = Limits
  /\ alone = TRUE /\ astrayI = {} /\ astrayC = {} /\ raced = {} /\ mixed = {}

Spend(k)   == /\ left[k] > 0 /\ left["all"] > 0
              /\ left' = [left EXCEPT ![k] = @ - 1, !["all"] = @ - 1]
Go(i, at)  == w' = [w EXCEPT ![i].at = at]
Stop(i)    == w' = [w EXCEPT ![i] = Idle]
Rows       == {c \in Chains : chain[c] # "none"}
MayWrite(i) == txn \in {NoWorker, i}
OfChain(S, c)      == {t \in S : t[1] = c}
OfChannel(S, c, h) == {t \in S : t[1] = c /\ t[2] = h}

\* A call of a panel with effect Eff; it may fail, before or after the effect.
Call(Eff, None, Ok, Bad) ==
  \/ Eff /\ Ok /\ UNCHANGED left
  \/ Spend("fault") /\ (Eff \/ None) /\ Bad

-------------------------------------------------------------------------------
(* The relay's template *)

\* A mutant: every chain of the relay, whatever its status and its keys.
RelayTemplateMutant(rows, channels, with) ==
  {<<c, h, h \in keyed[c]>> : c \in rows, h \in Chs} \cap
  {r \in Routes : r[2] \in channels[r[1]]}

\* build_combined_relay_template: the channels of live chains, and of the one being worked
\* on, that have their material.
RelayTemplate(rows, channels, with) ==
  {r \in Routes : /\ r[1] \in rows /\ r[2] \in channels[r[1]]
                  /\ chain[r[1]] \in {"deployed", "degraded"} \/ r[1] = with
                  /\ r[3] /\ r[2] \in keyed[r[1]]}

\* A restart of the relay's xray. A route without its public key fails the validation of
\* the configuration and takes everything down.
Loaded(t, clients) ==
  IF \A r \in t : r[3] THEN [routes |-> t, clients |-> clients] ELSE [routes |-> {}, clients |-> {}]

Push(i) ==
  /\ w[i].at = "push"
  /\ LET go(at) == Go(i, at) /\ UNCHANGED <<db, inb, pcl, conf, hc, users, astray, raced>>
     IN  Call(tmpl' = w[i].tmpl, UNCHANGED tmpl, go("restart"),
              go(IF w[i].op = "create" THEN "undo" ELSE "commit"))

Restart(i) ==
  /\ w[i].at = "restart"
  /\ LET go(at) == Go(i, at) /\ UNCHANGED <<db, inb, pcl, tmpl, hc, users, astray, raced>>
     IN  Call(conf' = Loaded(tmpl, pcl), UNCHANGED conf,
              go(IF w[i].op = "create" THEN "finish" ELSE "commit"),
              go(IF w[i].op = "create" THEN "undo" ELSE "commit"))

\* _clear_xray_template_via_ssh deletes the key and restarts the panel.
Clear(i) ==
  /\ w[i].at = "clear"
  /\ LET go == Go(i, "commit") /\ UNCHANGED <<db, inb, pcl, hc, users, astray, raced>>
     IN  Call(tmpl' = {} /\ conf' = Loaded({}, pcl), UNCHANGED <<tmpl, conf>>, go, go)

-------------------------------------------------------------------------------
(* Creating a chain *)

\* Validation, the panels' lists of inbounds, then the pending rows in one commit. SQLite
\* gives the row the id after the highest.
CreateBegin(i) ==
  LET c == IF Rows = {} THEN 1 ELSE Max(Rows) + 1
  IN  /\ w[i].at = "idle" /\ c \in Chains /\ MayWrite(i) /\ Spend("create")
      /\ chain' = [chain EXCEPT ![c] = "pending"] /\ chan' = [chan EXCEPT ![c] = Chs]
      /\ keyed' = [keyed EXCEPT ![c] = {}]
      /\ w' = [w EXCEPT ![i] = [Idle EXCEPT !.at = "exit", !.op = "create", !.chain = c,
                                            !.todo = Chs]]
      /\ UNCHANGED <<pairs, nodes, txn, panel, hc, users, astray, raced>>

\* The payload of an inbound names it by its tag.
Payload(side, c, h) == <<side, c, h>>

\* add_inbound on a panel, for the next channel; a tag the panel has is refused. When the
\* answer is lost the inbound's id is never known.
AddInbound(i, side) ==
  LET h  == Min(w[i].todo)
      ib == Payload(side, w[i].chain, h)
      ok == /\ w' = [w EXCEPT ![i].at = IF side = "exit" THEN "relay"
                                        ELSE IF w[i].todo = {h} THEN "keys" ELSE "exit",
                              ![i].todo = IF side = "relay" THEN @ \ {h} ELSE @,
                              ![i].made = @ \cup {ib}]
            /\ UNCHANGED astrayI
  IN  /\ w[i].at = side
      /\ IF ib \in inb THEN Go(i, "undo") /\ UNCHANGED <<inb, astrayI, left>>
         ELSE Call(inb' = inb \cup {ib}, UNCHANGED inb, ok,
                   Go(i, "undo") /\ astrayI' = astrayI \cup (inb' \ inb))
      /\ UNCHANGED <<astrayC, db, pcl, tmpl, conf, hc, users, raced>>

\* The material of all channels in one commit. With the rows deleted meanwhile the commit
\* fails, and the handler that would undo the panels may fail on the same session.
SaveKeys(i) ==
  LET c == w[i].chain
  IN  /\ w[i].at = "keys" /\ MayWrite(i)
      /\ IF chan[c] = Chs /\ keyed[c] = {} /\ chain[c] = "pending"
         THEN keyed' = [keyed EXCEPT ![c] = Chs] /\ Go(i, "build") /\ UNCHANGED astray
         ELSE /\ UNCHANGED keyed
              /\ \/ Go(i, "undo") /\ UNCHANGED astray
                 \/ Stop(i) /\ astrayI' = astrayI \cup w[i].made /\ UNCHANGED astrayC
      /\ UNCHANGED <<chain, chan, pairs, nodes, txn, panel, hc, users, left, raced>>

\* After the firewalls were opened (best effort) the template is read from the database.
Build(i) ==
  /\ w[i].at = "build"
  /\ w' = [w EXCEPT ![i].at = "push", ![i].tmpl = RelayTemplate(Rows, chan, w[i].chain)]
  /\ UNCHANGED <<db, panel, hc, users, left, astray, raced>>

\* Step 7. A row that was deleted meanwhile cannot be updated.
Finish(i) ==
  LET c == w[i].chain
  IN  /\ w[i].at = "finish" /\ MayWrite(i)
      /\ chain' = IF chain[c] = "none" THEN chain ELSE [chain EXCEPT ![c] = "deployed"]
      /\ astrayI' = IF chain[c] = "none" THEN astrayI \cup w[i].made ELSE astrayI
      /\ UNCHANGED astrayC
      /\ Stop(i)
      /\ UNCHANGED <<chan, keyed, pairs, nodes, txn, panel, hc, users, left, raced>>

\* A mutant: the relay's inbounds are not undone.
UndoMutant(i) ==
  LET mine == {x \in w[i].made : x[1] = "exit"}
      ib   == CHOOSE x \in mine : TRUE
      next == w' = [w EXCEPT ![i].made = @ \ {ib}]
              /\ UNCHANGED <<db, tmpl, conf, hc, users, astrayC, raced>>
  IN  /\ w[i].at = "undo"
      /\ IF mine = {}
         THEN Go(i, "fail") /\ UNCHANGED <<db, panel, hc, users, left, astray, raced>>
         ELSE Call(inb' = inb \ {ib} /\ UNCHANGED pcl, UNCHANGED <<inb, pcl>>,
                   next /\ UNCHANGED astrayI, next /\ astrayI' = astrayI \cup ({ib} \cap inb'))

\* _rollback_inbounds: every inbound it knows the id of, on the exit, then on the relay
\* panel; one that fails is left. The relay's template is not put back.
Undo(i) ==
  LET exits == {x \in w[i].made : x[1] = "exit"}
      ib    == CHOOSE x \in IF exits # {} THEN exits ELSE w[i].made : TRUE
      next  == w' = [w EXCEPT ![i].made = @ \ {ib}]
               /\ astrayC' = astrayC \cup (pcl \ pcl')
               /\ UNCHANGED <<db, tmpl, conf, hc, users, raced>>
  IN  /\ w[i].at = "undo"
      /\ IF w[i].made = {}
         THEN Go(i, "fail") /\ UNCHANGED <<db, panel, hc, users, left, astray, raced>>
         ELSE Call(/\ inb' = inb \ {ib}
                   /\ pcl' = IF ib[1] = "relay" THEN pcl \ OfChannel(pcl, ib[2], ib[3]) ELSE pcl,
                   UNCHANGED <<inb, pcl>>,
                   next /\ UNCHANGED astrayI, next /\ astrayI' = astrayI \cup ({ib} \cap inb'))

\* The row stays, with its error, for the operator to delete.
Fail(i) ==
  LET c == w[i].chain
  IN  /\ w[i].at = "fail" /\ MayWrite(i) /\ Stop(i)
      /\ chain' = IF chain[c] = "none" THEN chain ELSE [chain EXCEPT ![c] = "failed"]
      /\ UNCHANGED <<chan, keyed, pairs, nodes, txn, panel, hc, users, left, astray, raced>>

-------------------------------------------------------------------------------
(* Deleting a chain, deleting a channel *)

\* Both paths mean to delete the channels' inbounds first. They read a remark the model
\* class does not have, so the removal fails before a panel is asked, and is only logged.
DelInbounds(c, hs) == inb

\* What PiTun no longer knows of once channels hs of chain c are gone.
LetGo(c, hs) == /\ astrayI' = astrayI \cup {x \in inb : x[2] = c /\ x[3] \in hs}
                /\ astrayC' = astrayC \cup {t \in pcl : t[1] = c /\ t[2] \in hs}

\* DELETE of a chain: with other chains on the relay their template is pushed, without
\* the panel's is cleared.
DeleteBegin(i) ==
  /\ w[i].at = "idle" /\ Spend("delete")
  /\ \E c \in Rows :
       /\ inb' = DelInbounds(c, keyed[c])
       /\ w' = [w EXCEPT ![i] =
            [Idle EXCEPT !.op = "delete", !.chain = c,
                         !.at = IF Rows = {c} THEN "clear" ELSE "push",
                         !.tmpl = RelayTemplate(Rows \ {c}, chan, 0)]]
  /\ UNCHANGED <<db, pcl, tmpl, conf, hc, users, astray, raced>>

\* The nodes exported from its clients, then the row with all that hangs on it.
DeleteCommit(i) ==
  LET c == w[i].chain
  IN  /\ w[i].at = "commit" /\ w[i].op = "delete" /\ MayWrite(i) /\ Stop(i)
      /\ LetGo(c, chan[c])
      /\ chain' = [chain EXCEPT ![c] = "none"] /\ chan' = [chan EXCEPT ![c] = {}]
      /\ keyed' = [keyed EXCEPT ![c] = {}] /\ pairs' = pairs \ OfChain(pairs, c)
      /\ nodes' = nodes \ OfChain(pairs, c)
      /\ UNCHANGED <<txn, panel, hc, users, left, raced>>

\* DELETE of a channel: the row is flushed, which opens a write transaction that lasts
\* over the panel calls. With siblings the template is pushed without it; after the last
\* one the panel's is cleared.
ChannelBegin(i) ==
  /\ w[i].at = "idle" /\ txn = NoWorker /\ Spend("channel")
  /\ \E c \in Rows : \E h \in chan[c] :
       /\ inb' = DelInbounds(c, {h} \cap keyed[c]) /\ txn' = i
       /\ w' = [w EXCEPT ![i] =
            [Idle EXCEPT !.op = "channel", !.chain = c, !.ch = h, !.todo = chan[c] \ {h},
                         !.nodes = OfChannel(pairs, c, h) \cap nodes,
                         !.at = IF h \notin keyed[c] THEN "commit"
                                ELSE IF chan[c] = {h} THEN "clear" ELSE "push",
                         !.tmpl = RelayTemplate(Rows, [chan EXCEPT ![c] = @ \ {h}], c)]]
  /\ UNCHANGED <<chain, chan, keyed, pairs, nodes, pcl, tmpl, conf, hc, users, astray, raced>>

\* The channel's row, its pairs and the nodes read before, in the transaction that has
\* been open since.
ChannelCommit(i) ==
  LET c == w[i].chain
      h == w[i].ch
  IN  /\ w[i].at = "commit" /\ w[i].op = "channel"
      /\ LetGo(c, {h})
      /\ chan' = [chan EXCEPT ![c] = @ \ {h}] /\ keyed' = [keyed EXCEPT ![c] = @ \ {h}]
      /\ pairs' = pairs \ OfChannel(pairs, c, h) /\ nodes' = nodes \ w[i].nodes
      /\ txn' = NoWorker
      /\ IF w[i].todo = {} THEN Go(i, "drop") ELSE Stop(i)
      /\ UNCHANGED <<chain, panel, hc, users, left, raced>>

\* delete_chain_channel folds a chain without channels away after the channel's commit: whatever
\* row has its id by now, with all that hangs on it.
DropChain(i) ==
  LET c == w[i].chain
  IN  /\ w[i].at = "drop" /\ MayWrite(i) /\ Stop(i)
      /\ LetGo(c, chan[c])
      /\ chain' = [chain EXCEPT ![c] = "none"] /\ chan' = [chan EXCEPT ![c] = {}]
      /\ keyed' = [keyed EXCEPT ![c] = {}] /\ pairs' = pairs \ OfChain(pairs, c)
      /\ raced' = raced \cup (nodes \cap OfChain(pairs, c))
      /\ UNCHANGED <<nodes, txn, panel, hc, users, left>>

-------------------------------------------------------------------------------
(* Clients *)

\* POST of a client, for a deployed chain: its row is flushed, so the write transaction
\* is open until the end.
ClientBegin(i) ==
  /\ w[i].at = "idle" /\ txn = NoWorker
  /\ \E c \in Rows, k \in users :
       /\ chain[c] = "deployed" /\ chan[c] # {}
       /\ users' = users \ {k} /\ txn' = i
       /\ w' = [w EXCEPT ![i] = [Idle EXCEPT !.op = "client", !.at = "add", !.chain = c,
                                             !.client = k, !.todo = chan[c]]]
  /\ UNCHANGED <<chain, chan, keyed, pairs, nodes, panel, hc, left, astray, raced>>

\* One channel's add_client; it needs the channel's inbound on the relay.
AddClient(i) ==
  LET h  == Min(w[i].todo)
      t  == <<w[i].chain, h, w[i].client>>
      ok == /\ w' = [w EXCEPT ![i].todo = @ \ {h}, ![i].added = @ \cup {t},
                              ![i].at = IF w[i].todo = {h} THEN "reload" ELSE "add"]
            /\ UNCHANGED astrayC
  IN  /\ w[i].at = "add"
      /\ IF <<"relay", w[i].chain, h>> \notin inb
         THEN Go(i, "remove") /\ UNCHANGED <<pcl, astrayC, left>>
         ELSE Call(pcl' = pcl \cup {t}, UNCHANGED pcl, ok,
                   Go(i, "remove") /\ astrayC' = astrayC \cup (pcl' \ pcl))
      /\ UNCHANGED <<astrayI, db, inb, tmpl, conf, hc, users, raced>>

\* A mutant: the new clients wait for the next restart.
ReloadClientsMutant(i) ==
  /\ w[i].at = "reload" /\ Go(i, "commit")
  /\ UNCHANGED <<db, panel, hc, users, left, astray, raced>>

\* The panel does not reload by itself: restart_xray makes the change take effect. When a
\* deletion's, or the compensation's, restart fails, that is only logged.
ReloadClients(i) ==
  /\ w[i].at = "reload"
  /\ LET go(at) == Go(i, at) /\ UNCHANGED <<db, inb, pcl, tmpl, hc, users, astray, raced>>
     IN  Call(conf' = Loaded(tmpl, pcl), UNCHANGED conf, go("commit"),
              go(IF w[i].op = "client" THEN "remove" ELSE "commit"))

\* What was added so far, or a client's pairs, are deleted one by one, best effort.
RemoveClients(i) ==
  LET t    == CHOOSE x \in w[i].added : TRUE
      next == w' = [w EXCEPT ![i].added = @ \ {t}]
              /\ UNCHANGED <<db, inb, tmpl, conf, hc, users, astrayI, raced>>
  IN  /\ w[i].at = "remove"
      /\ IF w[i].added = {}
         THEN /\ w' = [w EXCEPT ![i].at = "reload",
                                ![i].op = IF @ = "client" THEN "failed" ELSE @]
              /\ UNCHANGED <<db, panel, hc, users, left, astray, raced>>
         ELSE Call(pcl' = pcl \ {t}, UNCHANGED pcl, next /\ UNCHANGED astrayC,
                   next /\ astrayC' = astrayC \cup ({t} \cap pcl'))

\* The commit of a new client, or the roll back of a failed one.
ClientCommit(i) ==
  /\ w[i].at = "commit" /\ w[i].op \in {"client", "failed"} /\ Stop(i)
  /\ pairs' = IF w[i].op = "client" THEN pairs \cup w[i].added ELSE pairs
  /\ txn' = NoWorker
  /\ UNCHANGED <<chain, chan, keyed, nodes, panel, hc, users, left, astray, raced>>

\* DELETE of a client: its pairs and exported nodes are read before the panel is asked.
UnclientBegin(i) ==
  /\ w[i].at = "idle" /\ Spend("unclient")
  /\ \E t \in pairs :
       LET mine == {p \in pairs : p[3] = t[3]}
       IN  /\ w' = [w EXCEPT ![i] = [Idle EXCEPT !.op = "unclient", !.at = "remove",
                                                 !.chain = t[1], !.client = t[3],
                                                 !.added = mine, !.nodes = mine \cap nodes]]
           /\ astrayC' = astrayC \cup mine
  /\ UNCHANGED <<astrayI, db, panel, hc, users, raced>>

UnclientCommit(i) ==
  /\ w[i].at = "commit" /\ w[i].op = "unclient" /\ MayWrite(i) /\ Stop(i)
  /\ pairs' = {p \in pairs : p[3] # w[i].client} /\ nodes' = nodes \ w[i].nodes
  /\ UNCHANGED <<chain, chan, keyed, txn, panel, hc, users, left, astray, raced>>

\* POST of an export: a node for every pair that has none.
Export ==
  /\ txn = NoWorker /\ Spend("export")
  /\ \E k \in Clients :
       LET new == {p \in pairs : p[3] = k} \ nodes
       IN  /\ new # {} /\ nodes' = nodes \cup new
           /\ raced' = IF \E i \in Workers : w[i].op = "unclient" /\ w[i].client = k
                       THEN raced \cup new ELSE raced
  /\ UNCHANGED <<chain, chan, keyed, pairs, txn, panel, w, hc, users, astray>>

-------------------------------------------------------------------------------
(* The drift check and what it is there for *)

\* What a healthcheck looks at, on both panels and in the relay's running configuration.
Intact(c) == \A h \in chan[c] : /\ {<<s, c, h>> : s \in Sides} \subseteq inb
                                /\ <<c, h, TRUE>> \in conf.routes

CheckBegin ==
  /\ DriftCheck /\ hc.at = "idle"
  /\ \E c \in {d \in Chains : chain[d] \in {"deployed", "degraded"}} :
       hc' = [hc EXCEPT !.at = "probe", !.chain = c, !.was = chain[c]]
  /\ UNCHANGED <<db, panel, w, users, left, astray, raced>>

CheckProbe ==
  /\ hc.at = "probe"
  /\ \/ hc' = [hc EXCEPT !.at = "write", !.now = IF Intact(hc.chain) THEN "deployed" ELSE "degraded"]
        /\ UNCHANGED left
     \/ hc' = [hc EXCEPT !.at = "write", !.now = "degraded"] /\ Spend("fault")
  /\ UNCHANGED <<db, panel, w, users, astray, raced>>

\* A mutant: a chain that came back is not told.
CheckWriteMutant ==
  /\ hc.at = "write" /\ txn = NoWorker /\ hc' = [hc EXCEPT !.at = "idle", !.chain = 0, !.was = "none", !.now = "none"]
  /\ chain' = IF hc.now # "degraded" \/ chain[hc.chain] = "none" THEN chain
              ELSE [chain EXCEPT ![hc.chain] = hc.now]
  /\ UNCHANGED <<chan, keyed, pairs, nodes, txn, panel, w, users, left, astray, raced>>

\* The verdict, if it differs from the status read before the probes; a row deleted
\* meanwhile stays deleted.
CheckWrite ==
  /\ hc.at = "write" /\ (txn = NoWorker \/ hc.now = hc.was)
  /\ hc' = [hc EXCEPT !.at = "idle", !.chain = 0, !.was = "none", !.now = "none"]
  /\ chain' = IF hc.now = hc.was \/ chain[hc.chain] = "none" THEN chain
              ELSE [chain EXCEPT ![hc.chain] = hc.now]
  /\ UNCHANGED <<chan, keyed, pairs, nodes, txn, panel, w, users, left, astray, raced>>

\* Somebody deletes an inbound in the panel that no request is working on, or the relay's
\* xray restarts by itself.
Drift ==
  /\ Spend("drift")
  /\ \/ \E x \in inb \ UNION {w[i].made : i \in Workers} :
                       /\ inb' = inb \ {x}
                       /\ pcl' = IF x[1] = "relay" THEN pcl \ OfChannel(pcl, x[2], x[3]) ELSE pcl
                       /\ astrayC' = astrayC \cup (pcl \ pcl') /\ UNCHANGED <<astrayI, conf>>
     \/ conf' = Loaded(tmpl, pcl) /\ UNCHANGED <<inb, pcl, astray>>
  /\ UNCHANGED <<db, tmpl, w, hc, users, raced>>

\* The backend stops: requests end where they are, an open transaction is rolled back.
Crash ==
  /\ Spend("fault") /\ txn' = NoWorker
  /\ w' = [i \in Workers |-> Idle]
  /\ hc' = [hc EXCEPT !.at = "idle", !.chain = 0, !.was = "none", !.now = "none"]
  /\ astrayI' = astrayI \cup UNION {w[i].made : i \in Workers}
  /\ astrayC' = astrayC \cup UNION {w[i].added : i \in Workers}
  /\ UNCHANGED <<chain, chan, keyed, pairs, nodes, panel, users, raced>>

-------------------------------------------------------------------------------
Working == {i \in Workers : w[i].at # "idle"}

WorkStep(i) ==
  \/ \E s \in Sides : AddInbound(i, s)
  \/ SaveKeys(i) \/ Build(i) \/ Push(i) \/ Restart(i) \/ Finish(i) \/ Undo(i) \/ Fail(i)
  \/ Clear(i) \/ DeleteCommit(i) \/ ChannelCommit(i) \/ DropChain(i)
  \/ AddClient(i) \/ ReloadClients(i) \/ RemoveClients(i) \/ ClientCommit(i) \/ UnclientCommit(i)
Begin(i)  == \/ CreateBegin(i) \/ DeleteBegin(i) \/ ChannelBegin(i)
             \/ ClientBegin(i) \/ UnclientBegin(i)
CheckStep == CheckBegin \/ CheckProbe \/ CheckWrite

\* The rowid of a deleted chain is given again: was somebody still at work on the earlier row?
Mixing == mixed' = {c \in Chains : IF chain[c] = "none" /\ chain'[c] # "none"
                                   THEN c \in {hc.chain} \cup {w[i].chain : i \in Workers}
                                   ELSE c \in mixed}
Step(A)  == A /\ Mixing /\ alone' = (\/ Working' = {} \/ Working = {}
                                     \/ alone /\ Working' \subseteq Working /\ left' = left)
Event(A) == A /\ Mixing /\ alone' = (Working' = {})

Next ==
  \/ \E i \in Workers : Step(WorkStep(i)) \/ Step(Begin(i))
  \/ Step(Export) \/ Step(CheckStep) \/ Event(Drift) \/ Event(Crash)

Spec == Init /\ [][Next]_vars

\* A panel that does not answer times out, so requests go on; the drift check comes round.
FairSpec ==
  /\ Spec
  /\ \A i \in Workers : WF_vars(Step(WorkStep(i)))
  /\ WF_vars(Step(CheckProbe)) /\ WF_vars(Step(CheckWrite))
  /\ \A c \in Chains : SF_vars(Step(CheckBegin) /\ hc'.chain = c)

-------------------------------------------------------------------------------
(* Properties *)

Served(c) == \A h \in chan[c] : <<c, h, TRUE>> \in conf.routes

\* An orchestration that succeeds.
Completes(i, op) ==
  /\ w[i].op = op /\ w'[i].at # w[i].at /\ left' = left
  /\ w[i].at = (IF op = "create" THEN "finish" ELSE "commit")

\* The relay's one template serves every chain: after the creation or the deletion of a
\* chain, or of a channel that leaves others, that nothing interfered with, all deployed
\* chains have their routes in the running xray, whatever failed before. Left out are chains
\* that a request or a check takes for the earlier one it began with.
LoneChangeServesAll ==
  [][(alone /\ \E i \in Workers : \/ Completes(i, "create") \/ Completes(i, "delete")
                                  \/ Completes(i, "channel") /\ w[i].todo # {} /\ w[i].ch \in keyed[w[i].chain])
     => \A c \in Chains \ mixed' : chain'[c] \in {"deployed", "degraded"} => Served(c)']_vars

\* The same of every deletion of a channel: "a per-chain push wipes any sibling chain that
\* happened to share the same relay. We instead rebuild from the DB on every create/delete".
ChannelDeleteServesAll ==
  [][(alone /\ \E i \in Workers : Completes(i, "channel") /\ w[i].ch \in keyed[w[i].chain])
     => \A c \in Chains \ {w[i].chain : i \in Workers} :
          chain[c] \in {"deployed", "degraded"} => Served(c)']_vars

\* What PiTun made on the panels it knows of: an inbound belongs to a channel that has its
\* id, or to a request at work; a client to a pair. Left out is what a lost answer, a
\* failed undo, a crash, or a deleted row made astray.
NothingStray ==
  /\ \A x \in inb : \/ x[3] \in keyed[x[2]] \/ x \in astrayI
                    \/ \E i \in Workers : x \in w[i].made
  /\ \A t \in pcl : t \in pairs \cup astrayC \/ \E i \in Workers : t \in w[i].added

\* A client the operator was given works: the relay's xray knows it, unless its deletion
\* has begun or its inbound was deleted in the panel.
ClientsLive == pairs \subseteq conf.clients \cup astrayC

\* A node exported from a client is gone with it, unless the export came while the client
\* was being deleted, or its chain was dropped in an earlier one's place.
NodesHaveClients == nodes \subseteq pairs \cup raced

\* "Without this cleanup, removing the chain client leaves orphan Node rows whose UUID no
\* longer authenticates against the panel": a node exported from a client is gone with it.
NoOrphanNode == nodes \subseteq pairs

\* "Delete the channel's exit-side inbound on the exit panel": a deletion nothing
\* interfered with leaves no inbound of the chain.
DeletedInboundsGo ==
  [][(alone /\ \E i \in Workers : Completes(i, "delete"))
     => \A x \in inb' : chain'[x[2]] # "none"]_vars

\* The status comes round to what the panels show.
StatusTrue(c) == /\ chain[c] = "deployed" => Intact(c)
                 /\ chain[c] = "degraded" => ~Intact(c)
StatusFollows == \A c \in Chains : []<>StatusTrue(c)
===============================================================================
