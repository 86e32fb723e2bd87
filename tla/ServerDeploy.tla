---- MODULE ServerDeploy ----
(***************************************************************************)
(* One server that PiTun installs proxies on over SSH: the row of the      *)
(* server, the deployment row of each protocol, the row of the 3x-ui panel,*)
(* the nodes, and the machine itself.  api/servers.py starts one job per   *)
(* protocol; the jobs of different protocols run at the same time, and the *)
(* scripts scripts/setup-*-server.sh and uninstall-*-server.sh run on by   *)
(* themselves when the job that started them is cancelled.                 *)
(*                                                                         *)
(* A password or panel token is a number, fresh for every install; 0 means *)
(* that there is none.  WireGuard is in WgClients.                         *)
(***************************************************************************)
EXTENDS Integers, FiniteSets

CONSTANTS Slots,        \* where rows of the node table are
          Requests,     \* create-node requests
          Moved,        \* the SSH port an operator may ask for, besides 22
          Asked,        \* the SSH ports that deploy requests name
          None,
          MaxKeys, MaxMishaps

ASSUME ConstantsAssumption ==
  /\ Moved # 22 /\ Asked \subseteq {22, Moved} /\ MaxKeys \in Nat /\ MaxMishaps \in Nat

VARIABLES vps,        \* the machine: NaiveProxy's password, the panel's token, nginx, sshd's drop-ins
          port,       \* Server.port, None when the server has no row
          dep,        \* ServerDeployment per protocol
          panel,      \* the XuiServer row
          node,       \* the rows of the node table
          job,        \* the job in the slot of each protocol
          adrift,     \* scripts whose job is gone
          making,     \* the password a create-node request has read, between check and insert
          keys,       \* how many passwords and tokens have been made
          left, drift \* mishaps left, and what they, or two actors at once, may have split

vars == <<vps, port, dep, panel, node, job, adrift, making, keys, left, drift>>

Protocols == {"naive", "xui"}
Ports == {22, Moved}
Key == 0..MaxKeys

Deployment == [status : {"configured", "deployed", "failed"}, key : Key,
               pro : BOOLEAN, node : Slots \cup {None}]
Node == [from : Protocols, key : Key, inner : BOOLEAN]
Panel == [key : Key \ {0}, pro : BOOLEAN]
NoJob == [at |-> "idle", pro |-> FALSE, ssh |-> None, port |-> 22,
          ok |-> FALSE, key |-> 0, node |-> None]

\* A row that is not there is told from every row, a port not asked for from every port.
ASSUME NoneAssumption ==
  None \notin Slots /\ None \notin Ports /\ None \notin Key
  /\ None \notin Deployment /\ None \notin Node /\ None \notin Panel

\* sshd listens where the installers' drop-ins say, else on 22.
Listening == LET moved == {vps.drop[p] : p \in Protocols} \ {None}
             IN IF moved = {} THEN {22} ELSE moved

Quiet(p) == job[p].at = "idle" /\ adrift[p] = None

TypeOK ==
  /\ vps \in [caddy : Key, token : Key, nginx : BOOLEAN, drop : [Protocols -> {None, Moved}]]
  /\ vps.nginx => vps.token # 0 /\ vps.caddy = 0              \* one web server on 443
  /\ port \in Ports \cup {None}
  /\ dep \in [Protocols -> Deployment \cup {None}] /\ panel \in Panel \cup {None}
  /\ node \in [Slots -> Node \cup {None}]
  /\ \A p \in Protocols :
       dep[p] # None /\ dep[p].node # None => p = "naive" /\ node[dep[p].node] # None
  /\ port = None => panel = None /\ \A p \in Protocols : dep[p] = None   \* ON DELETE CASCADE
  /\ \A p \in Protocols :
       /\ job[p].at \in {"idle", "install", "result", "record", "port",
                         "uninstall", "drop", "nodes", "panel"}
       /\ job[p].ssh \in Asked \cup {None} /\ job[p].key \in Key
       /\ job[p].node \in Slots \cup {None}
       /\ adrift[p] \in {None} \cup [wipe : BOOLEAN, pro : BOOLEAN, ssh : Asked \cup {None}]
  /\ making \in [Requests -> Key \cup {None}] /\ keys \in Key /\ left \in 0..MaxMishaps
  /\ drift \subseteq Protocols \cup {"ssh"}

Init ==
  /\ vps = [caddy |-> 0, token |-> 0, nginx |-> FALSE, drop |-> [p \in Protocols |-> None]]
  /\ port = 22 /\ dep = [p \in Protocols |-> None] /\ panel = None
  /\ node = [i \in Slots |-> None]
  /\ job = [p \in Protocols |-> NoJob] /\ adrift = [p \in Protocols |-> None]
  /\ making = [r \in Requests |-> None] /\ keys = 0 /\ left = MaxMishaps /\ drift = {}

-----------------------------------------------------------------------------
(* Helpers. *)

Mishap(S) == left > 0 /\ left' = left - 1 /\ drift' = drift \cup S
Calm == UNCHANGED <<left, drift>>
Making == \E r \in Requests : making[r] # None
\* Two actors on one protocol at a time: a mishap when it happens.
Beside(busy, S) == IF busy THEN Mishap(S) ELSE Calm

Go(p, s) == job' = [job EXCEPT ![p] = s]
At(p, at) == Go(p, [job[p] EXCEPT !.at = at])
Stop(p) == Go(p, NoJob)

\* Rows of nodes go away; the deployment that names one forgets it (ON DELETE SET NULL).
Forget(S) ==
  /\ node' = [i \in Slots |-> IF i \in S THEN None ELSE node[i]]
  /\ dep' = [p \in Protocols |-> IF dep[p] # None /\ dep[p].node \in S
                                   THEN [dep[p] EXCEPT !.node = None] ELSE dep[p]]

\* The bound on keys, with one for each script that has still to run.
Room == keys + Cardinality({p \in Protocols : job[p].at = "install"})
             + Cardinality({p \in Protocols : adrift[p] # None}) < MaxKeys

\* SQLite's row ids are not modelled: a free slot is a new row.
Free(i) == node[i] = None

-----------------------------------------------------------------------------
(* The scripts. *)

Reachable(p) == job[p].port \in Listening

\* Port 22 is no move: the drop-in of an earlier install stays.
Drop(p, ssh) == IF ssh = Moved THEN [vps.drop EXCEPT ![p] = Moved] ELSE vps.drop

\* NaiveProxy: sshd is moved before Caddy is started, and Caddy needs 443.
InstallNaive(ssh) ==
  /\ keys' = keys + 1
  /\ vps' = [vps EXCEPT !.drop = Drop("naive", ssh),
                        !.caddy = IF vps.nginx THEN 0 ELSE keys + 1]

\* 3x-ui: a token named "pitun" that the panel has already is used again.
InstallXui(pro, ssh) ==
  IF pro /\ vps.caddy # 0 THEN UNCHANGED <<vps, keys>>
  ELSE /\ keys' = IF vps.token # 0 THEN keys ELSE keys + 1
       /\ vps' = [vps EXCEPT !.drop = Drop("xui", ssh), !.nginx = vps.nginx \/ pro,
                             !.token = IF vps.token # 0 THEN vps.token ELSE keys + 1]

Installs(p, pro, ssh) == IF p = "naive" THEN InstallNaive(ssh) ELSE InstallXui(pro, ssh)
Installed(p, pro) == IF p = "naive" THEN ~vps.nginx ELSE ~(pro /\ vps.caddy # 0)

\* The drop-ins of sshd stay.
Wipe(p) == vps' = IF p = "naive" THEN [vps EXCEPT !.caddy = 0]
                  ELSE [vps EXCEPT !.token = 0, !.nginx = FALSE]

-----------------------------------------------------------------------------
(* deploy_to_server: its checks, and the runner of its job. *)

\* The deployment that is there does not let this one start.  Looking at the configuration of a
\* row of the other protocol raises (the row has no attribute config): that is a refusal too.
Refused(p, pro) ==
  \/ (p = "naive" \/ pro) /\ \E q \in Protocols \ {p} : dep[q] # None /\ dep[q].status = "deployed"
  \/ p = "xui" /\ dep[p] # None /\ dep[p].status = "deployed"

Deploy(p, pro, ssh) ==
  /\ port # None /\ job[p].at = "idle" /\ Room /\ ~Refused(p, pro) /\ (p = "naive" => ~pro)
  /\ Go(p, [NoJob EXCEPT !.at = "install", !.pro = pro, !.ssh = ssh, !.port = port])
  /\ Beside(p = "naive" /\ Making, {p})
  /\ UNCHANGED <<vps, port, dep, panel, node, adrift, making, keys>>

InstallExec(p) ==
  LET j == job[p]
      ok == Reachable(p) /\ Installed(p, j.pro)
  IN /\ j.at = "install"
     /\ \/ /\ IF Reachable(p) THEN Installs(p, j.pro, j.ssh) ELSE UNCHANGED <<vps, keys>>
           /\ Go(p, [j EXCEPT !.at = "result", !.ok = ok,
                              !.key = IF ~ok THEN 0 ELSE IF p = "naive" THEN vps'.caddy ELSE vps'.token])
           \* Caddy did not get port 443, and sshd has moved already.
           /\ left' = left
           /\ drift' = IF vps'.drop # vps.drop /\ ~ok THEN drift \cup {"ssh"} ELSE drift
        \/ /\ Reachable(p) /\ Mishap({p, "ssh"})            \* the script or the session ends early
           /\ Installs(p, j.pro, j.ssh) \/ UNCHANGED <<vps, keys>>
           /\ At(p, "result")
     /\ UNCHANGED <<port, dep, panel, node, adrift, making>>

\* A NaiveProxy install makes a node, without a port for its sidecar.  No row of the server:
\* the foreign key refuses, and the job fails.
RecordNode(i) ==
  LET j == job["naive"]
  IN /\ j.at = "result" /\ Free(i)
     /\ IF j.ok /\ port # None
          THEN /\ node' = [node EXCEPT ![i] = [from |-> "naive", key |-> j.key, inner |-> FALSE]]
               /\ Go("naive", [j EXCEPT !.at = "record", !.node = i])
          ELSE /\ UNCHANGED node /\ IF j.ok THEN Stop("naive") ELSE At("naive", "record")
     /\ UNCHANGED <<vps, port, dep, panel, adrift, making, keys, left, drift>>

\* A 3x-ui install writes the row of the panel.
RecordPanel ==
  LET j == job["xui"]
  IN /\ j.at = "result"
     /\ IF j.ok /\ port # None
          THEN panel' = [key |-> j.key, pro |-> j.pro] /\ At("xui", "record")
          ELSE /\ UNCHANGED panel /\ IF j.ok THEN Stop("xui") ELSE At("xui", "record")
     /\ UNCHANGED <<vps, port, dep, node, adrift, making, keys, left, drift>>

\* The row of the deployment: it does not keep the password.  A node that is gone is refused.
RecordDeploymentMutant(p) ==
  LET j == job[p]
      kept == IF dep[p] = None THEN None ELSE dep[p].node
  IN /\ j.at = "record"
     /\ IF port = None \/ (j.node # None /\ node[j.node] = None)
          THEN Stop(p) /\ UNCHANGED dep
          ELSE /\ dep' = [dep EXCEPT ![p] =
                            [status |-> IF j.ok THEN "deployed" ELSE "failed", key |-> 0, pro |-> j.pro,
                             node |-> IF kept # None THEN kept ELSE j.node]]
               /\ IF j.ok /\ j.ssh # None THEN At(p, "port") ELSE Stop(p)
     /\ UNCHANGED <<vps, port, panel, node, adrift, making, keys, left, drift>>
RecordDeployment(p) ==
  LET j == job[p]
      kept == IF dep[p] = None THEN None ELSE dep[p].node
  IN /\ j.at = "record"
     /\ IF port = None \/ (j.node # None /\ node[j.node] = None)
          THEN Stop(p) /\ UNCHANGED dep
          ELSE /\ dep' = [dep EXCEPT ![p] =
                            [status |-> IF j.ok THEN "deployed" ELSE "failed", key |-> 0, pro |-> j.pro,
                             node |-> IF j.node # None THEN j.node ELSE kept]]
               /\ IF j.ok /\ j.ssh # None THEN At(p, "port") ELSE Stop(p)
     /\ UNCHANGED <<vps, port, panel, node, adrift, making, keys, left, drift>>

RecordPort(p) ==
  /\ job[p].at = "port" /\ Stop(p)
  /\ port' = IF port = None THEN None ELSE job[p].ssh
  /\ UNCHANGED <<vps, dep, panel, node, adrift, making, keys, left, drift>>

-----------------------------------------------------------------------------
(* uninstall_server. *)

Uninstall(p) ==
  /\ port # None /\ job[p].at = "idle"
  /\ Go(p, [NoJob EXCEPT !.at = "uninstall", !.port = port])
  /\ Beside(p = "naive" /\ Making, {p})
  /\ UNCHANGED <<vps, port, dep, panel, node, adrift, making, keys>>

UninstallExec(p) ==
  /\ job[p].at = "uninstall"
  /\ \/ ~Reachable(p) /\ UNCHANGED vps /\ Stop(p) /\ Calm
     \/ Reachable(p) /\ Wipe(p) /\ At(p, "drop") /\ Calm
     \/ Reachable(p) /\ Mishap({p}) /\ (Wipe(p) \/ UNCHANGED vps) /\ Stop(p)
  /\ UNCHANGED <<port, dep, panel, node, adrift, making, keys>>

\* The row of the deployment goes; of NaiveProxy nothing else does.
DropDeployment(p) ==
  /\ job[p].at = "drop" /\ dep' = [dep EXCEPT ![p] = None]
  /\ IF p = "xui" /\ panel # None THEN At(p, "nodes") ELSE Stop(p)
  /\ UNCHANGED <<vps, port, panel, node, adrift, making, keys, left, drift>>

\* The nodes exported from the panel go, in a commit of their own.
DropNodesMutant ==
  /\ job["xui"].at = "nodes" /\ At("xui", "panel") /\ UNCHANGED <<node, dep>>
  /\ UNCHANGED <<vps, port, panel, adrift, making, keys, left, drift>>
DropNodes ==
  /\ job["xui"].at = "nodes" /\ At("xui", "panel")
  /\ Forget({i \in Slots : node[i] # None /\ node[i].from = "xui" /\ panel # None})
  /\ UNCHANGED <<vps, port, panel, adrift, making, keys, left, drift>>

\* Then, the chains torn down, the row of the panel.
DropPanel ==
  /\ job["xui"].at = "panel" /\ Stop("xui") /\ panel' = None
  /\ UNCHANGED <<vps, port, dep, node, adrift, making, keys, left, drift>>

\* A job is cancelled, or the backend ends: the script runs on.
Cancel(p) ==
  /\ job[p].at # "idle" /\ adrift[p] = None /\ Mishap({p, "ssh"}) /\ Stop(p)
  /\ adrift' = [adrift EXCEPT ![p] =
                  IF job[p].at \in {"install", "uninstall"} /\ Reachable(p)
                    THEN [wipe |-> job[p].at = "uninstall", pro |-> job[p].pro, ssh |-> job[p].ssh]
                    ELSE None]
  /\ UNCHANGED <<vps, port, dep, panel, node, making, keys>>

RunsOn(p) ==
  LET a == adrift[p]
  IN /\ a # None /\ adrift' = [adrift EXCEPT ![p] = None]
     /\ \/ a.wipe /\ Wipe(p) /\ UNCHANGED keys
        \/ ~a.wipe /\ Installs(p, a.pro, a.ssh)
        \/ UNCHANGED <<vps, keys>>                         \* the lost terminal ended it
     /\ UNCHANGED <<port, dep, panel, node, job, making, left, drift>>

-----------------------------------------------------------------------------
(* The deployment row by hand: upsert_deployment, the script run by its    *)
(* user, create_node_from_deployment, delete_deployment.                   *)

\* The generated script's password is kept in the row.
SaveDeployment ==
  LET d == dep["naive"]
  IN /\ port # None /\ Room /\ keys' = keys + 1 /\ Calm
     /\ dep' = [dep EXCEPT !["naive"] =
                  IF d = None THEN [status |-> "configured", key |-> keys + 1, pro |-> FALSE, node |-> None]
                  ELSE [d EXCEPT !.key = keys + 1,
                                 !.status = IF d.status = "deployed" /\ d.node = None
                                              THEN "configured" ELSE d.status]]
     /\ UNCHANGED <<vps, port, panel, node, job, adrift, making>>

RunByHand ==
  LET d == dep["naive"]
  IN /\ d # None /\ d.key # 0 /\ vps.caddy # d.key /\ ~vps.nginx
     /\ vps' = [vps EXCEPT !.caddy = d.key]
     /\ Beside(d.status = "deployed" \/ ~Quiet("naive") \/ Making, {"naive"})
     /\ UNCHANGED <<port, dep, panel, node, job, adrift, making, keys>>

\* A node that is there already is the answer; else the password is read.
CheckNode(r) ==
  LET d == dep["naive"]
  IN /\ making[r] = None /\ d # None /\ d.node = None
     /\ making' = [making EXCEPT ![r] = d.key]
     /\ Beside(~Quiet("naive") \/ vps.caddy = 0 \/ d.key \notin {0, vps.caddy}, {"naive"})
     /\ UNCHANGED <<vps, port, dep, panel, node, job, adrift, keys>>

\* The node, its link in the row (gone meanwhile: an error), then its port and its sidecar.
InsertNode(r, i) ==
  /\ making[r] # None /\ making' = [making EXCEPT ![r] = None] /\ Free(i)
  /\ IF port = None THEN UNCHANGED <<node, dep>>
     ELSE /\ node' = [node EXCEPT ![i] = [from |-> "naive", key |-> making[r],
                                          inner |-> dep["naive"] # None]]
          /\ dep' = IF dep["naive"] = None THEN dep
                    ELSE [dep EXCEPT !["naive"].node = i, !["naive"].status = "deployed"]
  /\ UNCHANGED <<vps, port, panel, job, adrift, keys, left, drift>>

DeleteDeployment(p) ==
  /\ dep[p] # None /\ dep' = [dep EXCEPT ![p] = None] /\ Mishap({p})
  /\ UNCHANGED <<vps, port, panel, node, job, adrift, making, keys>>

-----------------------------------------------------------------------------
(* The other rows. *)

\* A client of the panel is exported as a node (api/xui.py).
Export(i) ==
  /\ panel # None /\ Free(i) /\ Beside(~Quiet("xui"), {"xui"})
  /\ node' = [node EXCEPT ![i] = [from |-> "xui", key |-> panel.key, inner |-> TRUE]]
  /\ UNCHANGED <<vps, port, dep, panel, job, adrift, making, keys>>

DeleteNode(i) ==
  /\ node[i] # None /\ Forget({i}) /\ Beside(job["naive"].node = i, {"naive", "ssh"})
  /\ UNCHANGED <<vps, port, panel, job, adrift, making, keys>>

\* The server's row goes with all that hangs on it but the nodes; it may come back, under the
\* same id when it was the last of the table.
DeleteServer ==
  /\ port # None /\ port' = None /\ panel' = None /\ dep' = [p \in Protocols |-> None]
  /\ Mishap(Protocols)
  /\ UNCHANGED <<vps, node, job, adrift, making, keys>>

CreateServer ==
  /\ port = None /\ port' \in Listening /\ Calm
  /\ UNCHANGED <<vps, dep, panel, node, job, adrift, making, keys>>

UpdateServer ==
  /\ port # None /\ port' \in Listening \ {port} /\ Calm
  /\ UNCHANGED <<vps, dep, panel, node, job, adrift, making, keys>>

-----------------------------------------------------------------------------
RunJob(p) == \/ InstallExec(p) \/ RecordDeployment(p) \/ RecordPort(p)
             \/ UninstallExec(p) \/ DropDeployment(p)

Next ==
  \/ \E p \in Protocols :
       \/ RunJob(p) \/ Uninstall(p) \/ Cancel(p) \/ RunsOn(p) \/ DeleteDeployment(p)
       \/ \E pro \in BOOLEAN, ssh \in Asked \cup {None} : Deploy(p, pro, ssh)
  \/ RecordPanel \/ DropNodes \/ DropPanel \/ SaveDeployment \/ RunByHand
  \/ DeleteServer \/ CreateServer \/ UpdateServer
  \/ \E i \in Slots : \/ RecordNode(i) \/ Export(i) \/ DeleteNode(i)
                      \/ \E r \in Requests : InsertNode(r, i)
  \/ \E r \in Requests : CheckNode(r)

Spec == Init /\ [][Next]_vars

-----------------------------------------------------------------------------
(* Properties. *)

\* What a row calls deployed is on the machine, with the credentials that PiTun has: whatever
\* was installed, uninstalled, refused or failed before, for either protocol, the node that the
\* NaiveProxy row names and the row of the panel are those of the last install.  (A node whose
\* password was lost is NodesHaveCredentials.)
DeployedWorks ==
  /\ "naive" \notin drift /\ Quiet("naive") =>
       LET d == dep["naive"]
       IN d # None /\ d.status = "deployed" =>
            /\ vps.caddy # 0
            /\ d.node # None /\ node[d.node].key # 0 => node[d.node].key = vps.caddy
  /\ "xui" \notin drift /\ Quiet("xui") =>
       (dep["xui"] # None /\ dep["xui"].status = "deployed" =>
          panel # None /\ panel.key = vps.token)

\* Of a panel that is not on the machine nothing stays behind: no row of the panel, and no node
\* exported from it, whose clients are gone with it.
NothingLeftBehind ==
  "xui" \notin drift /\ Quiet("xui") /\ vps.token = 0 =>
    panel = None /\ dep["xui"] \in {None} \cup [status : {"failed"}, key : Key, pro : BOOLEAN, node : {None}]
    /\ \A i \in Slots : node[i] = None \/ node[i].from # "xui"

\* An installer that moves sshd does not lock PiTun out: when its job has ended well, the port
\* of the server's row is one that sshd listens on.
PortFollowsSshd ==
  "ssh" \notin drift /\ port # None /\ (\A p \in Protocols : Quiet(p)) => port \in Listening

-----------------------------------------------------------------------------
(* What comments say and the code does not do. *)

\* servers.py: "the guard fires only when BOTH the candidate and the existing deployment claim
\* :443", a bare panel "can coexist with naive".
On443(p, pro) == p = "naive" \/ pro
GuardIsExact ==
  \A p, q \in Protocols, pro \in BOOLEAN :
    p # q /\ (p = "naive" => ~pro) /\ dep[q] # None /\ dep[q].status = "deployed"
    /\ (dep[p] = None \/ dep[p].status # "deployed") =>
      (Refused(p, pro) <=> On443(p, pro) /\ On443(q, dep[q].pro))

\* naive_manager.py: a node without an internal port "should not happen - port is allocated at
\* node creation".
PortsAtCreation == \A i \in Slots : node[i] # None => node[i].inner

\* create_node_from_deployment: "a Node pre-filled with the right credentials".
NodesHaveCredentials == \A i \in Slots : node[i] # None => node[i].key # 0

\* create_node_from_deployment: "Idempotent by default", a double click makes no second node.
OneNodeCreated ==
  Cardinality({i \in Slots : node[i] # None /\ node[i].from = "naive" /\ node[i].inner}) <= 1

\* upsert_deployment: "Re-saving while we previously created a node -> mark as 'configured'".
ResavedIsConfigured ==
  [][dep["naive"] # None /\ dep'["naive"] # None /\ dep["naive"].node # None
     /\ dep'["naive"].key > dep["naive"].key => dep'["naive"].status = "configured"]_vars
====
