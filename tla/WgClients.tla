------------------------------ MODULE WgClients ------------------------------
(***************************************************************************)
(* WireGuard on a server PiTun reaches over SSH: the peers the server has, *)
(* the client rows PiTun keeps of them, the nodes exported from the rows,  *)
(* and the deployment row the client rows hang on.                         *)
(*                                                                         *)
(* Client requests take no lock: a step of one runs to its next call over  *)
(* SSH or its commit.  Install and uninstall run as jobs, one at a time    *)
(* (the slot of JobManager).  A key stands for the key pair of a peer; the *)
(* server knows its public half only, own says the row has the other.      *)
(***************************************************************************)
EXTENDS Naturals, FiniteSets, FiniteSetsExt

CONSTANTS
  Names,      \* names of clients
  Requests,   \* client requests that may be served at the same time
  Slots,      \* rows the node table may hold for this server
  None,
  MaxKeys,    \* bound: keys the server generates
  MaxMishaps  \* bound: activities begun beside another, answers lost, changes by hand, jobs
              \* cancelled

ASSUME WgAssumption ==
  /\ IsFiniteSet(Names) /\ IsFiniteSet(Requests) /\ IsFiniteSet(Slots)
  /\ Names # {} /\ MaxKeys \in Nat /\ MaxMishaps \in Nat

VARIABLES
  vps,    \* wg0.conf: None, or the key of each peer (0: no such peer)
  keys,   \* keys generated so far
  dep,    \* the ServerDeployment row: None or its status
  dc,     \* DeploymentClient: the row of a name
  node,   \* the nodes exported
  req,    \* what a client request is doing
  job,    \* the install or uninstall under way
  adrift, \* a script that runs on, on the server, after its job was cancelled
  left,   \* what remains of MaxMishaps
  alone,  \* history: a request under way has met no other activity
  drift   \* history: names that more than one activity at a time, or a mishap, touched

vars == <<vps, keys, dep, dc, node, req, job, adrift, left, alone, drift>>

Key == 1..MaxKeys
NoPeers == [n \in Names |-> 0]
Client == [id : Nat \ {0}, key : Key, own : BOOLEAN,
           status : {"available", "exported", "orphan"}]
Node == [n : Names, key : Key, from : Nat \ {0}, orphan : BOOLEAN]
Request == [at : {"idle", "add", "insert", "remove", "delete", "list", "reconcile", "export"},
            n : Names \cup {None}, row : Client \cup {None}, seen : [Names -> 0..MaxKeys]]
Job == [at : {"idle", "install", "client", "status", "uninstall", "drop"},
        n : Names \cup {None}, ok : BOOLEAN, key : 0..MaxKeys]
Idle == [at |-> "idle", n |-> None, row |-> None, seen |-> NoPeers]
NoJob == [at |-> "idle", n |-> None, ok |-> FALSE, key |-> 0]

\* What is not there is told from all that may be.
ASSUME NoneAssumption ==
  /\ None \notin Names /\ None \notin Requests /\ None \notin Client /\ None \notin Node
  /\ None \notin [Names -> 0..MaxKeys] /\ None \notin {"deployed", "failed"}

TypeOK ==
  /\ vps \in {None} \cup [Names -> 0..MaxKeys]
  /\ keys \in 0..MaxKeys
  /\ dep \in {None, "deployed", "failed"}
  /\ dc \in [Names -> Client \cup {None}]
  /\ dep = None => \A n \in Names : dc[n] = None
  /\ \A m, n \in Names : m # n /\ dc[m] # None /\ dc[n] # None => dc[m].id # dc[n].id
  /\ node \in [Slots -> Node \cup {None}]
  /\ req \in [Requests -> Request] /\ job \in Job
  /\ adrift \in {None, "install", "uninstall"} /\ left \in 0..MaxMishaps
  /\ alone \in [Requests -> BOOLEAN] /\ drift \subseteq Names

Init ==
  /\ vps = None /\ keys = 0 /\ dep = None /\ dc = [n \in Names |-> None]
  /\ node = [i \in Slots |-> None]
  /\ req = [r \in Requests |-> Idle] /\ job = NoJob /\ adrift = None
  /\ left = MaxMishaps /\ alone = [r \in Requests |-> TRUE] /\ drift = {}

-----------------------------------------------------------------------------
(* Who acts at the same time as whom. *)

Scope(r) == CASE req[r].at = "idle" -> {}
              [] req[r].at \in {"list", "reconcile"} -> Names
              [] OTHER -> {req[r].n}
Others(r) == (UNION {Scope(q) : q \in Requests \ {r}}) \cup
             (IF job.at # "idle" \/ adrift # None THEN Names ELSE {})

\* r begins to act on the names S; r stands for no request when a job begins.
Begin(r, S) ==
  /\ IF Others(r) = {} THEN UNCHANGED left ELSE left > 0 /\ left' = left - 1
  /\ drift' = drift \cup (S \cap Others(r))
  /\ alone' = [q \in Requests |-> q = r /\ Others(r) = {}]
Mishap(S) ==
  /\ left > 0 /\ left' = left - 1
  /\ drift' = drift \cup S /\ alone' = [q \in Requests |-> FALSE]
Calm == UNCHANGED <<left, alone, drift>>

Go(r, s) == req' = [req EXCEPT ![r] = s]
Done(r) == Go(r, Idle)

\* SQLite gives the id after the highest one in the table.
NewId == Max({0} \cup {dc[n].id : n \in {n \in Names : dc[n] # None}}) + 1
Row(key, own) == [id |-> NewId, key |-> key, own |-> own, status |-> "available"]

Exported(id) == \E i \in Slots : node[i] # None /\ node[i].from = id

\* The exported nodes of these client rows.
Flagged(ids) == [i \in Slots |-> IF node[i] # None /\ node[i].from \in ids
                                   THEN [node[i] EXCEPT !.orphan = TRUE] ELSE node[i]]

-----------------------------------------------------------------------------
(* A script on the server: what it does to the peers, or that it refuses. *)

Peer(n) == IF vps = None THEN 0 ELSE vps[n]

AddPeer(n) == vps # None /\ vps[n] = 0 /\ keys < MaxKeys
              /\ vps' = [vps EXCEPT ![n] = keys + 1] /\ keys' = keys + 1
RemovePeer(n) == vps # None /\ vps[n] # 0
                 /\ vps' = [vps EXCEPT ![n] = 0] /\ UNCHANGED keys
CannotAdd(n) == (vps # None => vps[n] # 0) /\ UNCHANGED <<vps, keys>>
CannotRemove(n) == Peer(n) = 0 /\ UNCHANGED <<vps, keys>>

-----------------------------------------------------------------------------
(* add_client. *)

AddClient(r, n) ==
  /\ req[r].at = "idle" /\ dep # None /\ dc[n] = None
  /\ Go(r, [Idle EXCEPT !.at = "add", !.n = n]) /\ Begin(r, {n})
  /\ UNCHANGED <<vps, keys, dep, dc, node, job, adrift>>

AddExec(r) ==
  LET n == req[r].n
  IN /\ req[r].at = "add"
     /\ \/ AddPeer(n) /\ Go(r, [req[r] EXCEPT !.at = "insert", !.seen[n] = keys + 1]) /\ Calm
        \/ CannotAdd(n) /\ Done(r) /\ Calm
        \/ AddPeer(n) /\ Done(r) /\ Mishap({n})         \* the answer is lost
        \/ UNCHANGED <<vps, keys>> /\ Done(r) /\ Mishap({n})
     /\ UNCHANGED <<dep, dc, node, job, adrift>>

\* The deployment is gone, or the name is taken by now: the commit fails.
AddInsert(r) ==
  LET n == req[r].n
  IN /\ req[r].at = "insert"
     /\ dc' = IF dep = None \/ dc[n] # None THEN dc
              ELSE [dc EXCEPT ![n] = Row(req[r].seen[n], TRUE)]
     /\ Done(r)
     /\ UNCHANGED <<vps, keys, dep, node, job, adrift, left, alone, drift>>

-----------------------------------------------------------------------------
(* remove_client. *)

RemoveClient(r, n) ==
  /\ req[r].at = "idle" /\ dep # None /\ dc[n] # None
  /\ Go(r, [Idle EXCEPT !.at = "remove", !.n = n, !.row = dc[n]]) /\ Begin(r, {n})
  /\ UNCHANGED <<vps, keys, dep, dc, node, job, adrift>>

RemoveExec(r) ==
  LET n == req[r].n
  IN /\ req[r].at = "remove"
     /\ \/ RemovePeer(n) /\ Go(r, [req[r] EXCEPT !.at = "delete"]) /\ Calm
        \/ CannotRemove(n) /\ Done(r) /\ Calm
        \/ RemovePeer(n) /\ Done(r) /\ Mishap({n})
        \/ UNCHANGED <<vps, keys>> /\ Done(r) /\ Mishap({n})
     /\ UNCHANGED <<dep, dc, node, job, adrift>>

RemoveDeleteMutant(r) ==
  LET n == req[r].n
      id == req[r].row.id
  IN /\ req[r].at = "delete"
     /\ IF dc[n] # None /\ dc[n].id = id
          THEN dc' = [dc EXCEPT ![n] = IF Exported(id) THEN @ ELSE None] /\ node' = Flagged({id})
          ELSE UNCHANGED <<dc, node>>
     /\ Done(r)
     /\ UNCHANGED <<vps, keys, dep, job, adrift, left, alone, drift>>

\* The row and the flags of its nodes in one commit; the row is gone: the commit fails.
RemoveDelete(r) ==
  LET n == req[r].n
      id == req[r].row.id
  IN /\ req[r].at = "delete"
     /\ IF dc[n] # None /\ dc[n].id = id
          THEN dc' = [dc EXCEPT ![n] = None] /\ node' = Flagged({id})
          ELSE UNCHANGED <<dc, node>>
     /\ Done(r)
     /\ UNCHANGED <<vps, keys, dep, job, adrift, left, alone, drift>>

-----------------------------------------------------------------------------
(* sync_clients. *)

SyncClients(r) ==
  /\ req[r].at = "idle" /\ dep # None
  /\ Go(r, [Idle EXCEPT !.at = "list"]) /\ Begin(r, Names)
  /\ UNCHANGED <<vps, keys, dep, dc, node, job, adrift>>

ListPeers(r) ==
  /\ req[r].at = "list"
  /\ IF vps = None THEN Done(r) ELSE Go(r, [req[r] EXCEPT !.at = "reconcile", !.seen = vps])
  /\ UNCHANGED <<vps, keys, dep, dc, node, job, adrift, left, alone, drift>>

\* Known peers: an orphan is available again.  Unknown ones: a row without the private key.
Known(n) == IF dc[n].status = "orphan" THEN [dc[n] EXCEPT !.status = "available"] ELSE dc[n]
Imported(seen, n) ==
  LET new == {m \in Names : seen[m] # 0 /\ dc[m] = None}
      at == CHOOSE f \in [new -> 1..Cardinality(new)] : \A a, b \in new : a # b => f[a] # f[b]
  IN [id |-> NewId - 1 + at[n], key |-> seen[n], own |-> FALSE, status |-> "available"]

ReconcileMutant(r) ==
  LET seen == req[r].seen
      gone == {n \in Names : seen[n] = 0 /\ dc[n] # None}
  IN /\ req[r].at = "reconcile"
     /\ dc' = IF dep = None THEN dc
              ELSE [n \in Names |->
                      CASE seen[n] # 0 /\ dc[n] # None -> dc[n]
                        [] seen[n] # 0 /\ dc[n] = None -> Imported(seen, n)
                        [] n \in gone -> [dc[n] EXCEPT !.status = "orphan"]
                        [] OTHER -> None]
     /\ node' = IF dep = None THEN node ELSE Flagged({dc[n].id : n \in gone})
     /\ Done(r)
     /\ UNCHANGED <<vps, keys, dep, job, adrift, left, alone, drift>>

Reconcile(r) ==
  LET seen == req[r].seen
      gone == {n \in Names : seen[n] = 0 /\ dc[n] # None}
  IN /\ req[r].at = "reconcile"
     /\ dc' = IF dep = None THEN dc
              ELSE [n \in Names |->
                      CASE seen[n] # 0 /\ dc[n] # None -> Known(n)
                        [] seen[n] # 0 /\ dc[n] = None -> Imported(seen, n)
                        [] n \in gone -> [dc[n] EXCEPT !.status = "orphan"]
                        [] OTHER -> None]
     /\ node' = IF dep = None THEN node
                ELSE Flagged({dc[n].id : n \in {n \in gone : dc[n].status # "orphan"}})
     /\ Done(r)
     /\ UNCHANGED <<vps, keys, dep, job, adrift, left, alone, drift>>

-----------------------------------------------------------------------------
(* export_to_node, without force. *)

\* A node that names the row is returned and nothing changes.
ExportClient(r, n) ==
  /\ req[r].at = "idle" /\ dep # None /\ dc[n] # None /\ dc[n].own /\ ~Exported(dc[n].id)
  /\ Go(r, [Idle EXCEPT !.at = "export", !.n = n, !.row = dc[n]]) /\ Begin(r, {n})
  /\ UNCHANGED <<vps, keys, dep, dc, node, job, adrift>>

\* The status of a row that is gone cannot be written: the commit fails.
ExportInsert(r) ==
  LET n == req[r].n
      row == req[r].row
      still == dc[n] # None /\ dc[n].id = row.id
  IN /\ req[r].at = "export"
     /\ IF ~still /\ row.status = "available" THEN UNCHANGED <<dc, node>>
        ELSE \E i \in {i \in Slots : node[i] = None} :
               /\ node' = [node EXCEPT ![i] = [n |-> n, key |-> row.key, from |-> row.id,
                                               orphan |-> FALSE]]
               /\ dc' = IF still /\ row.status = "available"
                          THEN [dc EXCEPT ![n].status = "exported"] ELSE dc
     /\ Done(r)
     /\ UNCHANGED <<vps, keys, dep, job, adrift, left, alone, drift>>

DeleteNode(i) ==
  /\ node[i] # None /\ node' = [node EXCEPT ![i] = None]
  /\ UNCHANGED <<vps, keys, dep, dc, req, job, adrift, left, alone, drift>>

-----------------------------------------------------------------------------
(* deploy_to_server and uninstall_server for wireguard: the runner of a job. *)

StartJob(at, n) ==
  /\ job.at = "idle" /\ job' = [NoJob EXCEPT !.at = at, !.n = n] /\ Begin(None, Names)
  /\ UNCHANGED <<vps, keys, dep, dc, node, req, adrift>>
Deploy(n) == StartJob("install", n)
Uninstall == StartJob("uninstall", None)

\* install refuses where wg0.conf is there; else it adds the first peer.
Install(n) ==
  IF vps # None \/ keys = MaxKeys THEN UNCHANGED <<vps, keys>>
  ELSE vps' = [NoPeers EXCEPT ![n] = keys + 1] /\ keys' = keys + 1

InstallExec ==
  /\ job.at = "install" /\ Install(job.n)
  /\ job' = IF vps = None /\ keys < MaxKeys
              THEN [job EXCEPT !.at = "client", !.key = keys + 1, !.ok = TRUE]
              ELSE [job EXCEPT !.at = "status"]
  /\ UNCHANGED <<dep, dc, node, req, adrift, left, alone, drift>>

\* The first client: the deployment row if there is none, and the client's.  A row of that name
\* is there already: the commit fails, and the job with it.
RecordClient ==
  /\ job.at = "client"
  /\ IF dc[job.n] # None THEN job' = NoJob /\ UNCHANGED <<dep, dc>>
     ELSE /\ dep' = IF dep = None THEN "deployed" ELSE dep
          /\ dc' = [dc EXCEPT ![job.n] = Row(job.key, TRUE)]
          /\ job' = [job EXCEPT !.at = "status"]
  /\ UNCHANGED <<vps, keys, node, req, adrift, left, alone, drift>>

RecordStatus ==
  /\ job.at = "status"
  /\ dep' = IF job.ok THEN (IF dep = None THEN "deployed" ELSE dep) ELSE "failed"
  /\ job' = NoJob
  /\ UNCHANGED <<vps, keys, dc, node, req, adrift, left, alone, drift>>

UninstallExec ==
  /\ job.at = "uninstall" /\ vps' = None /\ job' = [job EXCEPT !.at = "drop"]
  /\ UNCHANGED <<keys, dep, dc, node, req, adrift, left, alone, drift>>

DropDeploymentMutant ==
  /\ job.at = "drop" /\ job' = NoJob
  /\ dep' = None /\ dc' = [n \in Names |-> None] /\ UNCHANGED node
  /\ UNCHANGED <<vps, keys, req, adrift, left, alone, drift>>

\* The client rows go with the deployment row (ON DELETE CASCADE).
DropDeployment ==
  /\ job.at = "drop" /\ job' = NoJob
  /\ node' = Flagged({dc[n].id : n \in {n \in Names : dc[n] # None}})
  /\ dep' = None /\ dc' = [n \in Names |-> None]
  /\ UNCHANGED <<vps, keys, req, adrift, left, alone, drift>>

\* A job is cancelled, or the backend ends: the script runs on by itself.
Cancel ==
  /\ job.at # "idle" /\ adrift = None /\ Mishap(Names) /\ job' = NoJob
  /\ adrift' = IF job.at \in {"install", "uninstall"} THEN job.at ELSE None
  /\ UNCHANGED <<vps, keys, dep, dc, node, req>>

RunsOn ==
  /\ adrift # None /\ adrift' = None
  /\ \/ adrift = "install" /\ \E n \in Names : Install(n)
     \/ adrift = "uninstall" /\ vps' = None /\ UNCHANGED keys
  /\ UNCHANGED <<dep, dc, node, req, job, left, alone, drift>>

\* delete_deployment, and delete_server for what hangs on the server: rows only.
DeleteDeployment ==
  /\ dep # None /\ dep' = None /\ dc' = [n \in Names |-> None] /\ Mishap(Names)
  /\ UNCHANGED <<vps, keys, node, req, job, adrift>>

\* Someone adds or removes a peer on the server.
ByHand(n) ==
  /\ (AddPeer(n) \/ RemovePeer(n)) /\ Mishap({n})
  /\ UNCHANGED <<dep, dc, node, req, job, adrift>>

-----------------------------------------------------------------------------
Serve(r) ==
  \/ AddExec(r) \/ AddInsert(r) \/ RemoveExec(r) \/ RemoveDelete(r)
  \/ ListPeers(r) \/ Reconcile(r) \/ ExportInsert(r)

RunJob == InstallExec \/ RecordClient \/ RecordStatus \/ UninstallExec \/ DropDeployment

Next ==
  \/ \E r \in Requests : \/ Serve(r) \/ SyncClients(r)
                         \/ \E n \in Names : \/ AddClient(r, n) \/ RemoveClient(r, n)
                                             \/ ExportClient(r, n)
  \/ \E i \in Slots : DeleteNode(i)
  \/ \E n \in Names : Deploy(n) \/ ByHand(n)
  \/ Uninstall \/ RunJob \/ Cancel \/ RunsOn \/ DeleteDeployment

Spec == Init /\ [][Next]_vars
-----------------------------------------------------------------------------
(* Properties. *)

Quiet == job.at = "idle" /\ adrift = None /\ \A r \in Requests : req[r].at = "idle"

(* A name that one activity at a time has touched, with its answers        *)
(* received, has a row that is not an orphan exactly when the server has   *)
(* its peer, and the row has the peer's key.                               *)
RowsMatchPeers ==
  Quiet => \A n \in Names \ drift :
             IF dc[n] # None /\ dc[n].status # "orphan" THEN Peer(n) = dc[n].key ELSE Peer(n) = 0

(* A node that is not flagged as orphan has the key of a peer the server   *)
(* still has: whatever removal, uninstall or sync did away with the peer   *)
(* has flagged the nodes exported from its row.                            *)
UnflaggedNodesLive ==
  Quiet => \A i \in Slots : node[i] # None /\ ~node[i].orphan /\ node[i].n \notin drift
                              => Peer(node[i].n) = node[i].key

(* Export makes one node of a client, however often it is asked one after  *)
(* the other, and no two clients share one.                                *)
ExportedOnce ==
  LET kept == {i \in Slots : node[i] # None /\ ~node[i].orphan /\ node[i].n \notin drift}
  IN \A i, j \in kept : i # j => node[i].from # node[j].from

(* A sync that meets no other activity leaves a row, not an orphan, for    *)
(* each peer of the server and for no other name, whatever had gone wrong  *)
(* before.                                                                 *)
LoneSyncMirrors ==
  [][\A r \in Requests : Reconcile(r) /\ alone[r] =>
       \A n \in Names : Peer(n) # 0 <=> dc'[n] # None /\ dc'[n].status # "orphan"]_vars

-----------------------------------------------------------------------------
(* Claims of the code. *)

(* export_to_node: the node a client names as its own is a node of that    *)
(* client.                                                                 *)
LinksAreTrue ==
  \A n \in Names, i \in Slots :
     dc[n] # None /\ node[i] # None /\ node[i].from = dc[n].id => node[i].key = dc[n].key

(* uninstall_server: the nodes exported from the clients of a server that  *)
(* was uninstalled are flagged.                                            *)
UninstallFlags ==
  [][DropDeployment => \A i \in Slots : node'[i] # None => node'[i].orphan]_vars

(* sync_clients: a client that is back on the server is available again.   *)
BackIsUsable ==
  Quiet => \A n \in Names : dc[n] # None /\ dc[n].own /\ dc[n].status = "available"
                              /\ Peer(n) # 0 => Peer(n) = dc[n].key

(* remove_client: a client can be removed.  (A row whose peer is gone      *)
(* stays: the script refuses each time.)                                   *)
RemovalsEnd ==
  [][\A r \in Requests, n \in Names :
       req[r].at = "remove" /\ req[r].n = n /\ req'[r].at = "idle" /\ left' = left
         => Peer(n) # 0]_vars
=============================================================================
