------------------------- MODULE ServerDeployProofs -------------------------
(***************************************************************************)
(* Proofs about ServerDeploy, for any nodes, requests, ports and bounds:   *)
(* what a row calls deployed is on the machine with the credentials PiTun  *)
(* has, and of a panel that is gone nothing stays behind.                  *)
(*                                                                         *)
(* And about XuiPanel, which tends the panel that a deployment leaves, for *)
(* any inbounds, clients, requests and bounds: a change nobody interfered  *)
(* with is in force when it is done, and a synchronisation nobody          *)
(* interfered with leaves a mirror of the panel.                           *)
(***************************************************************************)
EXTENDS ServerDeploy, XuiPanel, FiniteSetTheorems, TLAPS

Naive == job["naive"]
Xui == job["xui"]

JobAt == {"idle", "install", "result", "record", "port", "uninstall", "drop", "nodes", "panel"}
JobType == [at : JobAt, pro : BOOLEAN, ssh : Asked \cup {None}, port : Ports, ok : BOOLEAN,
            key : Key, node : Slots \cup {None}]
Adrift == [wipe : BOOLEAN, pro : BOOLEAN, ssh : Asked \cup {None}]
Vps == [caddy : Key, token : Key, nginx : BOOLEAN, drop : [Protocols -> {None, Moved}]]

VpsOK == vps \in Vps /\ (vps.nginx => vps.token # 0 /\ vps.caddy = 0)

RowsOK ==
  /\ port \in Ports \cup {None} /\ panel \in Panel \cup {None}
  /\ dep \in [Protocols -> Deployment \cup {None}] /\ node \in [Slots -> Node \cup {None}]
  /\ \A p \in Protocols :
       dep[p] # None /\ dep[p].node # None => p = "naive" /\ node[dep[p].node] # None
  /\ port = None => panel = None /\ \A p \in Protocols : dep[p] = None
  /\ dep["xui"] # None => dep["xui"].status # "configured"

\* NaiveProxy has no panel to drop; a job of 3x-ui makes no node, and its script has ended well
\* only with a token.  Where no port was asked for there is none to record.
JobsOK ==
  /\ job \in [Protocols -> JobType] /\ adrift \in [Protocols -> Adrift \cup {None}]
  /\ Naive.at \notin {"nodes", "panel"}
  /\ Xui.node = None /\ (Xui.ok => Xui.at # "install" /\ Xui.key # 0)
  /\ \A p \in Protocols : job[p].at = "port" => job[p].ssh # None

\* A key is set aside for every install whose script has not run.
Owed(p) == adrift[p] # None /\ ~adrift[p].wipe
One(p) == IF job[p].at = "install" THEN 1 ELSE 0
Two(p) == IF Owed(p) THEN 1 ELSE 0
KeysOK == keys \in Nat /\ keys + One("naive") + One("xui") + Two("naive") + Two("xui") <= MaxKeys

RestOK ==
  /\ making \in [Requests -> Key \cup {None}] /\ left \in 0..MaxMishaps
  /\ drift \subseteq Protocols \cup {"ssh"}

Typed == VpsOK /\ RowsOK /\ JobsOK /\ KeysOK /\ RestOK

Deployed(p) == dep[p] # None /\ dep[p].status = "deployed"

NaiveGood ==
  Deployed("naive") => /\ vps.caddy # 0
                       /\ dep["naive"].node # None /\ node[dep["naive"].node].key # 0
                            => node[dep["naive"].node].key = vps.caddy

\* NaiveProxy while one actor at a time was at work and nothing went wrong: what a job carries
\* from the machine to the rows is still the machine's, and so is what a create-node request
\* has read.
NaiveInv ==
  "naive" \notin drift =>
    /\ adrift["naive"] = None
    /\ \A r \in Requests : making[r] # None =>
         Naive.at = "idle" /\ vps.caddy # 0 /\ making[r] \in {0, vps.caddy}
    /\ Naive.at \in {"idle", "port", "uninstall"} => NaiveGood
    /\ Naive.at \in {"result", "record", "port"} /\ Naive.ok =>
         vps.caddy # 0 /\ Naive.key = vps.caddy
    /\ Naive.at \in {"record", "port"} /\ Naive.ok =>
         Naive.node # None /\ node[Naive.node] # None /\ node[Naive.node].key = Naive.key
         /\ node[Naive.node].from = "naive"
    /\ Naive.at = "port" => Naive.ok
    /\ Naive.node # None => Naive.at \in {"record", "port"} /\ Naive.ok

NoExports == \A i \in Slots : node[i] = None \/ node[i].from # "xui"
Removing == Xui.at \in {"drop", "nodes", "panel"}

\* 3x-ui likewise: no node without the row of the panel, and no row of the panel without the
\* panel but while an uninstall removes them one after the other.
XuiInv ==
  "xui" \notin drift =>
    /\ adrift["xui"] = None
    /\ Xui.at \in {"install", "result", "record"} => ~Deployed("xui")
    /\ Xui.at \in {"result", "record", "port"} /\ Xui.ok => vps.token # 0
    /\ Xui.at = "result" /\ Xui.ok => Xui.key = vps.token
    /\ Xui.at \in {"record", "port"} /\ Xui.ok => panel # None /\ panel.key = vps.token
    /\ Xui.at = "port" => Xui.ok
    /\ Xui.at \in {"idle", "port", "uninstall"} /\ Deployed("xui")
         => panel # None /\ panel.key = vps.token
    /\ panel = None \/ Xui.at = "panel" => NoExports
    /\ Xui.at = "nodes" => panel # None
    /\ Xui.at \in {"nodes", "panel"} => dep["xui"] = None
    /\ Removing => vps.token = 0
    /\ vps.token = 0 /\ ~Removing => panel = None /\ ~Deployed("xui")

DeployInv == Typed /\ NaiveInv /\ XuiInv

-----------------------------------------------------------------------------
(* Types.                                                                  *)

USE DEF Protocols

LEMMA TypedOK ==
  ASSUME Typed PROVE TypeOK
<1>1. keys \in Key
  BY ConstantsAssumption DEF Typed, KeysOK, One, Two, Key
<1>2. vps \in [caddy : Key, token : Key, nginx : BOOLEAN, drop : [Protocols -> {None, Moved}]]
      /\ (vps.nginx => vps.token # 0 /\ vps.caddy = 0)
  BY DEF Typed, VpsOK, Vps
<1>3. \A p \in Protocols :
       /\ job[p].at \in JobAt
       /\ job[p].ssh \in Asked \cup {None} /\ job[p].key \in Key
       /\ job[p].node \in Slots \cup {None}
       /\ adrift[p] \in {None} \cup Adrift
  BY DEF Typed, JobsOK, JobType
<1> QED BY <1>1, <1>2, <1>3 DEF Typed, RowsOK, RestOK, TypeOK, JobAt, Adrift

LEMMA PairCardinality ==
  ASSUME NEW S \in SUBSET Protocols
  PROVE  Cardinality(S) = (IF "naive" \in S THEN 1 ELSE 0) + (IF "xui" \in S THEN 1 ELSE 0)
<1>1. CASE S = {}
  BY <1>1, FS_EmptySet
<1>2. CASE S = {"naive"} \/ S = {"xui"}
  <2>1. Cardinality({"naive"}) = 1 /\ Cardinality({"xui"}) = 1
    BY FS_Singleton
  <2> QED BY <1>2, <2>1
<1>3. CASE S = {"naive", "xui"}
  <2>1. IsFiniteSet({"naive"}) /\ Cardinality({"naive"}) = 1
    BY FS_Singleton
  <2>2. Cardinality({"naive"} \cup {"xui"}) = 2
    BY <2>1, FS_AddElement
  <2>3. S = {"naive"} \cup {"xui"}
    BY <1>3
  <2> QED BY <2>2, <2>3
<1> QED BY <1>1, <1>2, <1>3

LEMMA RoomKeys ==
  ASSUME Room, KeysOK
  PROVE  keys + One("naive") + One("xui") + Two("naive") + Two("xui") < MaxKeys
<1> DEFINE A == {p \in Protocols : job[p].at = "install"}
           B == {p \in Protocols : adrift[p] # None}
<1>1. Cardinality(A) = (IF "naive" \in A THEN 1 ELSE 0) + (IF "xui" \in A THEN 1 ELSE 0)
  BY PairCardinality
<1>6. Cardinality(A) = One("naive") + One("xui")
  BY <1>1 DEF One
<1>2. Cardinality(B) = (IF "naive" \in B THEN 1 ELSE 0) + (IF "xui" \in B THEN 1 ELSE 0)
  BY PairCardinality
<1>3. Cardinality(B) \in Nat /\ Cardinality(B) >= Two("naive") + Two("xui")
  BY <1>2 DEF Two, Owed
<1>4. keys + Cardinality(A) + Cardinality(B) < MaxKeys
  BY DEF Room
<1> HIDE DEF A, B
<1>5. One("naive") \in Nat /\ One("xui") \in Nat /\ Two("naive") \in Nat /\ Two("xui") \in Nat
      /\ keys \in Nat /\ MaxKeys \in Nat
  BY ConstantsAssumption DEF One, Two, KeysOK
<1> QED BY <1>3, <1>4, <1>5, <1>6

\* Who has no script to run any more owes no key.
LEMMA KeysFrame ==
  ASSUME KeysOK, keys' = keys,
         \A p \in Protocols : job'[p].at = "install" => job[p].at = "install",
         \A p \in Protocols : Owed(p)' => Owed(p)
  PROVE  KeysOK'
BY ConstantsAssumption DEF KeysOK, One, Two

LEMMA KeysSpent ==
  ASSUME KeysOK, NEW p \in Protocols, keys' \in {keys, keys + 1},
         \A q \in Protocols \ {p} : job'[q].at = "install" => job[q].at = "install",
         \A q \in Protocols \ {p} : Owed(q)' => Owed(q),
         job'[p].at # "install" \/ job[p].at = "install", Owed(p)' => Owed(p),
         \/ job[p].at = "install" /\ job'[p].at # "install"
         \/ Owed(p) /\ ~Owed(p)'
  PROVE  KeysOK'
<1>1. \A q \in Protocols : One(q) \in Nat /\ Two(q) \in Nat /\ One(q)' \in Nat /\ Two(q)' \in Nat
  BY DEF One, Two
<1>2. One(p)' + Two(p)' + 1 <= One(p) + Two(p)
  <2>1. One(p)' <= One(p) /\ Two(p)' <= Two(p)
    BY DEF One, Two
  <2>2. One(p)' + 1 <= One(p) \/ Two(p)' + 1 <= Two(p)
    BY DEF One, Two
  <2> QED BY <1>1, <2>1, <2>2
<1>3. \A q \in Protocols \ {p} : One(q)' <= One(q) /\ Two(q)' <= Two(q)
  BY DEF One, Two
<1>4. keys \in Nat /\ keys' \in Nat /\ keys' <= keys + 1
  BY DEF KeysOK
<1>5. CASE p = "naive"
  <2>1. One("xui")' <= One("xui") /\ Two("xui")' <= Two("xui")
    BY <1>3, <1>5
  <2> QED BY <1>1, <1>2, <1>4, <1>5, <2>1, ConstantsAssumption DEF KeysOK
<1>6. CASE p = "xui"
  <2>1. One("naive")' <= One("naive") /\ Two("naive")' <= Two("naive")
    BY <1>3, <1>6
  <2> QED BY <1>1, <1>2, <1>4, <1>6, <2>1, ConstantsAssumption DEF KeysOK
<1> QED BY <1>5, <1>6

LEMMA KeysMoved ==
  ASSUME KeysOK, NEW p \in Protocols, keys' = keys,
         \A q \in Protocols \ {p} : job'[q].at = "install" => job[q].at = "install",
         \A q \in Protocols \ {p} : Owed(q)' => Owed(q),
         job'[p].at # "install", Owed(p)' => job[p].at = "install"
  PROVE  KeysOK'
<1>1. \A q \in Protocols : One(q) \in Nat /\ Two(q) \in Nat /\ One(q)' \in Nat /\ Two(q)' \in Nat
  BY DEF One, Two
<1>2. One(p)' + Two(p)' <= One(p) + Two(p)
  <2>1. One(p)' = 0
    BY DEF One
  <2>2. Two(p)' = 0 \/ (Two(p)' = 1 /\ One(p) = 1)
    BY DEF One, Two
  <2> QED BY <1>1, <2>1, <2>2
<1>3. \A q \in Protocols \ {p} : One(q)' <= One(q) /\ Two(q)' <= Two(q)
  BY DEF One, Two
<1>4. CASE p = "naive"
  <2>1. One("xui")' <= One("xui") /\ Two("xui")' <= Two("xui")
    BY <1>3, <1>4
  <2> QED BY <1>1, <1>2, <1>4, <2>1, ConstantsAssumption DEF KeysOK
<1>5. CASE p = "xui"
  <2>1. One("naive")' <= One("naive") /\ Two("naive")' <= Two("naive")
    BY <1>3, <1>5
  <2> QED BY <1>1, <1>2, <1>5, <2>1, ConstantsAssumption DEF KeysOK
<1> QED BY <1>4, <1>5

\* Nothing makes a protocol's history clean again.
LEMMA BesideFacts ==
  ASSUME RestOK, NEW S \in SUBSET (Protocols \cup {"ssh"}),
         \/ Calm \/ Mishap(S)
  PROVE  left' \in 0..MaxMishaps /\ drift' \subseteq Protocols \cup {"ssh"} /\ drift \subseteq drift'
<1>1. CASE Calm
  BY <1>1 DEF RestOK, Calm
<1>2. CASE Mishap(S)
  <2>1. left \in Nat /\ left <= MaxMishaps /\ left > 0 /\ left' = left - 1 /\ MaxMishaps \in Nat
    BY <1>2, ConstantsAssumption DEF RestOK, Mishap
  <2>2. left' \in 0..MaxMishaps
    BY <2>1
  <2> QED BY <1>2, <2>2 DEF RestOK, Mishap
<1> QED BY <1>1, <1>2

LEMMA GoFacts ==
  ASSUME JobsOK, NEW p \in Protocols, NEW x \in JobType, Go(p, x), UNCHANGED adrift,
         p = "naive" => x.at \notin {"nodes", "panel"},
         p = "xui" => x.node = None /\ (x.ok => x.at # "install" /\ x.key # 0),
         x.at = "port" => x.ssh # None
  PROVE  /\ JobsOK' /\ job'[p] = x /\ \A q \in Protocols \ {p} : job'[q] = job[q]
         /\ job' = [job EXCEPT ![p] = x]
<1>1. /\ job'[p] = x /\ job' \in [Protocols -> JobType]
      /\ \A q \in Protocols \ {p} : job'[q] = job[q]
  BY DEF Go, JobsOK
<1> QED BY <1>1 DEF JobsOK, Naive, Xui, Go

LEMMA NoJobType ==
  NoJob \in JobType /\ NoJob.at = "idle" /\ NoJob.node = None /\ NoJob.ok = FALSE
BY ConstantsAssumption DEF NoJob, JobType, JobAt, Ports, Key

-----------------------------------------------------------------------------
(* What a step leaves alone.                                               *)

LEMMA NaiveFrame ==
  ASSUME Typed, NaiveInv, drift \subseteq drift', UNCHANGED making, vps'.caddy = vps.caddy,
         dep'["naive"] = dep["naive"], job'["naive"] = job["naive"],
         adrift'["naive"] = adrift["naive"],
         \A i \in Slots : node[i] # None => node'[i] = node[i]
  PROVE  NaiveInv'
<1> SUFFICES ASSUME "naive" \notin drift' PROVE NaiveInv'
  BY DEF NaiveInv
<1>1. /\ dep["naive"] # None /\ dep["naive"].node # None
           => dep["naive"].node \in Slots /\ node[dep["naive"].node] # None
      /\ job["naive"].node \in Slots \cup {None}
  BY DEF Typed, RowsOK, JobsOK, JobType, Deployment
<1>2. NaiveGood => NaiveGood'
  BY <1>1 DEF NaiveGood, Deployed
<1> QED BY <1>1, <1>2 DEF NaiveInv, Naive

LEMMA XuiFrame ==
  ASSUME Typed, XuiInv, drift \subseteq drift', vps'.token = vps.token, UNCHANGED panel,
         dep'["xui"] = dep["xui"], job'["xui"] = job["xui"], adrift'["xui"] = adrift["xui"],
         \A i \in Slots : \/ node'[i] = None \/ node'[i] = node[i]
                          \/ node'[i].from # "xui"
  PROVE  XuiInv'
<1> SUFFICES ASSUME "xui" \notin drift' PROVE XuiInv'
  BY DEF XuiInv
<1>1. NoExports => NoExports'
  BY DEF NoExports
<1> QED BY <1>1 DEF XuiInv, Xui, Removing, Deployed

LEMMA NaiveSpoilt == ASSUME "naive" \in drift' PROVE NaiveInv'
BY DEF NaiveInv

LEMMA XuiSpoilt == ASSUME "xui" \in drift' PROVE XuiInv'
BY DEF XuiInv

\* A key is there for whoever has one set aside.
LEMMA KeyThere ==
  ASSUME KeysOK, NEW p \in Protocols, job[p].at = "install" \/ Owed(p)
  PROVE  keys \in Nat /\ MaxKeys \in Nat /\ keys + 1 <= MaxKeys /\ keys + 1 \in Key \ {0} /\ 0 \in Key
<1>1. \A q \in Protocols : One(q) \in Nat /\ Two(q) \in Nat
  BY DEF One, Two
<1>2. One(p) = 1 \/ Two(p) = 1
  BY DEF One, Two
<1>3. keys \in Nat /\ MaxKeys \in Nat /\ keys + One("naive") + One("xui") + Two("naive") + Two("xui") <= MaxKeys
  BY ConstantsAssumption DEF KeysOK
<1>4. One("naive") + One("xui") + Two("naive") + Two("xui") >= 1
  BY <1>1, <1>2
<1>5. keys + 1 <= MaxKeys
  BY <1>1, <1>3, <1>4
<1> QED BY <1>3, <1>5 DEF Key

LEMMA DropType ==
  ASSUME VpsOK, NEW p \in Protocols, NEW ssh
  PROVE  Drop(p, ssh) \in [Protocols -> {None, Moved}]
BY DEF VpsOK, Vps, Drop

\* What an install leaves on the machine.
LEMMA InstallsFacts ==
  ASSUME VpsOK, KeysOK, NEW p \in Protocols, job[p].at = "install" \/ Owed(p),
         NEW pro \in BOOLEAN, NEW ssh, Installs(p, pro, ssh)
  PROVE  /\ VpsOK' /\ keys' \in {keys, keys + 1}
         /\ p = "naive" => /\ vps'.token = vps.token
                           /\ IF vps.nginx THEN vps'.caddy = vps.caddy ELSE vps'.caddy # 0
         /\ p = "xui" => /\ vps'.caddy = vps.caddy
                         /\ IF Installed(p, pro) THEN vps'.token # 0 ELSE vps'.token = vps.token
<1>1. keys + 1 \in Key \ {0} /\ 0 \in Key
  BY KeyThere
<1>2. vps \in Vps /\ (vps.nginx => vps.token # 0 /\ vps.caddy = 0)
  BY DEF VpsOK
<1>3. CASE p = "naive"
  <2>1. PICK d \in [Protocols -> {None, Moved}] : d = Drop("naive", ssh)
    BY <1>3, DropType
  <2>2. /\ keys' = keys + 1
        /\ vps' = [vps EXCEPT !.drop = d, !.caddy = IF vps.nginx THEN 0 ELSE keys + 1]
    BY <1>3, <2>1 DEF Installs, InstallNaive
  <2>3. /\ vps' \in Vps /\ vps'.token = vps.token /\ vps'.nginx = vps.nginx
        /\ vps'.caddy = IF vps.nginx THEN 0 ELSE keys + 1
    BY <1>1, <1>2, <2>2 DEF Vps
  <2> QED BY <1>1, <1>2, <1>3, <2>2, <2>3 DEF VpsOK
<1>4. CASE p = "xui" /\ pro /\ vps.caddy # 0
  BY <1>4, <1>2 DEF Installs, InstallXui, Installed, VpsOK
<1>5. CASE p = "xui" /\ ~(pro /\ vps.caddy # 0)
  <2>1. PICK d \in [Protocols -> {None, Moved}] : d = Drop("xui", ssh)
    BY <1>5, DropType
  <2>2. PICK t \in Key \ {0} : t = IF vps.token # 0 THEN vps.token ELSE keys + 1
    BY <1>1, <1>2 DEF Vps
  <2>3. PICK n \in BOOLEAN : n = (vps.nginx \/ pro)
    OBVIOUS
  <2>4. keys' \in {keys, keys + 1} /\ vps' = [vps EXCEPT !.drop = d, !.nginx = n, !.token = t]
    BY <1>5, <2>1, <2>2, <2>3 DEF Installs, InstallXui
  <2>5. /\ vps' \in Vps /\ vps'.token = t /\ vps'.nginx = n /\ vps'.caddy = vps.caddy
    BY <1>2, <2>4 DEF Vps
  <2>6. n => vps.caddy = 0
    BY <1>2, <1>5, <2>3
  <2> QED BY <1>5, <2>4, <2>5, <2>6 DEF VpsOK, Installed
<1> QED BY <1>3, <1>4, <1>5

LEMMA WipeFacts ==
  ASSUME VpsOK, NEW p \in Protocols, Wipe(p)
  PROVE  /\ VpsOK'
         /\ p = "naive" => vps'.token = vps.token /\ vps'.caddy = 0
         /\ p = "xui" => vps'.caddy = vps.caddy /\ vps'.token = 0
<1>1. 0 \in Key
  BY ConstantsAssumption DEF Key
<1> QED BY <1>1 DEF Wipe, VpsOK, Vps

-----------------------------------------------------------------------------
(* The jobs: starting one.                                                 *)

LEMMA DeployStep ==
  ASSUME DeployInv, NEW p \in Protocols, NEW pro \in BOOLEAN, NEW ssh \in Asked \cup {None},
         Deploy(p, pro, ssh)
  PROVE  DeployInv'
<1> DEFINE x == [NoJob EXCEPT !.at = "install", !.pro = pro, !.ssh = ssh, !.port = port]
<1>1. Typed /\ VpsOK /\ RowsOK /\ JobsOK /\ KeysOK /\ RestOK /\ NaiveInv /\ XuiInv
  BY DEF DeployInv, Typed
<1>2. port \in Ports /\ job[p].at = "idle" /\ ~Refused(p, pro) /\ Room /\ Go(p, x)
      /\ UNCHANGED <<vps, port, dep, panel, node, adrift, making, keys>>
  BY <1>1 DEF Deploy, RowsOK
<1>3. x \in JobType /\ x.at = "install" /\ x.node = None /\ x.ok = FALSE
  BY <1>2, NoJobType DEF JobType, JobAt
<1> HIDE DEF x
<1>4. JobsOK' /\ job'[p] = x /\ \A q \in Protocols \ {p} : job'[q] = job[q]
  BY <1>1, <1>2, <1>3, GoFacts
<1>5. \/ p = "naive" /\ Making /\ Mishap({p})
      \/ ~(p = "naive" /\ Making) /\ Calm
  BY DEF Deploy, Beside
<1>6. RestOK'
  BY <1>1, <1>2, <1>5, BesideFacts DEF RestOK
<1>7. KeysOK'
  <2>1. \A q \in Protocols : One(q) \in Nat /\ Two(q) \in Nat /\ One(q)' \in Nat /\ Two(q)' \in Nat
    BY DEF One, Two
  <2>2. keys + One("naive") + One("xui") + Two("naive") + Two("xui") < MaxKeys
    BY <1>1, <1>2, RoomKeys
  <2>3. One(p)' = 1 /\ One(p) = 0 /\ \A q \in Protocols \ {p} : One(q)' = One(q)
    BY <1>2, <1>3, <1>4 DEF One
  <2>4. \A q \in Protocols : Two(q)' = Two(q)
    BY <1>2 DEF Two, Owed
  <2>5. CASE p = "naive"
    BY <1>1, <1>2, <2>1, <2>2, <2>3, <2>4, <2>5, ConstantsAssumption DEF KeysOK
  <2>6. CASE p = "xui"
    BY <1>1, <1>2, <2>1, <2>2, <2>3, <2>4, <2>6, ConstantsAssumption DEF KeysOK
  <2> QED BY <2>5, <2>6
<1>8. Typed'
  BY <1>1, <1>2, <1>4, <1>6, <1>7 DEF Typed, VpsOK, RowsOK
<1>9. drift \subseteq drift'
  BY <1>5 DEF Calm, Mishap
<1>10. NaiveInv'
  <2>1. CASE p = "xui"
    BY <1>1, <1>2, <1>4, <1>9, <2>1, NaiveFrame
  <2>2. CASE p = "naive" /\ Making
    <3>1. "naive" \in drift'
      BY <1>5, <2>2 DEF Mishap
    <3> QED BY <3>1, NaiveSpoilt
  <2>3. CASE p = "naive" /\ ~Making
    <3>1. "naive" \notin drift' => adrift'["naive"] = None
      BY <1>1, <1>2, <1>9 DEF NaiveInv
    <3> QED BY <1>2, <1>3, <1>4, <2>3, <3>1 DEF NaiveInv, Naive, Making
  <2> QED BY <2>1, <2>2, <2>3
<1>11. XuiInv'
  <2>1. CASE p = "naive"
    BY <1>1, <1>2, <1>4, <1>9, <2>1, XuiFrame
  <2>2. CASE p = "xui"
    <3>1. ~Deployed("xui")
      BY <1>2, <2>2 DEF Refused, Deployed
    <3> QED BY <1>1, <1>2, <1>3, <1>4, <1>9, <2>2, <3>1 DEF XuiInv, Xui, Removing, NoExports, Deployed
  <2> QED BY <2>1, <2>2
<1> QED BY <1>8, <1>10, <1>11 DEF DeployInv

LEMMA UninstallStep ==
  ASSUME DeployInv, NEW p \in Protocols, Uninstall(p)
  PROVE  DeployInv'
<1> DEFINE x == [NoJob EXCEPT !.at = "uninstall", !.port = port]
<1>1. Typed /\ VpsOK /\ RowsOK /\ JobsOK /\ KeysOK /\ RestOK /\ NaiveInv /\ XuiInv
  BY DEF DeployInv, Typed
<1>2. port \in Ports /\ job[p].at = "idle" /\ Go(p, x)
      /\ UNCHANGED <<vps, port, dep, panel, node, adrift, making, keys>>
  BY <1>1 DEF Uninstall, RowsOK
<1>3. x \in JobType /\ x.at = "uninstall" /\ x.node = None /\ x.ok = FALSE
  BY <1>2, NoJobType DEF JobType, JobAt
<1> HIDE DEF x
<1>4. JobsOK' /\ job'[p] = x /\ \A q \in Protocols \ {p} : job'[q] = job[q]
  BY <1>1, <1>2, <1>3, GoFacts
<1>5. \/ p = "naive" /\ Making /\ Mishap({p})
      \/ ~(p = "naive" /\ Making) /\ Calm
  BY DEF Uninstall, Beside
<1>6. RestOK'
  BY <1>1, <1>2, <1>5, BesideFacts DEF RestOK
<1>7. KeysOK'
  <2>1. \A q \in Protocols : job'[q].at = "install" => job[q].at = "install"
    BY <1>3, <1>4
  <2>2. \A q \in Protocols : Owed(q)' => Owed(q)
    BY <1>2 DEF Owed
  <2> QED BY <1>1, <1>2, <2>1, <2>2, KeysFrame
<1>8. Typed'
  BY <1>1, <1>2, <1>4, <1>6, <1>7 DEF Typed, VpsOK, RowsOK
<1>9. drift \subseteq drift'
  BY <1>5 DEF Calm, Mishap
<1>10. NaiveInv'
  <2>1. CASE p = "xui"
    BY <1>1, <1>2, <1>4, <1>9, <2>1, NaiveFrame
  <2>2. CASE p = "naive" /\ Making
    <3>1. "naive" \in drift'
      BY <1>5, <2>2 DEF Mishap
    <3> QED BY <3>1, NaiveSpoilt
  <2>3. CASE p = "naive" /\ ~Making
    <3>1. "naive" \notin drift' => adrift'["naive"] = None /\ NaiveGood'
      BY <1>1, <1>2, <1>9, <2>3 DEF NaiveInv, Naive, NaiveGood, Deployed
    <3> QED BY <1>2, <1>3, <1>4, <2>3, <3>1 DEF NaiveInv, Naive, Making
  <2> QED BY <2>1, <2>2, <2>3
<1>11. XuiInv'
  <2>1. CASE p = "naive"
    BY <1>1, <1>2, <1>4, <1>9, <2>1, XuiFrame
  <2>2. CASE p = "xui"
    BY <1>1, <1>2, <1>3, <1>4, <1>9, <2>2 DEF XuiInv, Xui, Removing, NoExports, Deployed
  <2> QED BY <2>1, <2>2
<1> QED BY <1>8, <1>10, <1>11 DEF DeployInv

-----------------------------------------------------------------------------
(* The jobs: an install.                                                   *)

LEMMA InstallStep ==
  ASSUME DeployInv, NEW p \in Protocols, InstallExec(p)
  PROVE  DeployInv'
<1>1. Typed /\ VpsOK /\ RowsOK /\ JobsOK /\ KeysOK /\ RestOK /\ NaiveInv /\ XuiInv
  BY DEF DeployInv, Typed
<1>2. /\ job[p] \in JobType /\ job[p].at = "install"
      /\ UNCHANGED <<port, dep, panel, node, adrift, making>>
  BY <1>1 DEF InstallExec, JobsOK
<1>3. job[p].pro \in BOOLEAN /\ job[p].node \in Slots \cup {None} /\ 0 \in Key
  BY <1>2, ConstantsAssumption DEF JobType, Key
\* The machine, in every case.
<1>4. /\ VpsOK' /\ keys' \in {keys, keys + 1}
      /\ p = "naive" => vps'.token = vps.token
      /\ p = "xui" => vps'.caddy = vps.caddy
  <2>1. CASE Installs(p, job[p].pro, job[p].ssh)
    BY <1>1, <1>2, <1>3, <2>1, InstallsFacts
  <2>2. CASE UNCHANGED <<vps, keys>>
    BY <1>1, <2>2 DEF VpsOK
  <2> QED BY <2>1, <2>2 DEF InstallExec
\* The job, in every case.
<1>5. PICK x \in JobType :
        /\ Go(p, x) /\ x.at = "result" /\ x.node = job[p].node
        /\ drift \subseteq drift' /\ RestOK' /\ (p = "xui" /\ x.ok => x.key # 0)
        /\ \/ p \in drift'
           \/ /\ x.ok = FALSE /\ vps' = vps
           \/ /\ Installs(p, job[p].pro, job[p].ssh)
              /\ x.ok = Installed(p, job[p].pro)
              /\ x.ok => x.key = IF p = "naive" THEN vps'.caddy ELSE vps'.token
  <2> DEFINE ok == Reachable(p) /\ Installed(p, job[p].pro)
             y == [job[p] EXCEPT !.at = "result", !.ok = ok,
                     !.key = IF ~ok THEN 0 ELSE IF p = "naive" THEN vps'.caddy ELSE vps'.token]
             z == [job[p] EXCEPT !.at = "result"]
  <2>1. CASE /\ IF Reachable(p) THEN Installs(p, job[p].pro, job[p].ssh) ELSE UNCHANGED <<vps, keys>>
             /\ Go(p, y) /\ left' = left
             /\ drift' = IF vps'.drop # vps.drop /\ ~ok THEN drift \cup {"ssh"} ELSE drift
    <3>1. PICK b \in BOOLEAN : b = ok
      OBVIOUS
    <3>2. vps'.caddy \in Key /\ vps'.token \in Key
      BY <1>4 DEF VpsOK, Vps
    <3>3. PICK k \in Key : k = IF ~b THEN 0 ELSE IF p = "naive" THEN vps'.caddy ELSE vps'.token
      BY <1>3, <3>2
    <3>4. y = [job[p] EXCEPT !.at = "result", !.ok = b, !.key = k]
      BY <3>1, <3>3
    <3>5. /\ y \in JobType /\ y.at = "result" /\ y.node = job[p].node /\ y.ok = b /\ y.key = k
      BY <1>2, <3>4 DEF JobType, JobAt
    <3>6. RestOK' /\ drift \subseteq drift'
      BY <1>1, <1>2, <2>1 DEF RestOK
    <3> HIDE DEF y
    <3>7. CASE Reachable(p)
      <4>3. IF Reachable(p) THEN Installs(p, job[p].pro, job[p].ssh) ELSE UNCHANGED <<vps, keys>>
        BY <2>1
      <4>4. Installs(p, job[p].pro, job[p].ssh)
        BY <3>7, <4>3, Zenon
      <4>1. Installs(p, job[p].pro, job[p].ssh) /\ y.ok = Installed(p, job[p].pro)
        BY <3>1, <3>5, <3>7, <4>4 DEF Installed
      <4>2. y.ok => y.key = IF p = "naive" THEN vps'.caddy ELSE vps'.token
        BY <3>3, <3>5
      <4>5. p = "xui" /\ y.ok => y.key # 0
        BY <1>1, <1>2, <1>3, <4>1, <4>2, <4>4, InstallsFacts
      <4> QED BY <2>1, <3>5, <3>6, <4>1, <4>2, <4>5
    <3>8. CASE ~Reachable(p)
      <4>1. y.ok = FALSE /\ vps' = vps
        BY <2>1, <3>1, <3>5, <3>8
      <4> QED BY <2>1, <3>5, <3>6, <4>1
    <3> QED BY <3>7, <3>8
  <2>2. CASE Mishap({p, "ssh"}) /\ Go(p, z)
    <3>1. z \in JobType /\ z.at = "result" /\ z.node = job[p].node /\ z.ok = job[p].ok
      BY <1>2 DEF JobType, JobAt
    <3>3. p = "xui" => ~z.ok
      BY <1>1, <1>2, <3>1 DEF JobsOK, Xui
    <3>2. RestOK' /\ drift \subseteq drift' /\ p \in drift'
      BY <1>1, <1>2, <2>2, BesideFacts DEF RestOK, Mishap
    <3> HIDE DEF z
    <3> QED BY <2>2, <3>1, <3>2, <3>3
  <2> QED BY <2>1, <2>2 DEF InstallExec, At
<1>6. /\ JobsOK' /\ job'[p] = x /\ \A q \in Protocols \ {p} : job'[q] = job[q]
  <2>1. p = "xui" => x.node = None /\ (x.ok => x.at # "install" /\ x.key # 0)
    BY <1>1, <1>5 DEF JobsOK, Xui
  <2> QED BY <1>1, <1>2, <1>5, <2>1, GoFacts
<1>7. KeysOK'
  <2>1. \A q \in Protocols : job'[q].at = "install" => job[q].at = "install"
    BY <1>2, <1>5, <1>6
  <2>2. \A q \in Protocols : Owed(q)' => Owed(q)
    BY <1>2 DEF Owed
  <2> QED BY <1>1, <1>2, <1>4, <1>5, <1>6, <2>1, <2>2, KeysSpent
<1>8. Typed'
  BY <1>1, <1>2, <1>4, <1>5, <1>6, <1>7 DEF Typed, RowsOK
<1>9. NaiveInv'
  <2>1. CASE p = "xui"
    BY <1>1, <1>2, <1>4, <1>5, <1>6, <2>1, NaiveFrame
  <2>2. CASE p = "naive" /\ "naive" \in drift'
    BY <2>2, NaiveSpoilt
  <2>3. CASE p = "naive" /\ "naive" \notin drift'
    <3>1. /\ adrift'["naive"] = None /\ \A r \in Requests : making'[r] = None
          /\ job["naive"].node = None
      BY <1>1, <1>2, <1>5, <2>3 DEF NaiveInv, Naive
    <3>2. x.ok => vps'.caddy # 0 /\ x.key = vps'.caddy
      <4>1. ASSUME x.ok PROVE ~vps.nginx /\ Installs(p, job[p].pro, job[p].ssh)
        BY <1>5, <2>3, <4>1 DEF Installed
      <4> QED BY <1>1, <1>2, <1>3, <1>5, <2>3, <4>1, InstallsFacts
    <3> QED BY <1>5, <1>6, <2>3, <3>1, <3>2 DEF NaiveInv, Naive
  <2> QED BY <2>1, <2>2, <2>3
<1>10. XuiInv'
  <2>1. CASE p = "naive"
    BY <1>1, <1>2, <1>4, <1>5, <1>6, <2>1, XuiFrame
  <2>2. CASE p = "xui" /\ "xui" \in drift'
    BY <2>2, XuiSpoilt
  <2>3. CASE p = "xui" /\ "xui" \notin drift'
    <3>1. /\ adrift'["xui"] = None /\ ~Deployed("xui")'
          /\ panel' = None => NoExports'
          /\ vps.token = 0 => panel' = None
      BY <1>1, <1>2, <1>5, <2>3 DEF XuiInv, Xui, Removing, NoExports, Deployed
    <3>2. IF x.ok THEN vps'.token # 0 /\ x.key = vps'.token ELSE vps'.token = vps.token
      <4>1. CASE vps' = vps /\ x.ok = FALSE
        BY <4>1
      <4>2. CASE /\ Installs(p, job[p].pro, job[p].ssh) /\ x.ok = Installed(p, job[p].pro)
                 /\ x.ok => x.key = IF p = "naive" THEN vps'.caddy ELSE vps'.token
        <5>1. IF Installed(p, job[p].pro) THEN vps'.token # 0 ELSE vps'.token = vps.token
          BY <1>1, <1>2, <1>3, <2>3, <4>2, InstallsFacts
        <5> QED BY <2>3, <4>2, <5>1
      <4> QED BY <1>5, <2>3, <4>1, <4>2
    <3> QED BY <1>5, <1>6, <2>3, <3>1, <3>2 DEF XuiInv, Xui, Removing
  <2> QED BY <2>1, <2>2, <2>3
<1> QED BY <1>8, <1>9, <1>10 DEF DeployInv

\* A job that ends, or takes its next step, owes no more keys than before.
LEMMA JobKeys ==
  ASSUME KeysOK, UNCHANGED <<keys, adrift>>, NEW p \in Protocols, job'[p].at # "install",
         \A q \in Protocols \ {p} : job'[q] = job[q]
  PROVE  KeysOK'
<1>1. \A q \in Protocols : job'[q].at = "install" => job[q].at = "install"
  OBVIOUS
<1>2. \A q \in Protocols : Owed(q)' => Owed(q)
  BY DEF Owed
<1> QED BY <1>1, <1>2, KeysFrame

LEMMA RecordNodeStep ==
  ASSUME DeployInv, NEW i \in Slots, RecordNode(i)
  PROVE  DeployInv'
<1>1. Typed /\ VpsOK /\ RowsOK /\ JobsOK /\ KeysOK /\ RestOK /\ NaiveInv /\ XuiInv
  BY DEF DeployInv, Typed
<1>2. /\ job["naive"] \in JobType /\ job["naive"].at = "result" /\ node[i] = None
      /\ UNCHANGED <<vps, port, dep, panel, adrift, making, keys, left, drift>>
  BY <1>1 DEF RecordNode, JobsOK, Free
<1>3. PICK x \in JobType :
        /\ Go("naive", x) /\ x.at \in {"record", "idle"}
        /\ x.at = "record" => x.ok = job["naive"].ok /\ x.key = job["naive"].key
        /\ \/ /\ node' = [node EXCEPT ![i] = [from |-> "naive", key |-> job["naive"].key,
                                              inner |-> FALSE]]
              /\ x.at = "record" /\ x.ok /\ x.node = i
           \/ /\ node' = node
              /\ \/ x.at = "record" /\ ~x.ok /\ x.node = job["naive"].node
                 \/ x.at = "idle" /\ x.node = None /\ port = None
  <2>1. [job["naive"] EXCEPT !.at = "record", !.node = i] \in JobType
    BY <1>2 DEF JobType, JobAt
  <2>2. [job["naive"] EXCEPT !.at = "record"] \in JobType
    BY <1>2 DEF JobType, JobAt
  <2>3. CASE job["naive"].ok /\ port # None
    <3>1. /\ node' = [node EXCEPT ![i] = [from |-> "naive", key |-> job["naive"].key, inner |-> FALSE]]
          /\ Go("naive", [job["naive"] EXCEPT !.at = "record", !.node = i])
      BY <2>3 DEF RecordNode
    <3>2. PICK x \in JobType : x = [job["naive"] EXCEPT !.at = "record", !.node = i]
      BY <2>1
    <3>3. x.at = "record" /\ x.ok = job["naive"].ok /\ x.key = job["naive"].key /\ x.node = i
      BY <1>2, <3>2 DEF JobType
    <3> QED BY <2>3, <3>1, <3>2, <3>3
  <2>4. CASE job["naive"].ok /\ port = None
    <3>1. node' = node /\ Go("naive", NoJob)
      BY <2>4 DEF RecordNode, Stop
    <3> QED BY <2>4, <3>1, NoJobType
  <2>5. CASE ~job["naive"].ok
    <3>1. node' = node /\ Go("naive", [job["naive"] EXCEPT !.at = "record"])
      BY <2>5 DEF RecordNode, At
    <3>2. PICK x \in JobType : x = [job["naive"] EXCEPT !.at = "record"]
      BY <2>2
    <3>3. x.at = "record" /\ x.ok = job["naive"].ok /\ x.key = job["naive"].key
          /\ x.node = job["naive"].node
      BY <1>2, <3>2 DEF JobType
    <3> QED BY <2>5, <3>1, <3>2, <3>3
  <2> QED BY <2>3, <2>4, <2>5
<1>4. /\ JobsOK' /\ job'["naive"] = x /\ \A q \in Protocols \ {"naive"} : job'[q] = job[q]
  BY <1>1, <1>2, <1>3, GoFacts
<1>5. KeysOK'
  BY <1>1, <1>2, <1>3, <1>4, JobKeys
<1>6. /\ node' \in [Slots -> Node \cup {None}]
      /\ \A s \in Slots : node[s] # None => node'[s] = node[s]
      /\ x.at = "record" /\ x.ok => /\ node'[i] # None /\ node'[i].key = job["naive"].key
                                    /\ node'[i].from = "naive"
      /\ \A s \in Slots : node'[s] = node[s] \/ node'[s].from # "xui"
  <2> DEFINE e == [from |-> "naive", key |-> job["naive"].key, inner |-> FALSE]
  <2>1. e \in Node
    BY <1>2 DEF Node, JobType
  <2>2. e # None /\ node \in [Slots -> Node \cup {None}] /\ e.from = "naive" /\ e.key = job["naive"].key
    BY <1>1, <2>1, NoneAssumption DEF RowsOK
  <2>3. \/ x.at = "record" /\ x.ok /\ node' = [node EXCEPT ![i] = e]
        \/ node' = node /\ ~(x.at = "record" /\ x.ok)
    BY <1>3
  <2> HIDE DEF e
  <2>4. CASE node' = [node EXCEPT ![i] = e]
    <3>1. node'[i] = e /\ \A s \in Slots \ {i} : node'[s] = node[s]
      BY <2>2, <2>4
    <3> QED BY <1>2, <2>1, <2>2, <2>4, <3>1
  <2>5. CASE node' = node /\ ~(x.at = "record" /\ x.ok)
    BY <2>2, <2>5
  <2> QED BY <2>3, <2>4, <2>5
<1>7. RowsOK'
  <2>1. \A p \in Protocols : dep'[p] # None /\ dep'[p].node # None
           => p = "naive" /\ node'[dep'[p].node] # None
    BY <1>1, <1>2, <1>6 DEF RowsOK, Deployment
  <2> QED BY <1>1, <1>2, <1>6, <2>1 DEF RowsOK
<1>8. Typed'
  BY <1>1, <1>2, <1>4, <1>5, <1>7 DEF Typed, VpsOK, RestOK
<1>9. XuiInv'
  BY <1>1, <1>2, <1>4, <1>6, XuiFrame
<1>10. NaiveInv'
  <2> SUFFICES ASSUME "naive" \notin drift' PROVE NaiveInv'
    BY DEF NaiveInv
  <2>1. /\ adrift'["naive"] = None /\ \A r \in Requests : making'[r] = None
        /\ job["naive"].node = None
        /\ job["naive"].ok => vps'.caddy # 0 /\ job["naive"].key = vps'.caddy
    BY <1>1, <1>2 DEF NaiveInv, Naive
  <2>2. CASE x.at = "record"
    BY <1>3, <1>4, <1>6, <2>1, <2>2, NoneAssumption DEF NaiveInv, Naive
  <2>3. CASE x.at = "idle"
    <3>1. dep'["naive"] = None
      BY <1>1, <1>2, <1>3, <2>3 DEF RowsOK
    <3> QED BY <1>3, <1>4, <2>1, <2>3, <3>1 DEF NaiveInv, Naive, NaiveGood, Deployed
  <2> QED BY <1>3, <2>2, <2>3
<1> QED BY <1>8, <1>9, <1>10 DEF DeployInv


LEMMA RecordPanelStep ==
  ASSUME DeployInv, RecordPanel
  PROVE  DeployInv'
<1>1. Typed /\ VpsOK /\ RowsOK /\ JobsOK /\ KeysOK /\ RestOK /\ NaiveInv /\ XuiInv
  BY DEF DeployInv, Typed
<1>2. /\ job["xui"] \in JobType /\ job["xui"].at = "result" /\ job["xui"].node = None
      /\ job["xui"].ok => job["xui"].key # 0
      /\ UNCHANGED <<vps, port, dep, node, adrift, making, keys, left, drift>>
  BY <1>1 DEF RecordPanel, JobsOK, Xui
<1>3. PICK x \in JobType :
        /\ Go("xui", x) /\ x.at \in {"record", "idle"} /\ x.node = None
        /\ x.ok => x.key # 0 /\ x.key = job["xui"].key
        /\ \/ /\ panel' = [key |-> job["xui"].key, pro |-> job["xui"].pro]
              /\ x.at = "record" /\ job["xui"].ok /\ x.ok /\ port # None
           \/ /\ panel' = panel
              /\ \/ x.at = "record" /\ ~x.ok /\ ~job["xui"].ok
                 \/ x.at = "idle" /\ ~x.ok /\ port = None
  <2>1. PICK y \in JobType : y = [job["xui"] EXCEPT !.at = "record"]
    BY <1>2 DEF JobType, JobAt
  <2>2. /\ y.at = "record" /\ y.node = None /\ y.ok = job["xui"].ok /\ y.key = job["xui"].key
    BY <1>2, <2>1 DEF JobType
  <2>3. CASE job["xui"].ok /\ port # None
    <3>1. panel' = [key |-> job["xui"].key, pro |-> job["xui"].pro] /\ Go("xui", y)
      BY <2>1, <2>3 DEF RecordPanel, At
    <3> QED BY <1>2, <2>2, <2>3, <3>1
  <2>4. CASE job["xui"].ok /\ port = None
    <3>1. panel' = panel /\ Go("xui", NoJob)
      BY <2>4 DEF RecordPanel, Stop
    <3> QED BY <2>4, <3>1, NoJobType
  <2>5. CASE ~job["xui"].ok
    <3>1. panel' = panel /\ Go("xui", y)
      BY <2>1, <2>5 DEF RecordPanel, At
    <3> QED BY <2>2, <2>5, <3>1
  <2> QED BY <2>3, <2>4, <2>5
<1>4. /\ JobsOK' /\ job'["xui"] = x /\ \A q \in Protocols \ {"xui"} : job'[q] = job[q]
  BY <1>1, <1>2, <1>3, GoFacts
<1>5. KeysOK'
  BY <1>1, <1>2, <1>3, <1>4, JobKeys
<1>6. RowsOK'
  <2>1. panel' \in Panel \cup {None} /\ (port = None => panel' = panel)
    BY <1>1, <1>2, <1>3 DEF RowsOK, Panel, JobType
  <2> QED BY <1>1, <1>2, <2>1 DEF RowsOK
<1>7. Typed'
  BY <1>1, <1>2, <1>4, <1>5, <1>6 DEF Typed, VpsOK, RestOK
<1>8. NaiveInv'
  BY <1>1, <1>2, <1>4, NaiveFrame
<1>9. XuiInv'
  <2> SUFFICES ASSUME "xui" \notin drift' PROVE XuiInv'
    BY DEF XuiInv
  <2>1. /\ adrift'["xui"] = None /\ ~Deployed("xui")'
        /\ job["xui"].ok => vps'.token # 0 /\ job["xui"].key = vps'.token
        /\ panel = None => NoExports'
        /\ vps'.token = 0 => panel = None
    BY <1>1, <1>2 DEF XuiInv, Xui, Removing, Deployed, NoExports
  <2>2. CASE /\ panel' = [key |-> job["xui"].key, pro |-> job["xui"].pro]
             /\ x.at = "record" /\ job["xui"].ok /\ x.ok /\ port # None
    <3>1. panel' # None /\ panel'.key = job["xui"].key
      BY <1>2, <2>2, NoneAssumption DEF Panel, JobType
    <3> QED BY <1>3, <1>4, <2>1, <2>2, <3>1 DEF XuiInv, Xui, Removing
  <2>3. CASE panel' = panel /\ ~x.ok
    BY <1>3, <1>4, <2>1, <2>3 DEF XuiInv, Xui, Removing
  <2> QED BY <1>3, <2>2, <2>3
<1> QED BY <1>7, <1>8, <1>9 DEF DeployInv

LEMMA RecordDeploymentStep ==
  ASSUME DeployInv, NEW p \in Protocols, RecordDeployment(p)
  PROVE  DeployInv'
<1>1. Typed /\ VpsOK /\ RowsOK /\ JobsOK /\ KeysOK /\ RestOK /\ NaiveInv /\ XuiInv
  BY DEF DeployInv, Typed
<1>2. /\ job[p] \in JobType /\ job[p].at = "record"
      /\ UNCHANGED <<vps, port, panel, node, adrift, making, keys, left, drift>>
      /\ dep[p] \in Deployment \cup {None}
  BY <1>1 DEF RecordDeployment, JobsOK, RowsOK
<1>3. PICK e \in Slots \cup {None} :
        e = IF job[p].node # None THEN job[p].node ELSE IF dep[p] = None THEN None ELSE dep[p].node
  BY <1>2 DEF JobType, Deployment
<1>4. PICK d : d = [status |-> IF job[p].ok THEN "deployed" ELSE "failed", key |-> 0,
                    pro |-> job[p].pro, node |-> e]
  OBVIOUS
<1>5. /\ d \in Deployment /\ d # None /\ d.node = e /\ d.status # "configured"
      /\ d.status = "deployed" <=> job[p].ok
  <2>1. 0 \in Key
    BY ConstantsAssumption DEF Key
  <2>2. d \in Deployment
    BY <1>2, <1>4, <2>1 DEF Deployment, JobType
  <2> QED BY <1>4, <2>2, NoneAssumption
<1>14. PICK gone \in BOOLEAN :
         gone = (port = None \/ (job[p].node # None /\ node[job[p].node] = None))
  OBVIOUS
<1>6. PICK x \in JobType :
        /\ Go(p, x) /\ x.at \in {"idle", "port"} /\ (x.at = "idle" => ~x.ok /\ x.node = None)
        /\ x.at = "port" => /\ x.ok /\ job[p].ok /\ x.node = job[p].node /\ x.key = job[p].key
                           /\ x.ssh # None
        /\ \/ gone /\ dep' = dep /\ x.at = "idle"
           \/ ~gone /\ dep' = [dep EXCEPT ![p] = d]
  <2>1. PICK y \in JobType : y = [job[p] EXCEPT !.at = "port"]
    BY <1>2 DEF JobType, JobAt
  <2>2. /\ y.at = "port" /\ y.node = job[p].node /\ y.ok = job[p].ok /\ y.key = job[p].key
        /\ y.ssh = job[p].ssh
    BY <1>2, <2>1 DEF JobType
  <2>3. CASE gone
    <3>1. dep' = dep /\ Go(p, NoJob)
      BY <1>14, <2>3 DEF RecordDeployment, Stop
    <3> QED BY <2>3, <3>1, NoJobType
  <2>4. CASE ~gone
    <3>1. /\ dep' = [dep EXCEPT ![p] = d]
          /\ IF job[p].ok /\ job[p].ssh # None THEN Go(p, y) ELSE Go(p, NoJob)
      BY <1>3, <1>4, <1>14, <2>1, <2>4 DEF RecordDeployment, Stop, At
    <3>2. CASE job[p].ok /\ job[p].ssh # None
      <4>1. Go(p, y) /\ dep' = [dep EXCEPT ![p] = d]
        BY <3>1, <3>2, Zenon
      <4> QED BY <2>2, <2>4, <3>2, <4>1
    <3>3. CASE ~(job[p].ok /\ job[p].ssh # None)
      <4>1. Go(p, NoJob) /\ dep' = [dep EXCEPT ![p] = d]
        BY <3>1, <3>3, Zenon
      <4> QED BY <2>4, <4>1, NoJobType
    <3> QED BY <3>2, <3>3
  <2> QED BY <2>3, <2>4
<1>7. /\ JobsOK' /\ job'[p] = x /\ \A q \in Protocols \ {p} : job'[q] = job[q]
  <2>1. p = "xui" => x.node = None /\ (x.ok => x.at # "install" /\ x.key # 0)
    BY <1>1, <1>6 DEF JobsOK, Xui
  <2> QED BY <1>1, <1>2, <1>6, <2>1, GoFacts
<1>8. KeysOK'
  BY <1>1, <1>2, <1>6, <1>7, JobKeys
\* The node of the row, kept or new, is there.
<1>9. /\ \A q \in Protocols \ {p} : dep'[q] = dep[q]
      /\ dep'[p] = IF gone THEN dep[p] ELSE d
      /\ dep' \in [Protocols -> Deployment \cup {None}]
  BY <1>1, <1>5, <1>6 DEF RowsOK
<1>10. RowsOK'
  <2>1. ~gone => e = None \/ (p = "naive" /\ node[e] # None)
    <3>1. CASE job[p].node # None
      BY <1>1, <1>2, <1>3, <1>5, <1>9, <1>14, <3>1 DEF JobsOK, RowsOK, Xui
    <3>2. CASE job[p].node = None
      BY <1>1, <1>3, <3>2 DEF RowsOK
    <3> QED BY <3>1, <3>2
  <2>2. \A q \in Protocols : dep'[q] # None /\ dep'[q].node # None => q = "naive" /\ node[dep'[q].node] # None
    BY <1>1, <1>5, <1>9, <2>1 DEF RowsOK
  <2>3. port = None => \A q \in Protocols : dep'[q] = None
    BY <1>1, <1>9, <1>14 DEF RowsOK
  <2>4. dep'["xui"] # None => dep'["xui"].status # "configured"
    BY <1>1, <1>5, <1>9 DEF RowsOK
  <2> QED BY <1>1, <1>2, <1>9, <2>2, <2>3, <2>4 DEF RowsOK
<1>11. Typed'
  BY <1>1, <1>2, <1>7, <1>8, <1>10 DEF Typed, VpsOK, RestOK
<1>12. NaiveInv'
  <2>1. CASE p = "xui"
    BY <1>1, <1>2, <1>7, <1>9, <2>1, NaiveFrame
  <2>2. CASE p = "naive" /\ "naive" \notin drift'
    <3>1. /\ adrift'["naive"] = None /\ \A r \in Requests : making'[r] = None
          /\ job["naive"].ok => vps'.caddy # 0 /\ job["naive"].key = vps'.caddy
          /\ job["naive"].ok => job["naive"].node # None /\ node[job["naive"].node] # None
                                /\ node[job["naive"].node].key = job["naive"].key
                                /\ node[job["naive"].node].from = "naive"
      BY <1>1, <1>2, <2>2 DEF NaiveInv, Naive
    <3>2. NaiveGood'
      <4>1. CASE dep'["naive"] = d
        BY <1>2, <1>3, <1>5, <2>2, <3>1, <4>1 DEF NaiveGood, Deployed
      <4>2. CASE dep' = dep /\ port = None
        BY <1>1, <4>2 DEF NaiveGood, Deployed, RowsOK
      <4>3. CASE dep' = dep /\ job[p].node # None /\ node[job[p].node] = None
        <5>1. FALSE
          BY <1>1, <1>2, <2>2, <4>3 DEF NaiveInv, Naive
        <5> QED BY <5>1
      <4> QED BY <1>6, <1>9, <1>14, <2>2, <4>1, <4>2, <4>3
    <3> QED BY <1>2, <1>6, <1>7, <2>2, <3>1, <3>2 DEF NaiveInv, Naive
  <2>3. CASE "naive" \in drift'
    BY <2>3, NaiveSpoilt
  <2> QED BY <2>1, <2>2, <2>3
<1>13. XuiInv'
  <2>1. CASE p = "naive"
    BY <1>1, <1>2, <1>7, <1>9, <2>1, XuiFrame
  <2>2. CASE p = "xui" /\ "xui" \notin drift'
    <3>1. /\ adrift'["xui"] = None /\ ~Deployed("xui")
          /\ job["xui"].ok => vps'.token # 0 /\ panel' # None /\ panel'.key = vps'.token
          /\ panel' = None => NoExports'
          /\ vps'.token = 0 => panel' = None
      BY <1>1, <1>2, <2>2 DEF XuiInv, Xui, Removing, Deployed, NoExports
    <3>2. Deployed("xui")' => job["xui"].ok
      BY <1>5, <1>9, <2>2, <3>1 DEF Deployed
    <3> QED BY <1>6, <1>7, <2>2, <3>1, <3>2 DEF XuiInv, Xui, Removing
  <2>3. CASE "xui" \in drift'
    BY <2>3, XuiSpoilt
  <2> QED BY <2>1, <2>2, <2>3
<1> QED BY <1>11, <1>12, <1>13 DEF DeployInv

LEMMA RecordPortStep ==
  ASSUME DeployInv, NEW p \in Protocols, RecordPort(p)
  PROVE  DeployInv'
<1>1. Typed /\ VpsOK /\ RowsOK /\ JobsOK /\ KeysOK /\ RestOK /\ NaiveInv /\ XuiInv
  BY DEF DeployInv, Typed
<1>2. /\ job[p] \in JobType /\ job[p].at = "port" /\ Go(p, NoJob)
      /\ UNCHANGED <<vps, dep, panel, node, adrift, making, keys, left, drift>>
      /\ port' = IF port = None THEN None ELSE job[p].ssh
  BY <1>1 DEF RecordPort, JobsOK, Stop
<1>3. /\ JobsOK' /\ job'[p] = NoJob /\ \A q \in Protocols \ {p} : job'[q] = job[q]
  BY <1>1, <1>2, NoJobType, GoFacts
<1>4. KeysOK'
  BY <1>1, <1>2, <1>3, NoJobType, JobKeys
<1>5. port' \in Ports \cup {None} /\ (port' = None => port = None)
  BY <1>1, <1>2, ConstantsAssumption DEF JobType, JobsOK, RowsOK, Ports
<1>6. RowsOK'
  BY <1>1, <1>2, <1>5 DEF RowsOK
<1>7. Typed'
  BY <1>1, <1>2, <1>3, <1>4, <1>6 DEF Typed, VpsOK, RestOK
<1>8. NaiveInv'
  <2>1. CASE p = "xui"
    BY <1>1, <1>2, <1>3, <2>1, NaiveFrame
  <2>2. CASE p = "naive" /\ "naive" \notin drift'
    <3>1. /\ adrift'["naive"] = None /\ \A r \in Requests : making'[r] = None
          /\ NaiveGood'
      BY <1>1, <1>2, <2>2 DEF NaiveInv, Naive, NaiveGood, Deployed
    <3> QED BY <1>3, <2>2, <3>1, NoJobType DEF NaiveInv, Naive
  <2>3. CASE "naive" \in drift'
    BY <2>3, NaiveSpoilt
  <2> QED BY <2>1, <2>2, <2>3
<1>9. XuiInv'
  <2>1. CASE p = "naive"
    BY <1>1, <1>2, <1>3, <2>1, XuiFrame
  <2>2. CASE p = "xui"
    BY <1>1, <1>2, <1>3, <2>2, NoJobType DEF XuiInv, Xui, Removing, Deployed, NoExports
  <2> QED BY <2>1, <2>2
<1> QED BY <1>7, <1>8, <1>9 DEF DeployInv

-----------------------------------------------------------------------------
(* The jobs: an uninstall.                                                 *)

LEMMA UninstallExecStep ==
  ASSUME DeployInv, NEW p \in Protocols, UninstallExec(p)
  PROVE  DeployInv'
<1>1. Typed /\ VpsOK /\ RowsOK /\ JobsOK /\ KeysOK /\ RestOK /\ NaiveInv /\ XuiInv
  BY DEF DeployInv, Typed
<1>2. /\ job[p] \in JobType /\ job[p].at = "uninstall"
      /\ UNCHANGED <<port, dep, panel, node, adrift, making, keys>>
  BY <1>1 DEF UninstallExec, JobsOK
<1>3. PICK x \in JobType :
        /\ Go(p, x) /\ x.at \in {"idle", "drop"} /\ x.node \in {None, job[p].node}
        /\ x.ok => job[p].ok /\ x.key = job[p].key
        /\ \/ x.at = "drop" /\ Wipe(p) /\ Calm
           \/ x.at = "idle" /\ vps' = vps /\ Calm
           \/ x.at = "idle" /\ Mishap({p}) /\ (Wipe(p) \/ vps' = vps)
  <2>1. PICK y \in JobType : y = [job[p] EXCEPT !.at = "drop"]
    BY <1>2 DEF JobType, JobAt
  <2>2. /\ y.at = "drop" /\ y.node = job[p].node /\ y.ok = job[p].ok /\ y.key = job[p].key
    BY <1>2, <2>1 DEF JobType
  <2>3. CASE Wipe(p) /\ Go(p, y) /\ Calm
    BY <2>2, <2>3
  <2>4. CASE vps' = vps /\ Go(p, NoJob) /\ Calm
    BY <2>4, NoJobType
  <2>5. CASE (Wipe(p) \/ vps' = vps) /\ Go(p, NoJob) /\ Mishap({p})
    BY <2>5, NoJobType
  <2> QED BY <2>1, <2>3, <2>4, <2>5 DEF UninstallExec, Stop, At
<1>4. /\ JobsOK' /\ job'[p] = x /\ \A q \in Protocols \ {p} : job'[q] = job[q]
  <2>1. p = "xui" => x.node = None /\ (x.ok => x.at # "install" /\ x.key # 0)
    BY <1>1, <1>3 DEF JobsOK, Xui
  <2>2. p = "naive" => x.at \notin {"nodes", "panel"}
    BY <1>3
  <2> QED BY <1>1, <1>2, <1>3, <2>1, <2>2, GoFacts
<1>5. KeysOK'
  BY <1>1, <1>2, <1>3, <1>4, JobKeys
<1>6. /\ VpsOK' /\ (p = "naive" => vps'.token = vps.token)
      /\ p = "xui" => vps'.caddy = vps.caddy /\ (Wipe(p) => vps'.token = 0)
  <2>1. CASE Wipe(p)
    BY <1>1, <2>1, WipeFacts
  <2>2. CASE ~Wipe(p) /\ vps' = vps
    BY <1>1, <2>2 DEF VpsOK
  <2> QED BY <1>3, <2>1, <2>2
<1>7. RestOK' /\ drift \subseteq drift'
  <2>1. Calm \/ Mishap({p})
    BY <1>3
  <2> QED BY <1>1, <1>2, <2>1, BesideFacts DEF RestOK
<1>8. Typed'
  BY <1>1, <1>2, <1>4, <1>5, <1>6, <1>7 DEF Typed, RowsOK
<1>9. NaiveInv'
  <2>1. CASE p = "xui"
    BY <1>1, <1>2, <1>4, <1>6, <1>7, <2>1, NaiveFrame
  <2>2. CASE p = "naive" /\ "naive" \notin drift'
    <3>1. /\ adrift'["naive"] = None /\ \A r \in Requests : making'[r] = None
          /\ job["naive"].node = None
      BY <1>1, <1>2, <1>7, <2>2 DEF NaiveInv, Naive
    <3>2. x.at = "idle" => vps' = vps
      BY <1>3, <2>2 DEF Mishap
    <3>3. x.at = "idle" => NaiveGood'
      BY <1>1, <1>2, <1>7, <2>2, <3>2 DEF NaiveInv, Naive, NaiveGood, Deployed
    <3> QED BY <1>3, <1>4, <2>2, <3>1, <3>3 DEF NaiveInv, Naive
  <2>3. CASE "naive" \in drift'
    BY <2>3, NaiveSpoilt
  <2> QED BY <2>1, <2>2, <2>3
<1>10. XuiInv'
  <2>1. CASE p = "naive"
    BY <1>1, <1>2, <1>4, <1>6, <1>7, <2>1, XuiFrame
  <2>2. CASE p = "xui" /\ "xui" \notin drift'
    <3>1. x.at = "idle" => vps' = vps
      BY <1>3, <2>2 DEF Mishap
    <3>2. x.at = "drop" => vps'.token = 0
      BY <1>3, <1>6, <2>2
    <3>3. /\ adrift'["xui"] = None
          /\ Deployed("xui")' => panel' # None /\ panel'.key = vps.token
          /\ panel' = None => NoExports'
          /\ vps.token = 0 => panel' = None /\ ~Deployed("xui")'
      BY <1>1, <1>2, <1>7, <2>2 DEF XuiInv, Xui, Removing, Deployed, NoExports
    <3> QED BY <1>3, <1>4, <2>2, <3>1, <3>2, <3>3 DEF XuiInv, Xui, Removing
  <2>3. CASE "xui" \in drift'
    BY <2>3, XuiSpoilt
  <2> QED BY <2>1, <2>2, <2>3
<1> QED BY <1>8, <1>9, <1>10 DEF DeployInv

LEMMA DropDeploymentStep ==
  ASSUME DeployInv, NEW p \in Protocols, DropDeployment(p)
  PROVE  DeployInv'
<1>1. Typed /\ VpsOK /\ RowsOK /\ JobsOK /\ KeysOK /\ RestOK /\ NaiveInv /\ XuiInv
  BY DEF DeployInv, Typed
<1>2. /\ job[p] \in JobType /\ job[p].at = "drop" /\ dep' = [dep EXCEPT ![p] = None]
      /\ UNCHANGED <<vps, port, panel, node, adrift, making, keys, left, drift>>
  BY <1>1 DEF DropDeployment, JobsOK
<1>3. PICK x \in JobType :
        /\ Go(p, x) /\ x.node \in {None, job[p].node}
        /\ x.ok => job[p].ok /\ x.key = job[p].key
        /\ \/ p = "xui" /\ panel # None /\ x.at = "nodes"
           \/ ~(p = "xui" /\ panel # None) /\ x.at = "idle" /\ x.node = None
  <2>1. PICK y \in JobType : y = [job[p] EXCEPT !.at = "nodes"]
    BY <1>2 DEF JobType, JobAt
  <2>2. /\ y.at = "nodes" /\ y.node = job[p].node /\ y.ok = job[p].ok /\ y.key = job[p].key
    BY <1>2, <2>1 DEF JobType
  <2>3. CASE p = "xui" /\ panel # None
    <3>1. Go(p, y)
      BY <2>1, <2>3 DEF DropDeployment, At
    <3> QED BY <2>2, <2>3, <3>1
  <2>4. CASE ~(p = "xui" /\ panel # None)
    <3>1. Go(p, NoJob)
      BY <2>4 DEF DropDeployment, Stop
    <3> QED BY <2>4, <3>1, NoJobType
  <2> QED BY <2>3, <2>4
<1>4. /\ JobsOK' /\ job'[p] = x /\ \A q \in Protocols \ {p} : job'[q] = job[q]
  <2>1. p = "xui" => x.node = None /\ (x.ok => x.at # "install" /\ x.key # 0)
    BY <1>1, <1>3 DEF JobsOK, Xui
  <2>2. p = "naive" => x.at \notin {"nodes", "panel"}
    BY <1>3
  <2> QED BY <1>1, <1>2, <1>3, <2>1, <2>2, GoFacts
<1>5. KeysOK'
  BY <1>1, <1>2, <1>3, <1>4, JobKeys
<1>6. /\ dep'[p] = None /\ \A q \in Protocols \ {p} : dep'[q] = dep[q]
      /\ dep' \in [Protocols -> Deployment \cup {None}]
  BY <1>1, <1>2 DEF RowsOK
<1>7. RowsOK'
  BY <1>1, <1>2, <1>6 DEF RowsOK
<1>8. Typed'
  BY <1>1, <1>2, <1>4, <1>5, <1>7 DEF Typed, VpsOK, RestOK
<1>9. NaiveInv'
  <2>1. CASE p = "xui"
    BY <1>1, <1>2, <1>4, <1>6, <2>1, NaiveFrame
  <2>2. CASE p = "naive" /\ "naive" \notin drift'
    <3>1. /\ adrift'["naive"] = None /\ \A r \in Requests : making'[r] = None
      BY <1>1, <1>2, <2>2 DEF NaiveInv, Naive
    <3> QED BY <1>3, <1>4, <1>6, <2>2, <3>1 DEF NaiveInv, Naive, NaiveGood, Deployed
  <2>3. CASE "naive" \in drift'
    BY <2>3, NaiveSpoilt
  <2> QED BY <2>1, <2>2, <2>3
<1>10. XuiInv'
  <2>1. CASE p = "naive"
    BY <1>1, <1>2, <1>4, <1>6, <2>1, XuiFrame
  <2>2. CASE p = "xui"
    BY <1>1, <1>2, <1>3, <1>4, <1>6, <2>2 DEF XuiInv, Xui, Removing, Deployed, NoExports
  <2> QED BY <2>1, <2>2
<1> QED BY <1>8, <1>9, <1>10 DEF DeployInv

\* What the deployments and the nodes are once the nodes in S are gone.
LEMMA ForgetFacts ==
  ASSUME RowsOK, NEW S \in SUBSET Slots, Forget(S)
  PROVE  /\ node' \in [Slots -> Node \cup {None}] /\ dep' \in [Protocols -> Deployment \cup {None}]
         /\ \A i \in Slots : node'[i] = IF i \in S THEN None ELSE node[i]
         /\ \A p \in Protocols :
              /\ dep'[p] = None <=> dep[p] = None
              /\ dep[p] # None =>
                   /\ dep'[p].status = dep[p].status
                   /\ dep'[p].node = IF dep[p].node \in S THEN None ELSE dep[p].node
<1>1. node' \in [Slots -> Node \cup {None}] /\ \A i \in Slots : node'[i] = IF i \in S THEN None ELSE node[i]
  BY DEF Forget, RowsOK
<1>2. \A p \in Protocols :
        /\ dep'[p] \in Deployment \cup {None}
        /\ dep'[p] = None <=> dep[p] = None
        /\ dep[p] # None => /\ dep'[p].status = dep[p].status
                            /\ dep'[p].node = IF dep[p].node \in S THEN None ELSE dep[p].node
  <2> TAKE p \in Protocols
  <2>1. dep'[p] = IF dep[p] # None /\ dep[p].node \in S THEN [dep[p] EXCEPT !.node = None] ELSE dep[p]
    BY DEF Forget
  <2>2. dep[p] \in Deployment \cup {None}
    BY DEF RowsOK
  <2>3. CASE dep[p] # None /\ dep[p].node \in S
    <3>1. PICK d : d = [dep[p] EXCEPT !.node = None]
      OBVIOUS
    <3>2. d \in Deployment /\ d.status = dep[p].status /\ d.node = None
      BY <2>2, <2>3, <3>1 DEF Deployment
    <3> QED BY <2>1, <2>3, <3>1, <3>2, NoneAssumption
  <2>4. CASE ~(dep[p] # None /\ dep[p].node \in S)
    BY <2>1, <2>2, <2>4
  <2> QED BY <2>3, <2>4
<1>3. dep' = [p \in Protocols |-> dep'[p]]
  BY DEF Forget
<1>4. dep' \in [Protocols -> Deployment \cup {None}]
  BY <1>2, <1>3
<1> QED BY <1>1, <1>2, <1>4

LEMMA ForgetRows ==
  ASSUME RowsOK, NEW S \in SUBSET Slots, Forget(S), UNCHANGED <<port, panel>>
  PROVE  RowsOK'
<1>1. /\ node' \in [Slots -> Node \cup {None}] /\ dep' \in [Protocols -> Deployment \cup {None}]
      /\ \A i \in Slots : node'[i] = IF i \in S THEN None ELSE node[i]
      /\ \A p \in Protocols :
           /\ dep'[p] = None <=> dep[p] = None
           /\ dep[p] # None =>
                /\ dep'[p].status = dep[p].status
                /\ dep'[p].node = IF dep[p].node \in S THEN None ELSE dep[p].node
  BY ForgetFacts
<1>2. \A p \in Protocols : dep[p] # None /\ dep[p].node # None => dep[p].node \in Slots
  BY DEF RowsOK, Deployment
<1>3. \A p \in Protocols :
        dep'[p] # None /\ dep'[p].node # None => p = "naive" /\ node'[dep'[p].node] # None
  BY <1>1, <1>2 DEF RowsOK
<1> QED BY <1>1, <1>3 DEF RowsOK

LEMMA DropNodesStep ==
  ASSUME DeployInv, DropNodes
  PROVE  DeployInv'
<1>1. Typed /\ VpsOK /\ RowsOK /\ JobsOK /\ KeysOK /\ RestOK /\ NaiveInv /\ XuiInv
  BY DEF DeployInv, Typed
<1>2. PICK S \in SUBSET Slots :
        S = {i \in Slots : node[i] # None /\ node[i].from = "xui" /\ panel # None}
  OBVIOUS
<1>3. /\ job["xui"] \in JobType /\ job["xui"].at = "nodes" /\ Forget(S)
      /\ UNCHANGED <<vps, port, panel, adrift, making, keys, left, drift>>
  BY <1>1, <1>2 DEF DropNodes, JobsOK
<1>4. PICK x \in JobType :
        /\ Go("xui", x) /\ x.at = "panel" /\ x.node = job["xui"].node /\ x.ok = job["xui"].ok
        /\ x.key = job["xui"].key
  <2>1. PICK y \in JobType : y = [job["xui"] EXCEPT !.at = "panel"]
    BY <1>3 DEF JobType, JobAt
  <2>2. /\ y.at = "panel" /\ y.node = job["xui"].node /\ y.ok = job["xui"].ok
        /\ y.key = job["xui"].key
    BY <1>3, <2>1 DEF JobType
  <2> QED BY <2>1, <2>2 DEF DropNodes, At
<1>5. /\ JobsOK' /\ job'["xui"] = x /\ \A q \in Protocols \ {"xui"} : job'[q] = job[q]
  <2>1. x.node = None /\ (x.ok => x.at # "install" /\ x.key # 0)
    BY <1>1, <1>4 DEF JobsOK, Xui
  <2> QED BY <1>1, <1>3, <1>4, <2>1, GoFacts
<1>6. KeysOK'
  BY <1>1, <1>3, <1>4, <1>5, JobKeys
<1>7. RowsOK'
  BY <1>1, <1>3, ForgetRows
<1>8. Typed'
  BY <1>1, <1>3, <1>5, <1>6, <1>7 DEF Typed, VpsOK, RestOK
<1>9. /\ \A i \in Slots : node'[i] = IF i \in S THEN None ELSE node[i]
      /\ \A p \in Protocols :
           /\ dep'[p] = None <=> dep[p] = None
           /\ dep[p] # None =>
                /\ dep'[p].status = dep[p].status
                /\ dep'[p].node = IF dep[p].node \in S THEN None ELSE dep[p].node
  BY <1>1, <1>3, ForgetFacts
<1>10. NaiveInv'
  <2> SUFFICES ASSUME "naive" \notin drift' PROVE NaiveInv'
    BY DEF NaiveInv
  <2>1. Naive.at \in {"record", "port"} /\ Naive.ok => Naive.node \in Slots /\ Naive.node \notin S
    BY <1>1, <1>2, <1>3 DEF NaiveInv, Naive, JobsOK, JobType
  <2>2. dep["naive"] # None /\ dep["naive"].node # None => dep["naive"].node \in Slots
    BY <1>1 DEF RowsOK, Deployment
  <2>3. NaiveGood => NaiveGood'
    BY <1>3, <1>9, <2>2 DEF NaiveGood, Deployed
  <2> QED BY <1>1, <1>3, <1>5, <1>9, <2>1, <2>3 DEF NaiveInv, Naive
<1>11. XuiInv'
  <2> SUFFICES ASSUME "xui" \notin drift' PROVE XuiInv'
    BY DEF XuiInv
  <2>1. panel # None
    BY <1>1, <1>3 DEF XuiInv, Xui
  <2>2. NoExports'
    BY <1>2, <1>9, <2>1 DEF NoExports
  <2> QED BY <1>1, <1>3, <1>4, <1>5, <1>9, <2>1, <2>2 DEF XuiInv, Xui, Removing, Deployed
<1> QED BY <1>8, <1>10, <1>11 DEF DeployInv

LEMMA DropPanelStep ==
  ASSUME DeployInv, DropPanel
  PROVE  DeployInv'
<1>1. Typed /\ VpsOK /\ RowsOK /\ JobsOK /\ KeysOK /\ RestOK /\ NaiveInv /\ XuiInv
  BY DEF DeployInv, Typed
<1>2. /\ job["xui"].at = "panel" /\ Go("xui", NoJob) /\ panel' = None
      /\ UNCHANGED <<vps, port, dep, node, adrift, making, keys, left, drift>>
  BY DEF DropPanel, Stop
<1>3. /\ JobsOK' /\ job'["xui"] = NoJob /\ \A q \in Protocols \ {"xui"} : job'[q] = job[q]
  BY <1>1, <1>2, NoJobType, GoFacts
<1>4. KeysOK'
  BY <1>1, <1>2, <1>3, NoJobType, JobKeys
<1>5. Typed'
  BY <1>1, <1>2, <1>3, <1>4 DEF Typed, VpsOK, RowsOK, RestOK
<1>6. NaiveInv'
  BY <1>1, <1>2, <1>3, NaiveFrame
<1>7. XuiInv'
  BY <1>1, <1>2, <1>3, NoJobType DEF XuiInv, Xui, Removing, Deployed, NoExports
<1> QED BY <1>5, <1>6, <1>7 DEF DeployInv

-----------------------------------------------------------------------------
(* A job that is cancelled, and the script that runs on.                   *)

LEMMA CancelStep ==
  ASSUME DeployInv, NEW p \in Protocols, Cancel(p)
  PROVE  DeployInv'
<1>1. Typed /\ VpsOK /\ RowsOK /\ JobsOK /\ KeysOK /\ RestOK /\ NaiveInv /\ XuiInv
  BY DEF DeployInv, Typed
<1>2. /\ job[p] \in JobType /\ Go(p, NoJob) /\ Mishap({p, "ssh"})
      /\ UNCHANGED <<vps, port, dep, panel, node, making, keys>>
  BY <1>1 DEF Cancel, Stop, JobsOK
<1>3. PICK a : a = IF job[p].at \in {"install", "uninstall"} /\ Reachable(p)
                     THEN [wipe |-> job[p].at = "uninstall", pro |-> job[p].pro, ssh |-> job[p].ssh]
                     ELSE None
  OBVIOUS
<1>4. adrift' = [adrift EXCEPT ![p] = a]
  BY <1>3 DEF Cancel
<1>5. a \in Adrift \cup {None} /\ (a # None /\ ~a.wipe => job[p].at = "install")
  <2>1. CASE job[p].at \in {"install", "uninstall"} /\ Reachable(p)
    <3>1. PICK b \in BOOLEAN : b = (job[p].at = "uninstall")
      OBVIOUS
    <3>2. a = [wipe |-> b, pro |-> job[p].pro, ssh |-> job[p].ssh]
      BY <1>3, <2>1, <3>1
    <3>3. a \in Adrift
      BY <1>2, <3>2 DEF Adrift, JobType
    <3> QED BY <2>1, <3>1, <3>2, <3>3
  <2>2. CASE ~(job[p].at \in {"install", "uninstall"} /\ Reachable(p))
    BY <1>3, <2>2
  <2> QED BY <2>1, <2>2
<1>6. /\ adrift'[p] = a /\ \A q \in Protocols \ {p} : adrift'[q] = adrift[q]
      /\ adrift' \in [Protocols -> Adrift \cup {None}]
  BY <1>1, <1>4, <1>5 DEF JobsOK
<1>7. /\ job'[p] = NoJob /\ job' \in [Protocols -> JobType]
      /\ \A q \in Protocols \ {p} : job'[q] = job[q]
  BY <1>1, <1>2, NoJobType DEF JobsOK, Go
<1>8. JobsOK'
  BY <1>1, <1>6, <1>7, NoJobType DEF JobsOK, Naive, Xui
<1>9. KeysOK'
  <2>1. \A q \in Protocols \ {p} : Owed(q)' => Owed(q)
    BY <1>6 DEF Owed
  <2>2. Owed(p)' => job[p].at = "install"
    BY <1>5, <1>6 DEF Owed
  <2> QED BY <1>1, <1>2, <1>7, <2>1, <2>2, NoJobType, KeysMoved
<1>10. RestOK' /\ drift \subseteq drift' /\ p \in drift'
  BY <1>1, <1>2, BesideFacts DEF RestOK, Mishap
<1>11. Typed'
  BY <1>1, <1>2, <1>8, <1>9, <1>10 DEF Typed, VpsOK, RowsOK
<1>12. NaiveInv'
  <2>1. CASE p = "xui"
    BY <1>1, <1>2, <1>6, <1>7, <1>10, <2>1, NaiveFrame
  <2>2. CASE p = "naive"
    BY <1>10, <2>2, NaiveSpoilt
  <2> QED BY <2>1, <2>2
<1>13. XuiInv'
  <2>1. CASE p = "naive"
    BY <1>1, <1>2, <1>6, <1>7, <1>10, <2>1, XuiFrame
  <2>2. CASE p = "xui"
    BY <1>10, <2>2, XuiSpoilt
  <2> QED BY <2>1, <2>2
<1> QED BY <1>11, <1>12, <1>13 DEF DeployInv

LEMMA RunsOnStep ==
  ASSUME DeployInv, NEW p \in Protocols, RunsOn(p)
  PROVE  DeployInv'
<1>1. Typed /\ VpsOK /\ RowsOK /\ JobsOK /\ KeysOK /\ RestOK /\ NaiveInv /\ XuiInv
  BY DEF DeployInv, Typed
<1>2. /\ adrift[p] \in Adrift /\ adrift[p] # None /\ adrift' = [adrift EXCEPT ![p] = None]
      /\ UNCHANGED <<port, dep, panel, node, job, making, left, drift>>
      /\ \/ Wipe(p) /\ keys' = keys
         \/ ~adrift[p].wipe /\ Installs(p, adrift[p].pro, adrift[p].ssh)
         \/ UNCHANGED <<vps, keys>>
  BY <1>1 DEF RunsOn, JobsOK
<1>3. /\ adrift'[p] = None /\ \A q \in Protocols \ {p} : adrift'[q] = adrift[q]
      /\ adrift' \in [Protocols -> Adrift \cup {None}]
  BY <1>1, <1>2 DEF JobsOK
<1>4. JobsOK'
  BY <1>1, <1>2, <1>3 DEF JobsOK, Naive, Xui
<1>5. /\ VpsOK' /\ KeysOK'
      /\ p = "naive" => vps'.token = vps.token
      /\ p = "xui" => vps'.caddy = vps.caddy
  <2>1. (\A q \in Protocols : job'[q].at = "install" => job[q].at = "install") /\ ~Owed(p)'
        /\ \A q \in Protocols : Owed(q)' => Owed(q)
    BY <1>2, <1>3 DEF Owed
  <2>2. CASE Wipe(p) /\ keys' = keys
    BY <1>1, <2>1, <2>2, WipeFacts, KeysFrame
  <2>3. CASE ~adrift[p].wipe /\ Installs(p, adrift[p].pro, adrift[p].ssh)
    <3>1. Owed(p) /\ adrift[p].pro \in BOOLEAN
      BY <1>2, <2>3 DEF Owed, Adrift
    <3>2. /\ VpsOK' /\ keys' \in {keys, keys + 1}
          /\ p = "naive" => vps'.token = vps.token
          /\ p = "xui" => vps'.caddy = vps.caddy
      BY <1>1, <2>3, <3>1, InstallsFacts
    <3>3. job'[p].at # "install" \/ job[p].at = "install"
      BY <1>2
    <3> QED BY <1>1, <2>1, <3>1, <3>2, <3>3, KeysSpent
  <2>4. CASE UNCHANGED <<vps, keys>>
    <3>1. KeysOK'
      BY <1>1, <2>1, <2>4, KeysFrame
    <3> QED BY <1>1, <2>4, <3>1 DEF VpsOK
  <2> QED BY <1>2, <2>2, <2>3, <2>4
<1>6. Typed'
  BY <1>1, <1>2, <1>4, <1>5 DEF Typed, RowsOK, RestOK
<1>7. p \in drift'
  BY <1>1, <1>2 DEF NaiveInv, XuiInv
<1>8. NaiveInv'
  <2>1. CASE p = "xui"
    BY <1>1, <1>2, <1>3, <1>5, <2>1, NaiveFrame
  <2>2. CASE p = "naive"
    BY <1>7, <2>2, NaiveSpoilt
  <2> QED BY <2>1, <2>2
<1>9. XuiInv'
  <2>1. CASE p = "naive"
    BY <1>1, <1>2, <1>3, <1>5, <2>1, XuiFrame
  <2>2. CASE p = "xui"
    BY <1>7, <2>2, XuiSpoilt
  <2> QED BY <2>1, <2>2
<1> QED BY <1>6, <1>8, <1>9 DEF DeployInv

-----------------------------------------------------------------------------
(* The deployment row by hand.                                             *)

LEMMA SaveDeploymentStep ==
  ASSUME DeployInv, SaveDeployment
  PROVE  DeployInv'
<1>1. Typed /\ VpsOK /\ RowsOK /\ JobsOK /\ KeysOK /\ RestOK /\ NaiveInv /\ XuiInv
  BY DEF DeployInv, Typed
<1>2. /\ port # None /\ Room /\ keys' = keys + 1 /\ left' = left /\ drift' = drift
      /\ UNCHANGED <<vps, port, panel, node, job, adrift, making>>
      /\ dep["naive"] \in Deployment \cup {None}
  BY <1>1 DEF SaveDeployment, Calm, RowsOK
<1>3. /\ KeysOK' /\ keys + 1 \in Key
  <2>1. \A q \in Protocols : One(q) \in Nat /\ Two(q) \in Nat /\ One(q)' = One(q) /\ Two(q)' = Two(q)
    BY <1>2 DEF One, Two, Owed
  <2>2. keys + One("naive") + One("xui") + Two("naive") + Two("xui") < MaxKeys
    BY <1>1, <1>2, RoomKeys
  <2>3. keys \in Nat /\ MaxKeys \in Nat
    BY <1>1, ConstantsAssumption DEF KeysOK
  <2>4. keys + 1 \in Nat /\ keys + 1 <= MaxKeys
    BY <2>1, <2>2, <2>3
  <2>5. keys + 1 + One("naive") + One("xui") + Two("naive") + Two("xui") <= MaxKeys
    BY <2>1, <2>2, <2>3
  <2> QED BY <1>2, <2>1, <2>4, <2>5 DEF KeysOK, Key
<1>4. PICK k \in Key : k = keys + 1
  BY <1>3
<1>5. PICK d \in Deployment :
        /\ dep' = [dep EXCEPT !["naive"] = d]
        /\ IF dep["naive"] = None THEN d.node = None /\ d.status = "configured"
           ELSE d.node = dep["naive"].node /\ (d.status = "deployed" => dep["naive"].status = "deployed")
  <2>1. CASE dep["naive"] = None
    <3>1. PICK d : d = [status |-> "configured", key |-> k, pro |-> FALSE, node |-> None]
      OBVIOUS
    <3>2. d \in Deployment /\ d.node = None /\ d.status = "configured"
      BY <3>1 DEF Deployment
    <3>3. dep' = [dep EXCEPT !["naive"] = d]
      BY <1>4, <2>1, <3>1 DEF SaveDeployment
    <3> QED BY <2>1, <3>2, <3>3
  <2>2. CASE dep["naive"] # None
    <3>1. PICK s \in {"configured", "deployed", "failed"} :
            s = IF dep["naive"].status = "deployed" /\ dep["naive"].node = None
                  THEN "configured" ELSE dep["naive"].status
      BY <1>2, <2>2 DEF Deployment
    <3>2. PICK d : d = [dep["naive"] EXCEPT !.key = k, !.status = s]
      OBVIOUS
    <3>3. d \in Deployment /\ d.node = dep["naive"].node /\ d.status = s
      BY <1>2, <2>2, <3>2 DEF Deployment
    <3>4. dep' = [dep EXCEPT !["naive"] = d]
      BY <1>4, <2>2, <3>1, <3>2 DEF SaveDeployment
    <3> QED BY <2>2, <3>1, <3>3, <3>4
  <2> QED BY <2>1, <2>2
<1>6. /\ dep'["naive"] = d /\ dep'["xui"] = dep["xui"] /\ d # None
      /\ dep' \in [Protocols -> Deployment \cup {None}]
  BY <1>1, <1>5, NoneAssumption DEF RowsOK
<1>7. RowsOK'
  BY <1>1, <1>2, <1>5, <1>6 DEF RowsOK
<1>8. Typed'
  BY <1>1, <1>2, <1>3, <1>7 DEF Typed, VpsOK, JobsOK, Naive, Xui, RestOK
<1>9. NaiveInv'
  <2>1. NaiveGood => NaiveGood'
    BY <1>2, <1>5, <1>6 DEF NaiveGood, Deployed
  <2> QED BY <1>1, <1>2, <2>1 DEF NaiveInv, Naive
<1>10. XuiInv'
  BY <1>1, <1>2, <1>6, XuiFrame
<1> QED BY <1>8, <1>9, <1>10 DEF DeployInv

LEMMA RunByHandStep ==
  ASSUME DeployInv, RunByHand
  PROVE  DeployInv'
<1>1. Typed /\ VpsOK /\ RowsOK /\ JobsOK /\ KeysOK /\ RestOK /\ NaiveInv /\ XuiInv
  BY DEF DeployInv, Typed
<1>2. PICK busy \in BOOLEAN : busy = (dep["naive"].status = "deployed" \/ ~Quiet("naive") \/ Making)
  OBVIOUS
<1>3. /\ dep["naive"] \in Deployment /\ dep["naive"].key # 0 /\ ~vps.nginx
      /\ vps' = [vps EXCEPT !.caddy = dep["naive"].key]
      /\ UNCHANGED <<port, dep, panel, node, job, adrift, making, keys>>
      /\ IF busy THEN Mishap({"naive"}) ELSE Calm
  BY <1>1, <1>2 DEF RunByHand, RowsOK, Beside
<1>4. /\ VpsOK' /\ vps'.token = vps.token
  BY <1>1, <1>3 DEF VpsOK, Vps, Deployment
<1>5. RestOK' /\ drift \subseteq drift'
  <2>1. Calm \/ Mishap({"naive"})
    BY <1>3
  <2> QED BY <1>1, <1>3, <2>1, BesideFacts DEF RestOK
<1>6. KeysOK'
  BY <1>1, <1>3 DEF KeysOK, One, Two, Owed
<1>7. Typed'
  BY <1>1, <1>3, <1>4, <1>5, <1>6 DEF Typed, RowsOK, JobsOK, Naive, Xui
<1>8. NaiveInv'
  <2>1. CASE busy
    <3>1. "naive" \in drift'
      BY <1>3, <2>1 DEF Mishap
    <3> QED BY <3>1, NaiveSpoilt
  <2>2. CASE ~busy
    BY <1>1, <1>2, <1>3, <1>5, <2>2
    DEF NaiveInv, Naive, NaiveGood, Deployed, Quiet, Making
  <2> QED BY <2>1, <2>2
<1>9. XuiInv'
  BY <1>1, <1>3, <1>4, <1>5, XuiFrame
<1> QED BY <1>7, <1>8, <1>9 DEF DeployInv

LEMMA CheckNodeStep ==
  ASSUME DeployInv, NEW r \in Requests, CheckNode(r)
  PROVE  DeployInv'
<1>1. Typed /\ VpsOK /\ RowsOK /\ JobsOK /\ KeysOK /\ RestOK /\ NaiveInv /\ XuiInv
  BY DEF DeployInv, Typed
<1>2. PICK busy \in BOOLEAN :
        busy = (~Quiet("naive") \/ vps.caddy = 0 \/ dep["naive"].key \notin {0, vps.caddy})
  OBVIOUS
<1>3. /\ dep["naive"] \in Deployment /\ making' = [making EXCEPT ![r] = dep["naive"].key]
      /\ UNCHANGED <<vps, port, dep, panel, node, job, adrift, keys>>
      /\ IF busy THEN Mishap({"naive"}) ELSE Calm
  BY <1>1, <1>2 DEF CheckNode, RowsOK, Beside
<1>4. /\ making' \in [Requests -> Key \cup {None}]
      /\ \A q \in Requests : making'[q] = IF q = r THEN dep["naive"].key ELSE making[q]
  BY <1>1, <1>3 DEF RestOK, Deployment
<1>5. RestOK' /\ drift \subseteq drift'
  <2>1. Calm \/ Mishap({"naive"})
    BY <1>3
  <2> QED BY <1>1, <1>4, <2>1, BesideFacts DEF RestOK
<1>6. KeysOK'
  BY <1>1, <1>3 DEF KeysOK, One, Two, Owed
<1>7. Typed'
  BY <1>1, <1>3, <1>5, <1>6 DEF Typed, VpsOK, RowsOK, JobsOK, Naive, Xui
<1>8. NaiveInv'
  <2>1. CASE busy
    <3>1. "naive" \in drift'
      BY <1>3, <2>1 DEF Mishap
    <3> QED BY <3>1, NaiveSpoilt
  <2>2. CASE ~busy
    BY <1>1, <1>2, <1>3, <1>4, <1>5, <2>2
    DEF NaiveInv, Naive, NaiveGood, Deployed, Quiet
  <2> QED BY <2>1, <2>2
<1>9. XuiInv'
  BY <1>1, <1>3, <1>5, XuiFrame
<1> QED BY <1>7, <1>8, <1>9 DEF DeployInv

LEMMA InsertNodeStep ==
  ASSUME DeployInv, NEW r \in Requests, NEW i \in Slots, InsertNode(r, i)
  PROVE  DeployInv'
<1>1. Typed /\ VpsOK /\ RowsOK /\ JobsOK /\ KeysOK /\ RestOK /\ NaiveInv /\ XuiInv
  BY DEF DeployInv, Typed
<1>2. /\ making[r] \in Key /\ making[r] # None /\ making' = [making EXCEPT ![r] = None]
      /\ node[i] = None
      /\ UNCHANGED <<vps, port, panel, job, adrift, keys, left, drift>>
  BY <1>1 DEF InsertNode, RestOK, Free
<1>3. /\ making' \in [Requests -> Key \cup {None}]
      /\ \A q \in Requests : making'[q] = IF q = r THEN None ELSE making[q]
  BY <1>1, <1>2 DEF RestOK
<1>4. PICK b \in BOOLEAN : b = (dep["naive"] # None)
  OBVIOUS
<1>5. PICK e \in Node : e = [from |-> "naive", key |-> making[r], inner |-> b]
  BY <1>2 DEF Node
<1>6. e # None /\ e.from = "naive" /\ e.key = making[r]
  BY <1>5, NoneAssumption
\* What the two rows are afterwards.
<1>7. /\ node' \in [Slots -> Node \cup {None}] /\ dep' \in [Protocols -> Deployment \cup {None}]
      /\ \A s \in Slots \ {i} : node'[s] = node[s]
      /\ node'[i] = None \/ node'[i] = e
      /\ dep'["xui"] = dep["xui"] /\ (dep'["naive"] = None <=> dep["naive"] = None)
      /\ dep["naive"] # None => dep'["naive"].status = "deployed" /\ dep'["naive"].node = i
                                /\ node'[i] = e
  <2>1. dep \in [Protocols -> Deployment \cup {None}] /\ node \in [Slots -> Node \cup {None}]
        /\ (port = None => dep["naive"] = None)
    BY <1>1 DEF RowsOK
  <2>2. CASE port = None
    BY <1>2, <2>1, <2>2 DEF InsertNode
  <2>3. CASE port # None
    <3>1. /\ node' = [node EXCEPT ![i] = e]
          /\ dep' = IF dep["naive"] = None THEN dep
                    ELSE [dep EXCEPT !["naive"].node = i, !["naive"].status = "deployed"]
      BY <1>4, <1>5, <2>3 DEF InsertNode
    <3>2. /\ node' \in [Slots -> Node \cup {None}] /\ node'[i] = e
          /\ \A s \in Slots \ {i} : node'[s] = node[s]
      BY <2>1, <3>1
    <3>3. CASE dep["naive"] = None
      BY <2>1, <3>1, <3>2, <3>3
    <3>4. CASE dep["naive"] # None
      <4>1. PICK d : d = [dep["naive"] EXCEPT !.node = i, !.status = "deployed"]
        OBVIOUS
      <4>2. d \in Deployment /\ d.node = i /\ d.status = "deployed"
        BY <2>1, <3>4, <4>1 DEF Deployment
      <4>3. dep' = [dep EXCEPT !["naive"] = d]
        BY <2>1, <3>1, <3>4, <4>1
      <4>4. d # None
        BY <4>2, NoneAssumption
      <4> QED BY <2>1, <3>2, <3>4, <4>2, <4>3, <4>4
    <3> QED BY <3>3, <3>4
  <2> QED BY <2>2, <2>3
<1>8. RowsOK'
  <2>1. \A p \in Protocols : dep'[p] # None /\ dep'[p].node # None
                               => p = "naive" /\ node'[dep'[p].node] # None
    BY <1>1, <1>6, <1>7 DEF RowsOK
  <2>2. port' = None => panel' = None /\ \A p \in Protocols : dep'[p] = None
    BY <1>1, <1>2, <1>7 DEF RowsOK
  <2> QED BY <1>1, <1>2, <1>7, <2>1, <2>2 DEF RowsOK
<1>9. RestOK' /\ KeysOK'
  BY <1>1, <1>2, <1>3 DEF RestOK, KeysOK, One, Two, Owed
<1>10. Typed'
  BY <1>1, <1>2, <1>8, <1>9 DEF Typed, VpsOK, JobsOK, Naive, Xui
<1>11. \A s \in Slots : node[s] # None => node'[s] = node[s]
  BY <1>2, <1>7
<1>12. NaiveInv'
  <2> SUFFICES ASSUME "naive" \notin drift' PROVE NaiveInv'
    BY DEF NaiveInv
  <2>1. /\ adrift["naive"] = None /\ Naive.at = "idle" /\ vps.caddy # 0 /\ making[r] \in {0, vps.caddy}
        /\ Naive.node = None
        /\ \A q \in Requests : making[q] # None => making[q] \in {0, vps.caddy}
    BY <1>1, <1>2 DEF NaiveInv
  <2>2. NaiveGood'
    BY <1>2, <1>6, <1>7, <2>1 DEF NaiveGood, Deployed
  <2>3. \A q \in Requests : making'[q] # None => making'[q] \in {0, vps.caddy}
    BY <1>3, <2>1
  <2> QED BY <1>2, <2>1, <2>2, <2>3 DEF NaiveInv, Naive
<1>13. XuiInv'
  BY <1>1, <1>2, <1>6, <1>7, XuiFrame
<1> QED BY <1>10, <1>12, <1>13 DEF DeployInv

LEMMA DeleteDeploymentStep ==
  ASSUME DeployInv, NEW p \in Protocols, DeleteDeployment(p)
  PROVE  DeployInv'
<1>1. Typed /\ VpsOK /\ RowsOK /\ JobsOK /\ KeysOK /\ RestOK /\ NaiveInv /\ XuiInv
  BY DEF DeployInv, Typed
<1>2. /\ dep' = [dep EXCEPT ![p] = None] /\ Mishap({p})
      /\ UNCHANGED <<vps, port, panel, node, job, adrift, making, keys>>
  BY DEF DeleteDeployment
<1>3. /\ dep'[p] = None /\ \A q \in Protocols \ {p} : dep'[q] = dep[q]
      /\ dep' \in [Protocols -> Deployment \cup {None}]
  BY <1>1, <1>2 DEF RowsOK
<1>4. RestOK' /\ drift \subseteq drift' /\ p \in drift'
  BY <1>1, <1>2, BesideFacts DEF RestOK, Mishap
<1>5. RowsOK' /\ KeysOK'
  BY <1>1, <1>2, <1>3 DEF RowsOK, KeysOK, One, Two, Owed
<1>6. Typed'
  BY <1>1, <1>2, <1>4, <1>5 DEF Typed, VpsOK, JobsOK, Naive, Xui
<1>7. NaiveInv'
  <2>1. CASE p = "xui"
    BY <1>1, <1>2, <1>3, <1>4, <2>1, NaiveFrame
  <2>2. CASE p = "naive"
    BY <1>4, <2>2, NaiveSpoilt
  <2> QED BY <2>1, <2>2
<1>8. XuiInv'
  <2>1. CASE p = "naive"
    BY <1>1, <1>2, <1>3, <1>4, <2>1, XuiFrame
  <2>2. CASE p = "xui"
    BY <1>4, <2>2, XuiSpoilt
  <2> QED BY <2>1, <2>2
<1> QED BY <1>6, <1>7, <1>8 DEF DeployInv

-----------------------------------------------------------------------------
(* The other rows.                                                         *)

LEMMA ExportStep ==
  ASSUME DeployInv, NEW i \in Slots, Export(i)
  PROVE  DeployInv'
<1>1. Typed /\ VpsOK /\ RowsOK /\ JobsOK /\ KeysOK /\ RestOK /\ NaiveInv /\ XuiInv
  BY DEF DeployInv, Typed
<1>2. PICK busy \in BOOLEAN : busy = ~Quiet("xui")
  OBVIOUS
<1>3. /\ panel \in Panel /\ panel # None /\ node[i] = None
      /\ UNCHANGED <<vps, port, dep, panel, job, adrift, making, keys>>
      /\ IF busy THEN Mishap({"xui"}) ELSE Calm
  BY <1>1, <1>2 DEF Export, Free, RowsOK, Beside
<1>4. PICK e \in Node : e = [from |-> "xui", key |-> panel.key, inner |-> TRUE]
  BY <1>3 DEF Node, Panel
<1>5. /\ node' \in [Slots -> Node \cup {None}] /\ node'[i] = e /\ e # None
      /\ \A s \in Slots \ {i} : node'[s] = node[s]
  BY <1>1, <1>4, NoneAssumption DEF Export, RowsOK
<1>6. RestOK' /\ drift \subseteq drift'
  <2>1. Calm \/ Mishap({"xui"})
    BY <1>3
  <2> QED BY <1>1, <1>3, <2>1, BesideFacts DEF RestOK
<1>7. \A s \in Slots : node[s] # None => node'[s] = node[s]
  BY <1>3, <1>5
<1>8. RowsOK'
  <2>1. \A p \in Protocols : dep'[p] # None /\ dep'[p].node # None
                               => p = "naive" /\ node'[dep'[p].node] # None
    BY <1>1, <1>3, <1>7 DEF RowsOK, Deployment
  <2> QED BY <1>1, <1>3, <1>5, <2>1 DEF RowsOK
<1>9. KeysOK'
  BY <1>1, <1>3 DEF KeysOK, One, Two, Owed
<1>10. Typed'
  BY <1>1, <1>3, <1>6, <1>8, <1>9 DEF Typed, VpsOK, JobsOK, Naive, Xui
<1>11. NaiveInv'
  BY <1>1, <1>3, <1>6, <1>7, NaiveFrame
<1>12. XuiInv'
  <2>1. CASE busy
    <3>1. "xui" \in drift'
      BY <1>3, <2>1 DEF Mishap
    <3> QED BY <3>1, XuiSpoilt
  <2>2. CASE ~busy
    BY <1>1, <1>2, <1>3, <1>6, <2>2 DEF XuiInv, Xui, Removing, Deployed, Quiet
  <2> QED BY <2>1, <2>2
<1> QED BY <1>10, <1>11, <1>12 DEF DeployInv

LEMMA DeleteNodeStep ==
  ASSUME DeployInv, NEW i \in Slots, DeleteNode(i)
  PROVE  DeployInv'
<1>1. Typed /\ VpsOK /\ RowsOK /\ JobsOK /\ KeysOK /\ RestOK /\ NaiveInv /\ XuiInv
  BY DEF DeployInv, Typed
<1>2. PICK busy \in BOOLEAN : busy = (job["naive"].node = i)
  OBVIOUS
<1>3. /\ Forget({i}) /\ {i} \in SUBSET Slots
      /\ UNCHANGED <<vps, port, panel, job, adrift, making, keys>>
      /\ IF busy THEN Mishap({"naive", "ssh"}) ELSE Calm
  BY <1>2 DEF DeleteNode, Beside
<1>4. RestOK' /\ drift \subseteq drift'
  <2>1. Calm \/ Mishap({"naive", "ssh"})
    BY <1>3
  <2> QED BY <1>1, <1>3, <2>1, BesideFacts DEF RestOK
<1>5. RowsOK'
  BY <1>1, <1>3, ForgetRows
<1>6. KeysOK'
  BY <1>1, <1>3 DEF KeysOK, One, Two, Owed
<1>7. Typed'
  BY <1>1, <1>3, <1>4, <1>5, <1>6 DEF Typed, VpsOK, JobsOK, Naive, Xui
<1>8. /\ \A s \in Slots : node'[s] = IF s = i THEN None ELSE node[s]
      /\ \A p \in Protocols :
           /\ dep'[p] = None <=> dep[p] = None
           /\ dep[p] # None =>
                /\ dep'[p].status = dep[p].status
                /\ dep'[p].node = IF dep[p].node = i THEN None ELSE dep[p].node
  BY <1>1, <1>3, ForgetFacts
<1>9. NaiveInv'
  <2>1. CASE busy
    <3>1. "naive" \in drift'
      BY <1>3, <2>1 DEF Mishap
    <3> QED BY <3>1, NaiveSpoilt
  <2>2. CASE ~busy
    <3>1. Naive.node # i /\ (Naive.node # None => Naive.node \in Slots)
      BY <1>1, <1>2, <2>2 DEF JobsOK, JobType, Naive
    <3>2. dep["naive"] # None /\ dep["naive"].node # None => dep["naive"].node \in Slots
      BY <1>1 DEF RowsOK, Deployment
    <3>3. NaiveGood => NaiveGood'
      BY <1>3, <1>8, <3>2 DEF NaiveGood, Deployed
    <3> QED BY <1>1, <1>3, <1>4, <1>8, <3>1, <3>3 DEF NaiveInv, Naive
  <2> QED BY <2>1, <2>2
<1>10. XuiInv'
  <2>1. NoExports => NoExports'
    BY <1>8 DEF NoExports
  <2>2. Deployed("xui")' = Deployed("xui") /\ (dep'["xui"] = None <=> dep["xui"] = None)
    BY <1>8 DEF Deployed
  <2> QED BY <1>1, <1>3, <1>4, <2>1, <2>2 DEF XuiInv, Xui, Removing
<1> QED BY <1>7, <1>9, <1>10 DEF DeployInv

LEMMA DeleteServerStep ==
  ASSUME DeployInv, DeleteServer
  PROVE  DeployInv'
<1>1. Typed /\ VpsOK /\ RowsOK /\ JobsOK /\ KeysOK /\ RestOK /\ NaiveInv /\ XuiInv
  BY DEF DeployInv, Typed
<1>2. /\ port' = None /\ panel' = None /\ dep' = [p \in Protocols |-> None] /\ Mishap(Protocols)
      /\ UNCHANGED <<vps, node, job, adrift, making, keys>>
  BY DEF DeleteServer
<1>3. RestOK' /\ "naive" \in drift' /\ "xui" \in drift'
  BY <1>1, <1>2, BesideFacts DEF RestOK, Mishap
<1>4. RowsOK' /\ KeysOK'
  BY <1>1, <1>2 DEF RowsOK, KeysOK, One, Two, Owed
<1>5. Typed'
  BY <1>1, <1>2, <1>3, <1>4 DEF Typed, VpsOK, JobsOK, Naive, Xui
<1> QED BY <1>3, <1>5, NaiveSpoilt, XuiSpoilt DEF DeployInv

LEMMA ServerStep ==
  ASSUME DeployInv, CreateServer \/ UpdateServer
  PROVE  DeployInv'
<1>1. Typed /\ VpsOK /\ RowsOK /\ JobsOK /\ KeysOK /\ RestOK /\ NaiveInv /\ XuiInv
  BY DEF DeployInv, Typed
<1>2. /\ port' \in Listening
      /\ UNCHANGED <<vps, dep, panel, node, job, adrift, making, keys, left, drift>>
  BY DEF CreateServer, UpdateServer, Calm
<1>3. port' \in Ports /\ port' # None
  <2>1. \A q \in Protocols : vps.drop[q] \in {None, Moved}
    BY <1>1 DEF VpsOK, Vps
  <2>2. Listening \subseteq Ports
    BY <2>1 DEF Listening, Ports
  <2> QED BY <1>2, <2>2, NoneAssumption
<1>4. RowsOK' /\ KeysOK'
  BY <1>1, <1>2, <1>3 DEF RowsOK, KeysOK, One, Two, Owed
<1>5. Typed'
  BY <1>1, <1>2, <1>4 DEF Typed, VpsOK, JobsOK, Naive, Xui, RestOK
<1>6. NaiveInv'
  BY <1>1, <1>2, NaiveFrame
<1>7. XuiInv'
  BY <1>1, <1>2, XuiFrame
<1> QED BY <1>5, <1>6, <1>7 DEF DeployInv

LEMMA StutterStep ==
  ASSUME DeployInv, UNCHANGED vars
  PROVE  DeployInv'
BY DEF vars, DeployInv, Typed, VpsOK, RowsOK, JobsOK, KeysOK, RestOK, One, Two, Owed, NaiveInv, XuiInv,
       Naive, Xui, NaiveGood, Deployed, NoExports, Removing

-----------------------------------------------------------------------------
(* The theorems.                                                           *)

LEMMA InvInit == Init => DeployInv
<1> SUFFICES ASSUME Init PROVE DeployInv
  OBVIOUS
<1>1. 0 \in Key /\ MaxKeys \in Nat /\ MaxMishaps \in Nat
  BY ConstantsAssumption DEF Key
<1>2. VpsOK
  BY <1>1 DEF Init, VpsOK, Vps
<1>3. RowsOK
  BY DEF Init, RowsOK, Ports
<1>4. JobsOK /\ (\A p \in Protocols : job[p] = NoJob /\ adrift[p] = None)
  BY NoJobType DEF Init, JobsOK, Naive, Xui
<1>5. KeysOK
  BY <1>1, <1>4, NoJobType DEF Init, KeysOK, One, Two, Owed
<1>6. RestOK
  BY <1>1 DEF Init, RestOK
<1>7. NaiveInv
  BY <1>4, NoJobType DEF Init, NaiveInv, Naive, NaiveGood, Deployed
<1>8. XuiInv
  BY <1>4, NoJobType DEF Init, XuiInv, Xui, NoExports, Removing, Deployed
<1> QED BY <1>2, <1>3, <1>4, <1>5, <1>6, <1>7, <1>8 DEF DeployInv, Typed

LEMMA InvStep == DeployInv /\ [Next]_vars => DeployInv'
<1> SUFFICES ASSUME DeployInv, [Next]_vars PROVE DeployInv'
  OBVIOUS
<1>1. ASSUME NEW p \in Protocols,
             \/ RunJob(p) \/ Uninstall(p) \/ Cancel(p) \/ RunsOn(p) \/ DeleteDeployment(p)
             \/ \E pro \in BOOLEAN, ssh \in Asked \cup {None} : Deploy(p, pro, ssh)
      PROVE  DeployInv'
  BY <1>1, InstallStep, RecordDeploymentStep, RecordPortStep, UninstallExecStep, DropDeploymentStep,
     UninstallStep, CancelStep, RunsOnStep, DeleteDeploymentStep, DeployStep DEF RunJob
<1>2. ASSUME \/ RecordPanel \/ DropNodes \/ DropPanel \/ SaveDeployment \/ RunByHand
             \/ DeleteServer \/ CreateServer \/ UpdateServer
      PROVE  DeployInv'
  BY <1>2, RecordPanelStep, DropNodesStep, DropPanelStep, SaveDeploymentStep, RunByHandStep,
     DeleteServerStep, ServerStep
<1>3. ASSUME NEW i \in Slots,
             RecordNode(i) \/ Export(i) \/ DeleteNode(i) \/ \E r \in Requests : InsertNode(r, i)
      PROVE  DeployInv'
  BY <1>3, RecordNodeStep, ExportStep, DeleteNodeStep, InsertNodeStep
<1>4. ASSUME NEW r \in Requests, CheckNode(r) PROVE DeployInv'
  BY <1>4, CheckNodeStep
<1> QED BY <1>1, <1>2, <1>3, <1>4, StutterStep DEF Next

LEMMA InvAlways == Spec => []DeployInv
<1> QED BY InvInit, InvStep, PTL DEF Spec

\* The machine, the rows, the jobs and the scripts that run on have their types: a row names
\* only nodes that are there, a server without a row has no other rows, one web server at most
\* has port 443, and keys never run out under a script.
THEOREM DeployTyped == Spec => []TypeOK
<1>1. DeployInv => TypeOK
  BY TypedOK DEF DeployInv
<1> QED BY <1>1, InvAlways, PTL

\* What a row calls deployed is on the machine with the credentials that PiTun has, unless a
\* mishap or two actors at once have touched that protocol.
THEOREM DeployedIsThere == Spec => []DeployedWorks
<1>1. DeployInv => DeployedWorks
  BY DEF DeployInv, NaiveInv, XuiInv, DeployedWorks, NaiveGood, Deployed, Quiet, Naive, Xui
<1> QED BY <1>1, InvAlways, PTL

\* Nothing stays behind of a panel that is gone: no row of it and no node exported from it.
THEOREM NothingStays == Spec => []NothingLeftBehind
<1>1. DeployInv => NothingLeftBehind
  <2> SUFFICES ASSUME DeployInv, "xui" \notin drift, Quiet("xui"), vps.token = 0
               PROVE  /\ panel = None
                      /\ dep["xui"] \in {None} \cup [status : {"failed"}, key : Key, pro : BOOLEAN,
                                                     node : {None}]
                      /\ \A i \in Slots : node[i] = None \/ node[i].from # "xui"
    BY DEF NothingLeftBehind
  <2>1. panel = None /\ ~Deployed("xui") /\ NoExports
    BY DEF DeployInv, XuiInv, Xui, Removing, Quiet
  <2>2. dep["xui"] # None => /\ dep["xui"] \in Deployment /\ dep["xui"].status = "failed"
                             /\ dep["xui"].node = None
    BY <2>1 DEF DeployInv, Typed, RowsOK, Deployed, Deployment
  <2>3. dep["xui"] # None => dep["xui"] \in [status : {"failed"}, key : Key, pro : BOOLEAN,
                                             node : {None}]
    BY <2>2 DEF Deployment
  <2> QED BY <2>1, <2>3 DEF NoExports
<1> QED BY <1>1, InvAlways, PTL

-----------------------------------------------------------------------------
(* XuiPanel. *)

HIDE DEF Protocols

LEMMA LeastNat ==
  ASSUME NEW T \in SUBSET Nat, T # {}
  PROVE  \E m \in T : \A k \in T : m <= k
<1> DEFINE B == {0..n : n \in T}
<1>1. B \subseteq FiniteSubsetsOf(Nat) /\ B # {}
  <2>1. \A n \in T : IsFiniteSet(0..n) /\ 0..n \subseteq Nat
    BY FS_Interval
  <2> QED BY <2>1 DEF FiniteSubsetsOf
<1>2. IsWellFoundedOn(StrictSubsetOrdering(Nat), FiniteSubsetsOf(Nat))
  BY FS_StrictSubsetOrderingWellFounded
<1> HIDE DEF B
<1>3. PICK x \in B : \A y \in B : ~(<<y, x>> \in StrictSubsetOrdering(Nat))
  BY <1>1, <1>2, WFMin
<1>4. PICK m \in T : x = 0..m
  BY DEF B
<1>5. ASSUME NEW k \in T PROVE m <= k
  <2> SUFFICES ASSUME k < m PROVE FALSE
    OBVIOUS
  <2>1. ~(<<0..k, 0..m>> \in StrictSubsetOrdering(Nat))
    BY <1>3, <1>4 DEF B
  <2>2. 0..k \subseteq 0..m /\ 0..k # 0..m /\ 0..k \in SUBSET Nat /\ 0..m \in SUBSET Nat
    OBVIOUS
  <2> QED BY <2>1, <2>2 DEF StrictSubsetOrdering
<1> QED BY <1>5

\* A row tells its client in the label; its key and its node, if it has them, are that client's.
RowShape(r) ==
  /\ r \in Rows
  /\ r.key \in {0, r.lab[1]} /\ r.node \in {0, r.lab[1]} /\ r.ib = InboundOf[r.lab[1]]

Bounded(S) == \E b \in Nat : \A r \in S : r.id <= b

CacheInv == Bounded(rows) /\ \A r \in rows : RowShape(r) /\ (r.node # 0 => r.node \in nodes)

\* What the panel may have answered of a client.
Views == [ib : Inbounds, key : Clients, lab : Clients \X {1, 2}]
ViewShape(v) == v \in Views /\ v.lab[1] = v.key /\ v.ib = InboundOf[v.key]

Works == [at : {"idle", "probe", "send", "restart", "commit"},
          op : {"none", "add", "delete", "delinbound", "export", "sync"},
          server : Int, k : Nat, ib : Nat, lab : {<<>>} \cup (Clients \X {1, 2}), view : SUBSET Views]

Changing == {"add", "delete", "delinbound"}
WorkShape(x) ==
  /\ x \in Works /\ IsFiniteSet(x.view) /\ (\A v \in x.view : ViewShape(v))
  /\ x.op = "add" => x.k \in Clients /\ x.ib = InboundOf[x.k]
  /\ x.op = "export" /\ x.at = "commit" => x.view # {}
  /\ x.op = "none" => x.at \in {"idle", "probe"}
  /\ x.at = "probe" => x.op = "none"
  /\ x.at = "restart" => x.op \in Changing

WorkInv ==
  /\ server \in Int /\ email \in [Clients -> {1, 2}]
  /\ there \subseteq Clients /\ onPanel \subseteq Inbounds
  /\ quota \in [Kinds -> Nat]
  /\ w \in [Workers -> Works] /\ \A i \in Workers : WorkShape(w[i])

\* The request that has met nobody finds its server, the panel it has listed and, having changed
\* something, the xray it has restarted.
AloneInv ==
  alone =>
    /\ \A i, j \in Working : i = j
    /\ \A i \in Working :
         /\ w[i].at # "probe" => StillThere(i)
         /\ w[i].at = "commit" /\ w[i].op = "sync" => w[i].view = {View(k) : k \in there}
         /\ w[i].at = "commit" /\ w[i].op \in Changing => running = there

LEMMA IdleWork == WorkShape(Idle)
BY FS_EmptySet DEF WorkShape, Idle, Works

LEMMA LabelTyped ==
  ASSUME WorkInv, NEW k \in Clients
  PROVE  Label(k) \in Clients \X {1, 2} /\ Label(k)[1] = k /\ ViewShape(View(k))
BY IdsAssumption DEF WorkInv, Label, View, ViewShape, Views

\* Worker i turns to x.
LEMMA WorkMove ==
  ASSUME WorkInv, NEW i \in Workers, NEW x, WorkShape(x), w' = [w EXCEPT ![i] = x],
         server' \in Int, email' \in [Clients -> {1, 2}], there' \subseteq Clients,
         onPanel' \subseteq Inbounds, quota' \in [Kinds -> Nat]
  PROVE  WorkInv'
<1>1. w' \in [Workers -> Works]
  BY DEF WorkInv, WorkShape
<1>2. ASSUME NEW j \in Workers PROVE WorkShape(w[j])'
  <2>1. w'[j] = IF j = i THEN x ELSE w[j]
    BY DEF WorkInv
  <2>2. WorkShape(w'[j])
    BY <2>1 DEF WorkInv
  <2> QED BY <2>2 DEF WorkShape, Works, Views, ViewShape
<1> QED BY <1>1, <1>2 DEF WorkInv

LEMMA QuotaTyped ==
  ASSUME WorkInv, NEW c \in Kinds, UNCHANGED quota \/ Spend(c)
  PROVE  quota' \in [Kinds -> Nat]
BY DEF WorkInv, Spend

LEMMA BeginTyped ==
  ASSUME WorkInv, NEW i \in Workers, BeginStep(i)
  PROVE  WorkInv'
<1>1. /\ UNCHANGED <<server, email, there, onPanel>>
      /\ quota' \in [Kinds -> Nat]
  BY QuotaTyped DEF BeginStep, ImportBegin, AddBegin, DeleteBegin, DeleteInboundBegin, ExportBegin,
     SyncBegin, Begin, Kinds, panelState, WorkInv
<1>2. ASSUME NEW op \in {"delinbound", "sync"}, NEW ib \in Nat PROVE WorkShape(Request(op, ib))
  BY FS_EmptySet DEF WorkInv, Request, Idle, WorkShape, Works
<1>3. ASSUME NEW op \in {"add", "delete", "export"}, NEW k \in Clients PROVE WorkShape(ClientRequest(op, k))
  <2>1. InboundOf[k] \in Nat /\ k \in Nat /\ Label(k) \in Clients \X {1, 2}
    BY IdsAssumption, LabelTyped
  <2> DEFINE q == Request(op, InboundOf[k])
  <2>2. /\ q \in Works /\ q.at = "send" /\ q.op = op /\ q.ib = InboundOf[k] /\ q.view = {}
        /\ q.lab = <<>>
    BY <2>1, IdleWork DEF WorkInv, Request, Idle, WorkShape, Works
  <2>3. ClientRequest(op, k) = [q EXCEPT !.k = k, !.lab = IF k \in Passworded THEN Label(k) ELSE <<>>]
    BY DEF ClientRequest
  <2> HIDE DEF q
  <2> DEFINE x == [q EXCEPT !.k = k, !.lab = IF k \in Passworded THEN Label(k) ELSE <<>>]
  <2>4. /\ x \in Works /\ x.at = "send" /\ x.op = op /\ x.k = k /\ x.ib = InboundOf[k]
        /\ x.view = {}
    BY <2>1, <2>2 DEF Works
  <2> HIDE DEF x
  <2>5. WorkShape(x)
    BY <2>4, FS_EmptySet DEF WorkShape
  <2> QED BY <2>3, <2>5 DEF x
<1>4. \E x : WorkShape(x) /\ w' = [w EXCEPT ![i] = x]
  <2>1. CASE ImportBegin(i)
    <3>1. WorkShape([Idle EXCEPT !.at = "probe"])
      BY FS_EmptySet DEF Idle, WorkShape, Works
    <3> QED BY <2>1, <3>1 DEF ImportBegin
  <2>2. CASE AddBegin(i)
    BY <2>2, <1>3 DEF AddBegin, Begin
  <2>3. CASE DeleteBegin(i) \/ ExportBegin(i)
    BY <2>3, <1>3 DEF DeleteBegin, ExportBegin, Begin, WorkInv
  <2>4. CASE DeleteInboundBegin(i)
    BY <2>4, <1>2, IdsAssumption DEF DeleteInboundBegin, Begin, WorkInv
  <2>5. CASE SyncBegin(i)
    BY <2>5, <1>2 DEF SyncBegin, Begin
  <2> QED BY <2>1, <2>2, <2>3, <2>4, <2>5 DEF BeginStep
<1> QED BY <1>1, <1>4, WorkMove DEF WorkInv

LEMMA ProceedTyped ==
  ASSUME WorkInv, NEW i \in Workers, NEW next \in {"restart", "commit"}, Proceed(i, next),
         w[i].at \in {"send", "restart"}, w[i].op \in Changing
  PROVE  /\ WorkShape([w[i] EXCEPT !.at = next])
         /\ w' = [w EXCEPT ![i] = [w[i] EXCEPT !.at = next]]
<1>1. WorkShape(w[i]) /\ w[i] \in Works
  BY DEF WorkInv
<1>2. WorkShape([w[i] EXCEPT !.at = next])
  <2> DEFINE x == [w[i] EXCEPT !.at = next]
  <2>1. x \in Works /\ x.at = next /\ x.op = w[i].op /\ x.view = w[i].view /\ x.k = w[i].k /\ x.ib = w[i].ib
    BY <1>1 DEF Works
  <2> HIDE DEF x
  <2>2. WorkShape(x)
    BY <1>1, <2>1 DEF WorkShape, Changing
  <2> QED BY <2>2 DEF x
<1> QED BY <1>2 DEF Proceed, WorkInv

LEMMA ViewFinite == ASSUME there \subseteq Clients PROVE IsFiniteSet({View(k) : k \in there})
<1> DEFINE T == {View(k) : k \in there}
           f == [k \in there |-> View(k)]
<1>1. IsFiniteSet(there)
  BY IdsAssumption, FS_Subset
<1>2. f \in Surjection(there, T)
  BY DEF Surjection
<1> HIDE DEF T, f
<1>3. IsFiniteSet(T)
  BY <1>1, <1>2, FS_Surjection
<1> QED BY <1>3 DEF T

LEMMA ViewTyped ==
  ASSUME WorkInv, NEW i \in Workers, NEW V \in SUBSET Views, IsFiniteSet(V), \A v \in V : ViewShape(v),
         w[i].op = "export" => V # {}, w[i].op \in {"export", "sync"},
         w' = [w EXCEPT ![i] = [w[i] EXCEPT !.at = "commit", !.view = V]]
  PROVE  \E x : WorkShape(x) /\ w' = [w EXCEPT ![i] = x]
<1> DEFINE x == [w[i] EXCEPT !.at = "commit", !.view = V]
<1>1. x \in Works /\ x.at = "commit" /\ x.op = w[i].op /\ x.view = V
  BY DEF WorkInv, Works
<1>2. w' = [w EXCEPT ![i] = x]
  OBVIOUS
<1> HIDE DEF x
<1>3. WorkShape(x)
  BY <1>1 DEF WorkShape
<1> QED BY <1>2, <1>3

\* A worker either ends or goes on; what it keeps of the panel stays typed.
LEMMA WorkTyped ==
  ASSUME WorkInv, NEW i \in Workers, WorkStep(i)
  PROVE  WorkInv'
<1>0. "fault" \in Kinds /\ WorkShape(w[i]) /\ w[i] \in Works /\ WorkShape(Idle) /\ quota \in [Kinds -> Nat]
      /\ email \in [Clients -> {1, 2}] /\ server \in Int
      /\ there \subseteq Clients /\ onPanel \subseteq Inbounds
  BY IdleWork DEF WorkInv, Kinds
<1>1. quota' \in [Kinds -> Nat]
  <2>1. UNCHANGED quota \/ Spend("fault")
    BY DEF WorkStep, Import, AddSend, Restart, AddCommit, DeleteSend, DeleteCommit, DeleteInboundSend,
           DeleteInboundCommit, ExportGet, ExportCommit, SyncList, SyncCommit, Call
  <2> QED BY <1>0, <2>1, QuotaTyped
<1>2. email' = email
  BY DEF WorkStep, Import, AddSend, Restart, AddCommit, DeleteSend, DeleteCommit, DeleteInboundSend,
         DeleteInboundCommit, ExportGet, ExportCommit, SyncList, SyncCommit, panelState
<1>3. server' \in Int
  <2>1. CASE Import(i)
    <3>1. Limits["import"] - quota["import"] \in Int
      BY <1>0, LimitsAssumption DEF Kinds
    <3> QED BY <2>1, <3>1, <1>0 DEF Import
  <2>2. CASE ~Import(i)
    BY <2>2, <1>0 DEF WorkStep, AddSend, Restart, AddCommit, DeleteSend, DeleteCommit, DeleteInboundSend,
       DeleteInboundCommit, ExportGet, ExportCommit, SyncList, SyncCommit
  <2> QED BY <2>1, <2>2
<1>4. there' \subseteq Clients
  <2>1. CASE AddSend(i)
    <3>1. w[i].k \in Clients
      BY <2>1, <1>0 DEF AddSend, WorkShape
    <3> QED BY <2>1, <3>1, <1>0 DEF AddSend, Call
  <2>2. CASE DeleteSend(i)
    BY <2>2, <1>0 DEF DeleteSend, Call
  <2>3. CASE DeleteInboundSend(i)
    BY <2>3, <1>0 DEF DeleteInboundSend, Call
  <2>4. CASE ~(AddSend(i) \/ DeleteSend(i) \/ DeleteInboundSend(i))
    BY <2>4, <1>0 DEF WorkStep, Import, Restart, AddCommit, DeleteCommit,
       DeleteInboundCommit, ExportGet, ExportCommit, SyncList, SyncCommit, panelState
  <2> QED BY <2>1, <2>2, <2>3, <2>4
<1>5. onPanel' \subseteq Inbounds
  <2>1. CASE DeleteInboundSend(i)
    BY <2>1, <1>0 DEF DeleteInboundSend, Call
  <2>2. CASE ~DeleteInboundSend(i)
    BY <2>2, <1>0 DEF WorkStep, Import, AddSend, Restart, AddCommit, DeleteSend, DeleteCommit,
       DeleteInboundCommit, ExportGet, ExportCommit, SyncList, SyncCommit, panelState
  <2> QED BY <2>1, <2>2
<1>6. \E x : WorkShape(x) /\ w' = [w EXCEPT ![i] = x]
  <2>1. CASE Finish(i)
    BY <2>1, <1>0 DEF Finish
  <2>2. ASSUME NEW next \in {"restart", "commit"}, Proceed(i, next), w[i].at \in {"send", "restart"}, w[i].op \in Changing
        PROVE  \E x : WorkShape(x) /\ w' = [w EXCEPT ![i] = x]
    BY <2>2, ProceedTyped
  <2>3. CASE Import(i) \/ AddCommit(i) \/ DeleteCommit(i) \/ DeleteInboundCommit(i) \/ ExportCommit(i) \/ SyncCommit(i)
    BY <2>1, <2>3 DEF Import, AddCommit, DeleteCommit, DeleteInboundCommit, ExportCommit, SyncCommit
  <2>4. CASE AddSend(i) \/ DeleteSend(i) \/ DeleteInboundSend(i)
    BY <2>1, <2>2, <2>4 DEF AddSend, DeleteSend, DeleteInboundSend, Call, Changing
  <2>5. CASE Restart(i)
    <3>1. w[i].op \in Changing
      BY <2>5, <1>0 DEF Restart, WorkShape
    <3> QED BY <2>2, <2>5, <3>1 DEF Restart
  <2>7. CASE ExportGet(i)
    <3>1. CASE Named(i) /\ w' = [w EXCEPT ![i].at = "commit", ![i].view = {View(w[i].k)}]
      <4>1. w[i].k \in Clients
        BY <3>1, <1>0 DEF Named
      <4>2. ViewShape(View(w[i].k)) /\ View(w[i].k) \in Views
        BY <4>1, LabelTyped DEF ViewShape
      <4>3. w' = [w EXCEPT ![i] = [w[i] EXCEPT !.at = "commit", !.view = {View(w[i].k)}]]
        BY <3>1, <1>0 DEF WorkInv
      <4> DEFINE V == {View(w[i].k)}
      <4>4. V \in SUBSET Views /\ (\A v \in V : ViewShape(v)) /\ V # {} /\ IsFiniteSet(V)
        BY <4>2, FS_Singleton
      <4> HIDE DEF V
      <4>5. w' = [w EXCEPT ![i] = [w[i] EXCEPT !.at = "commit", !.view = V]]
        BY <4>3 DEF V
      <4> QED BY <2>7, <4>4, <4>5, ViewTyped DEF ExportGet
    <3> QED BY <2>1, <2>7, <3>1 DEF ExportGet
  <2>8. CASE SyncList(i)
    <3>1. CASE w' = [w EXCEPT ![i].at = "commit", ![i].view = {View(k) : k \in there}]
      <4>1. \A k \in there : ViewShape(View(k)) /\ View(k) \in Views
        BY <1>0, LabelTyped DEF ViewShape
      <4>2. w' = [w EXCEPT ![i] = [w[i] EXCEPT !.at = "commit", !.view = {View(k) : k \in there}]]
        BY <3>1, <1>0 DEF WorkInv
      <4> DEFINE V == {View(k) : k \in there}
      <4>3. V \subseteq Views /\ \A v \in V : ViewShape(v)
        BY <4>1
      <4>4. IsFiniteSet(V)
        BY <1>0, ViewFinite
      <4> HIDE DEF V
      <4>5. w' = [w EXCEPT ![i] = [w[i] EXCEPT !.at = "commit", !.view = V]]
        BY <4>2 DEF V
      <4> QED BY <2>8, <4>3, <4>4, <4>5, ViewTyped DEF SyncList
    <3> QED BY <2>1, <2>8, <3>1 DEF SyncList
  <2> QED BY <2>3, <2>4, <2>5, <2>7, <2>8 DEF WorkStep
<1> QED BY <1>0, <1>1, <1>2, <1>3, <1>4, <1>5, <1>6, WorkMove

LEMMA EventTyped ==
  ASSUME WorkInv, Unregister \/ CreateInbound \/ Hand \/ OperatorDeletesNode \/ UNCHANGED panelVars
  PROVE  WorkInv'
<1>1. w' = w /\ WorkInv
  BY DEF Unregister, CreateInbound, Hand, OperatorDeletesNode, panelVars
<1>2. quota' \in [Kinds -> Nat]
  BY QuotaTyped DEF Unregister, CreateInbound, Hand, OperatorDeletesNode, panelVars, Kinds
<1>3. server' \in Int
  BY DEF WorkInv, Unregister, CreateInbound, Hand, OperatorDeletesNode, panelVars
<1>4. email' \in [Clients -> {1, 2}]
  BY DEF WorkInv, Unregister, CreateInbound, Hand, OperatorDeletesNode, panelVars, panelState
<1>5. there' \subseteq Clients
  BY DEF WorkInv, Unregister, CreateInbound, Hand, OperatorDeletesNode, panelVars, panelState
<1>6. onPanel' \subseteq Inbounds
  BY DEF WorkInv, Unregister, CreateInbound, Hand, OperatorDeletesNode, panelVars, panelState
<1> QED BY <1>1, <1>2, <1>3, <1>4, <1>5, <1>6 DEF WorkInv, WorkShape, Works, Views, ViewShape

-----------------------------------------------------------------------------
LEMMA FirstRow ==
  ASSUME CacheInv, NEW S \in SUBSET rows, S # {}
  PROVE  \E r \in S : \A q \in S : r.id <= q.id
<1>1. {r.id : r \in S} \in SUBSET Nat /\ {r.id : r \in S} # {}
  BY DEF CacheInv, RowShape, Rows
<1>2. PICK m \in {r.id : r \in S} : \A k \in {r.id : r \in S} : m <= k
  BY <1>1, LeastNat
<1> QED BY <1>2

LEMMA LastRow ==
  ASSUME CacheInv, NEW S \in SUBSET rows, S # {}
  PROVE  \E r \in S : \A q \in S : q.id <= r.id
<1> DEFINE ids == {r.id : r \in S}
           U == {b \in Nat : \A k \in ids : k <= b}
<1>1. ids \subseteq Nat /\ ids # {}
  BY DEF CacheInv, RowShape, Rows
<1>2. U # {} /\ U \subseteq Nat
  BY DEF CacheInv, Bounded
<1> HIDE DEF ids
<1>3. PICK m \in U : \A b \in U : m <= b
  BY <1>2, LeastNat
<1>4. m \in ids
  <2> SUFFICES ASSUME m \notin ids PROVE FALSE
    OBVIOUS
  <2>1. m \in Nat /\ \A k \in ids : k <= m /\ k # m /\ k \in Nat
    BY <1>1
  <2>2. m # 0
    <3>1. PICK k \in ids : k \in Nat
      BY <1>1
    <3> QED BY <2>1, <3>1
  <2>3. m - 1 \in Nat /\ \A k \in ids : k <= m - 1
    BY <2>1, <2>2
  <2>4. m <= m - 1
    BY <1>3, <2>3
  <2> QED BY <2>1, <2>4
<1>5. \A k \in ids : k <= m
  BY <1>1
<1> QED BY <1>4, <1>5 DEF ids

LEMMA NextIdTyped == ASSUME CacheInv PROVE NextId \in Nat
<1>1. CASE rows = {}
  BY <1>1 DEF NextId
<1>2. CASE rows # {}
  <2>1. PICK r \in rows : \A q \in rows : q.id <= r.id
    BY <1>2, LastRow
  <2> DEFINE ids == {q.id : q \in rows}
  <2>2. r.id \in ids /\ ids \subseteq Nat /\ \A k \in ids : r.id >= k
    BY <2>1 DEF CacheInv, RowShape, Rows
  <2>3. NextId = Max(ids) + 1
    BY <1>2 DEF NextId
  <2> HIDE DEF ids
  <2>4. Max(ids) \in ids
    BY <2>2 DEF Max
  <2>6. Max(ids) \in Nat
    BY <2>2, <2>4
  <2>7. Max(ids) + 1 \in Nat
    BY <2>6
  <2> QED BY <2>3, <2>7
<1> QED BY <1>1, <1>2

LEMMA UnlinkKept ==
  ASSUME NEW S, NEW D, \A r \in S : RowShape(r) /\ (r.node # 0 => r.node \in nodes), Bounded(S),
         rows' = Unlink(S, D), nodes' = nodes \ D
  PROVE  CacheInv'
<1>1. ASSUME NEW r \in S PROVE RowShape([r EXCEPT !.node = IF @ \in D THEN 0 ELSE @])
  BY <1>1 DEF RowShape, Rows
<1>2. ASSUME NEW x \in rows' PROVE RowShape(x) /\ (x.node # 0 => x.node \in nodes') /\ \E r \in S : x.id = r.id
  <2>1. PICK r \in S : x = [r EXCEPT !.node = IF @ \in D THEN 0 ELSE @]
    BY DEF Unlink
  <2>2. RowShape(x) /\ r \in Rows
    BY <1>1, <2>1 DEF RowShape
  <2>3. x.id = r.id /\ x.node = IF r.node \in D THEN 0 ELSE r.node
    BY <2>1, <2>2 DEF Rows
  <2> QED BY <2>2, <2>3
<1>3. Bounded(rows')
  BY <1>2 DEF Bounded
<1> QED BY <1>2, <1>3 DEF CacheInv, RowShape, Rows, Bounded

\* One row more, of a client whose node is there.
LEMMA RowAdded ==
  ASSUME CacheInv, NEW S \in SUBSET rows, NEW x, RowShape(x), rows' = S \cup {x},
         nodes \subseteq nodes', x.node # 0 => x.node \in nodes'
  PROVE  CacheInv'
<1>1. PICK b \in Nat : \A r \in rows : r.id <= b
  BY DEF CacheInv, Bounded
<1>2. x.id \in Nat
  BY DEF RowShape, Rows
<1>3. \A r \in rows' : r.id <= b + x.id
  <2>1. \A r \in rows : r.id \in Nat /\ r.id <= b + x.id
    BY <1>1, <1>2 DEF CacheInv, RowShape, Rows
  <2> QED BY <1>1, <1>2, <2>1
<1>4. Bounded(rows')
  <2>1. b + x.id \in Nat
    BY <1>2
  <2> QED BY <1>3, <2>1 DEF Bounded
<1>5. \A r \in rows' : RowShape(r) /\ (r.node # 0 => r.node \in nodes')
  BY DEF CacheInv
<1> QED BY <1>4, <1>5 DEF CacheInv, RowShape, Rows, Bounded

LEMMA CacheSame == ASSUME CacheInv, UNCHANGED <<rows, nodes>> PROVE CacheInv'
BY DEF CacheInv, RowShape, Bounded

LEMMA CacheEvent ==
  ASSUME CacheInv, Unregister \/ CreateInbound \/ Hand \/ OperatorDeletesNode \/ UNCHANGED panelVars
  PROVE  CacheInv'
<1>1. CASE Unregister
  <2>1. rows' = {}
    BY <1>1 DEF Unregister
  <2> QED BY <2>1 DEF CacheInv, Bounded
<1>2. CASE OperatorDeletesNode
  <2>1. PICK k \in nodes : nodes' = nodes \ {k} /\ rows' = Unlink(rows, {k})
    BY <1>2 DEF OperatorDeletesNode
  <2> QED BY <2>1, UnlinkKept DEF CacheInv
<1>3. CASE CreateInbound \/ Hand \/ UNCHANGED panelVars
  BY <1>3, CacheSame DEF CreateInbound, Hand, panelVars
<1> QED BY <1>1, <1>2, <1>3

LEMMA CacheBegin == ASSUME CacheInv, NEW i \in Workers, BeginStep(i) PROVE CacheInv'
BY CacheSame DEF BeginStep, ImportBegin, AddBegin, DeleteBegin, DeleteInboundBegin, ExportBegin, SyncBegin, Begin

LEMMA CacheAdd == ASSUME CacheInv, WorkInv, NEW i \in Workers, AddCommit(i) PROVE CacheInv'
<1>1. nodes' = nodes /\ w[i].op = "add"
  BY DEF AddCommit
<1>2. CASE ~StillThere(i)
  BY <1>1, <1>2, CacheSame DEF AddCommit
<1>3. CASE StillThere(i)
  <2> DEFINE k == w[i].k
             x == [id |-> NextId, ib |-> w[i].ib, key |-> k, lab |-> Label(k), node |-> 0]
  <2>1. rows' = rows \cup {x}
    BY <1>3 DEF AddCommit
  <2>2. k \in Clients /\ w[i].ib = InboundOf[k]
    BY <1>1 DEF WorkInv, WorkShape
  <2>3. RowShape(x)
    BY <2>2, LabelTyped, NextIdTyped, IdsAssumption DEF RowShape, Rows
  <2>4. x.node = 0
    OBVIOUS
  <2> HIDE DEF x
  <2> QED BY <1>1, <2>1, <2>3, <2>4, RowAdded
<1> QED BY <1>2, <1>3

LEMMA CacheDelete ==
  ASSUME CacheInv, NEW i \in Workers, DeleteCommit(i) \/ DeleteInboundCommit(i)
  PROVE  CacheInv'
<1>1. CASE UNCHANGED <<rows, nodes>>
  BY <1>1, CacheSame
<1>2. CASE ~UNCHANGED <<rows, nodes>>
  <2>1. PICK S \in SUBSET rows : \E D : rows' = Unlink(S, D) /\ nodes' = nodes \ D
    BY <1>2 DEF DeleteCommit, DeleteInboundCommit
  <2>2. PICK D : rows' = Unlink(S, D) /\ nodes' = nodes \ D
    BY <2>1
  <2>3. Bounded(S) /\ \A r \in S : RowShape(r) /\ (r.node # 0 => r.node \in nodes)
    BY DEF CacheInv, Bounded
  <2> QED BY <2>2, <2>3, UnlinkKept
<1> QED BY <1>1, <1>2

LEMMA CacheExport == ASSUME CacheInv, WorkInv, NEW i \in Workers, ExportCommit(i) PROVE CacheInv'
<1> DEFINE v    == CHOOSE x \in w[i].view : TRUE
           pw   == v.key \in Passworded
           mine == {r \in rows : r.ib = v.ib /\ (IF pw THEN r.lab = v.lab ELSE r.key = v.key)}
           row  == CHOOSE r \in mine : \A q \in mine : r.id <= q.id
           new  == [id |-> NextId, ib |-> v.ib, key |-> IF pw /\ v.key \notin nodes THEN 0 ELSE v.key,
                    lab |-> v.lab, node |-> v.key]
<1>1. CASE ~StillThere(i)
  BY <1>1, CacheSame DEF ExportCommit
<1>2. CASE StillThere(i)
  <2>1. w[i].at = "commit" /\ w[i].op = "export" /\ nodes' = nodes \cup {v.key}
        /\ rows' = IF mine = {} THEN rows \cup {new} ELSE (rows \ {row}) \cup {[row EXCEPT !.node = v.key]}
    BY <1>2 DEF ExportCommit
  <2>2. v \in w[i].view
    BY <2>1 DEF WorkInv, WorkShape
  <2>3. ViewShape(v)
    BY <2>2 DEF WorkInv, WorkShape
  <2> HIDE DEF v
  <2>4. v.key \in Clients /\ v.key # 0 /\ v.lab \in Clients \X {1, 2} /\ v.lab[1] = v.key
        /\ v.ib = InboundOf[v.key] /\ v.ib \in Inbounds
    BY <2>3, IdsAssumption DEF ViewShape, Views
  <2>5. CASE mine = {}
    <3>1. RowShape(new) /\ new.node = v.key
      BY <2>4, NextIdTyped DEF RowShape, Rows
    <3> HIDE DEF new
    <3> QED BY <2>1, <2>5, <3>1, RowAdded
  <2>6. CASE mine # {}
    <3>1. mine \in SUBSET rows /\ \E r \in mine : \A q \in mine : r.id <= q.id
      BY <2>6, FirstRow
    <3> HIDE DEF mine
    <3>2. row \in mine
      BY <3>1
    <3>3. row \in rows /\ (row.lab = v.lab \/ row.key = v.key)
      BY <3>2 DEF mine
    <3> HIDE DEF row
    <3>4. RowShape(row)
      BY <3>3 DEF CacheInv
    <3>5. row.lab[1] = v.key
      BY <2>4, <3>3, <3>4 DEF RowShape
    <3> DEFINE x == [row EXCEPT !.node = v.key]
    <3>6. RowShape(x) /\ x.node = v.key
      BY <2>4, <3>4, <3>5 DEF RowShape, Rows
    <3>7. rows' = (rows \ {row}) \cup {x}
      BY <2>1, <2>6
    <3> HIDE DEF x
    <3> QED BY <2>1, <3>6, <3>7, RowAdded
  <2> QED BY <2>5, <2>6
<1> QED BY <1>1, <1>2

LEMMA RowOfFacts ==
  ASSUME CacheInv, NEW v, ViewShape(v), NEW r \in RowOf(v)
  PROVE  r \in rows /\ r.ib = v.ib /\ r.lab[1] = v.key /\ (r.key = v.key \/ (r.key = 0 /\ r.lab = v.lab))
<1>1. v.key # 0 /\ v.lab[1] = v.key
  BY IdsAssumption DEF ViewShape, Views
<1>2. CASE r.key = v.key /\ r \in rows /\ r.ib = v.ib
  BY <1>1, <1>2 DEF CacheInv, RowShape
<1>3. CASE ~(r.key = v.key /\ r \in rows /\ r.ib = v.ib)
  <2> DEFINE found == {q \in Standing : q.ib = v.ib /\ q.key = v.key}
  <2>1. r \notin found
    BY <1>3 DEF Standing
  <2>6. RowOf(v) = IF found # {} THEN found
                   ELSE IF Adopted(v) = {} THEN {}
                   ELSE {CHOOSE x \in Adopted(v) : \A q \in Adopted(v) : q.id <= x.id}
    BY DEF RowOf
  <2> HIDE DEF found
  <2>2. Adopted(v) # {} /\ r = CHOOSE x \in Adopted(v) : \A q \in Adopted(v) : q.id <= x.id
    BY <2>1, <2>6
  <2>3. \E x \in Adopted(v) : \A q \in Adopted(v) : q.id <= x.id
    BY <2>2, LastRow DEF Adopted
  <2>4. r \in Adopted(v)
    BY <2>2, <2>3
  <2> QED BY <1>1, <2>4 DEF Adopted
<1> QED BY <1>2, <1>3

\* The parts of a synchronisation's commit.
Kept(V) == UNION {RowOf(v) : v \in V}
Gone(V) == {r \in Standing \ Kept(V) : ~\E v \in V : v.ib = r.ib /\ v.key = r.key}
Unseen(V) == {v \in V : RowOf(v) = {}}
Fresh(V) == UNION {{[r EXCEPT !.lab = v.lab, !.key = v.key] : r \in RowOf(v)} : v \in V}
Dead(V) == {r.node : r \in Gone(V)}
NewRow(V, v) == [id |-> NextId + Cardinality({u \in Unseen(V) : u.key < v.key}), ib |-> v.ib,
                 key |-> v.key, lab |-> v.lab, node |-> 0]
Added(V) == {NewRow(V, v) : v \in Unseen(V)}
Left(V) == ((rows \ Kept(V)) \ Gone(V)) \cup Fresh(V) \cup Added(V)

LEMMA SyncParts ==
  ASSUME NEW i \in Workers, SyncCommit(i), StillThere(i)
  PROVE  rows' = Unlink(Left(w[i].view), Dead(w[i].view)) /\ nodes' = nodes \ Dead(w[i].view)
BY DEF SyncCommit, Left, Dead, Added, NewRow, Fresh, Unseen, Gone, Kept

LEMMA FreshRow ==
  ASSUME CacheInv, NEW v, ViewShape(v), NEW r \in RowOf(v)
  PROVE  LET x == [r EXCEPT !.lab = v.lab, !.key = v.key]
         IN  RowShape(x) /\ x.id = r.id /\ x.node = r.node /\ x.ib = v.ib /\ x.key = v.key
<1> DEFINE x == [r EXCEPT !.lab = v.lab, !.key = v.key]
<1>1. RowShape(r) /\ r.ib = v.ib /\ r.lab[1] = v.key
  BY RowOfFacts DEF CacheInv
<1>2. v.lab \in Clients \X {1, 2} /\ v.key \in Clients /\ v.lab[1] = v.key /\ v.ib = InboundOf[v.key]
  BY DEF ViewShape, Views
<1>3. x \in Rows /\ x.id = r.id /\ x.node = r.node /\ x.ib = v.ib /\ x.key = v.key /\ x.lab = v.lab
  BY <1>1, <1>2 DEF RowShape, Rows
<1>4. x.node \in {0, x.lab[1]}
  BY <1>1, <1>2, <1>3 DEF RowShape
<1> HIDE DEF x
<1>5. RowShape(x)
  BY <1>2, <1>3, <1>4 DEF RowShape
<1> QED BY <1>3, <1>5 DEF x

LEMMA AddedRow ==
  ASSUME CacheInv, NEW V, IsFiniteSet(V), NEW v \in V, ViewShape(v)
  PROVE  /\ RowShape(NewRow(V, v)) /\ NewRow(V, v).node = 0
         /\ NewRow(V, v).ib = v.ib /\ NewRow(V, v).key = v.key
         /\ NewRow(V, v).id <= NextId + Cardinality(V) /\ Cardinality(V) \in Nat
<1>1. Cardinality(V) \in Nat
  BY FS_CardinalityType
<1> DEFINE U == {u \in Unseen(V) : u.key < v.key}
<1>2. U \in SUBSET V
  BY DEF Unseen
<1>3. IsFiniteSet(U) /\ Cardinality(U) <= Cardinality(V)
  BY <1>2, FS_Subset
<1>4. Cardinality(U) \in Nat
  BY <1>3, FS_CardinalityType
<1>5. NextId \in Nat
  BY NextIdTyped
<1>6. NewRow(V, v) = [id |-> NextId + Cardinality(U), ib |-> v.ib, key |-> v.key, lab |-> v.lab, node |-> 0]
  BY DEF NewRow
<1> HIDE DEF U
<1>7. NextId + Cardinality(U) \in Nat /\ NextId + Cardinality(U) <= NextId + Cardinality(V)
  BY <1>1, <1>3, <1>4, <1>5
<1> DEFINE c == NextId + Cardinality(U)
           x == [id |-> c, ib |-> v.ib, key |-> v.key, lab |-> v.lab, node |-> 0]
<1>8. c \in Nat
  BY <1>7
<1> HIDE DEF c
<1>9. RowShape(x)
  BY <1>8 DEF RowShape, Rows, ViewShape, Views
<1> QED BY <1>1, <1>6, <1>7, <1>9 DEF c

LEMMA CacheSync == ASSUME CacheInv, WorkInv, NEW i \in Workers, SyncCommit(i) PROVE CacheInv'
<1>1. CASE ~StillThere(i)
  BY <1>1, CacheSame DEF SyncCommit
<1>2. CASE StillThere(i)
  <2> DEFINE V == w[i].view
  <2>1. IsFiniteSet(V) /\ \A v \in V : ViewShape(v)
    BY DEF WorkInv, WorkShape
  <2>2. rows' = Unlink(Left(V), Dead(V)) /\ nodes' = nodes \ Dead(V)
    BY <1>2, SyncParts
  <2> HIDE DEF V
  <2>3. PICK b \in Nat : \A r \in rows : r.id <= b
    BY DEF CacheInv, Bounded
  <2>4. Cardinality(V) \in Nat /\ NextId \in Nat
    BY <2>1, FS_CardinalityType, NextIdTyped
  <2>5. \A r \in rows : r.id \in Nat
    BY DEF CacheInv, RowShape, Rows
  <2>6. ASSUME NEW x \in Left(V)
        PROVE  RowShape(x) /\ (x.node # 0 => x.node \in nodes) /\ x.id <= b + (NextId + Cardinality(V))
    <3>1. CASE x \in rows
      BY <2>3, <2>4, <2>5, <3>1 DEF CacheInv
    <3>2. CASE x \in Fresh(V)
      <4>0. PICK v \in V : \E r \in RowOf(v) : x = [r EXCEPT !.lab = v.lab, !.key = v.key]
        BY <3>2 DEF Fresh
      <4>1. PICK r \in RowOf(v) : x = [r EXCEPT !.lab = v.lab, !.key = v.key]
        BY <4>0
      <4>2. RowShape(x) /\ x.id = r.id /\ x.node = r.node
        BY <2>1, <4>1, FreshRow
      <4>3. r \in rows
        BY <2>1, <4>1, RowOfFacts
      <4> QED BY <2>3, <2>4, <2>5, <4>2, <4>3 DEF CacheInv
    <3>3. CASE x \in Added(V)
      <4>1. PICK v \in Unseen(V) : x = NewRow(V, v)
        BY <3>3 DEF Added
      <4>2. v \in V
        BY DEF Unseen
      <4>3. RowShape(x) /\ x.node = 0 /\ x.id <= NextId + Cardinality(V)
        BY <2>1, <4>1, <4>2, AddedRow
      <4>4. x.id \in Nat
        BY <4>3 DEF RowShape, Rows
      <4> QED BY <2>4, <4>3, <4>4
    <3> QED BY <3>1, <3>2, <3>3 DEF Left
  <2>7. b + (NextId + Cardinality(V)) \in Nat
    BY <2>4
  <2>8. Bounded(Left(V))
    BY <2>6, <2>7 DEF Bounded
  <2> QED BY <2>2, <2>6, <2>8, UnlinkKept
<1> QED BY <1>1, <1>2

-----------------------------------------------------------------------------
LEMMA CacheStep == ASSUME CacheInv, WorkInv, NEW i \in Workers, WorkStep(i) PROVE CacheInv'
<1>1. CASE Import(i) \/ AddSend(i) \/ Restart(i) \/ DeleteSend(i) \/ DeleteInboundSend(i) \/ ExportGet(i) \/ SyncList(i)
  BY <1>1, CacheSame DEF Import, AddSend, Restart, DeleteSend, DeleteInboundSend, ExportGet, SyncList
<1> QED BY <1>1, CacheAdd, CacheDelete, CacheExport, CacheSync DEF WorkStep

\* Nobody is moved by another's step, and nobody by an event.
LEMMA Mover ==
  ASSUME WorkInv, PanelNext, NEW i \in Workers, w'[i] # w[i], w[i].at # "idle"
  PROVE  WorkStep(i)
<1>1. w \in [Workers -> Works]
  BY DEF WorkInv
<1>2. PICK j \in Workers : WorkStep(j) \/ BeginStep(j)
  <2>1. ~(Unregister \/ CreateInbound \/ Hand \/ OperatorDeletesNode)
    BY DEF Unregister, CreateInbound, Hand, OperatorDeletesNode
  <2> QED BY <2>1 DEF PanelNext, Step, Event
<1>3. \E x : w' = [w EXCEPT ![j] = x]
  <2>1. CASE BeginStep(j)
    BY <2>1 DEF BeginStep, ImportBegin, AddBegin, DeleteBegin, DeleteInboundBegin, ExportBegin, SyncBegin, Begin
  <2>2. CASE WorkStep(j)
    <3>1. CASE ExportGet(j)
      <4>1. w' = [w EXCEPT ![j] = [w[j] EXCEPT !.at = "commit", !.view = {View(w[j].k)}]] \/ Finish(j)
        BY <1>1, <3>1 DEF ExportGet
      <4> QED BY <4>1 DEF Finish
    <3>2. CASE SyncList(j)
      <4>1. w' = [w EXCEPT ![j] = [w[j] EXCEPT !.at = "commit", !.view = {View(k) : k \in there}]] \/ Finish(j)
        BY <1>1, <3>2 DEF SyncList
      <4> QED BY <4>1 DEF Finish
    <3>3. CASE ~ExportGet(j) /\ ~SyncList(j)
      <4>1. Finish(j) \/ Proceed(j, "restart") \/ Proceed(j, "commit")
        BY <2>2, <3>3 DEF WorkStep, Import, AddSend, Restart, AddCommit, DeleteSend, DeleteCommit,
           DeleteInboundSend, DeleteInboundCommit, ExportCommit, SyncCommit, Call
      <4> QED BY <1>1, <4>1 DEF Finish, Proceed
    <3> QED BY <3>1, <3>2, <3>3
  <2> QED BY <1>2, <2>1, <2>2
<1>4. i = j
  BY <1>1, <1>3
<1>5. ~BeginStep(i)
  BY DEF BeginStep, ImportBegin, AddBegin, DeleteBegin, DeleteInboundBegin, ExportBegin, SyncBegin, Begin
<1> QED BY <1>2, <1>4, <1>5

\* The step of a request that meets nobody and no fault.
LEMMA AloneWork ==
  ASSUME WorkInv, AloneInv, alone, NEW i \in Workers, WorkStep(i), quota' = quota, Working' # {},
         Working' \subseteq Working
  PROVE  AloneInv'
<1>1. w \in [Workers -> Works] /\ w[i] \in Works /\ quota \in [Kinds -> Nat]
  BY DEF WorkInv
<1>2. i \in Working
  BY DEF WorkStep, Import, AddSend, Restart, AddCommit, DeleteSend, DeleteCommit, DeleteInboundSend,
         DeleteInboundCommit, ExportGet, ExportCommit, SyncList, SyncCommit, Working
<1>3. Working' = {i}
  BY <1>2 DEF AloneInv
<1>4. w'[i].at # "idle"
  BY <1>3 DEF Working
<1>5. ~Finish(i)
  BY <1>1, <1>4 DEF Finish, Idle
<1>6. ~Spend("fault")
  BY <1>1 DEF Spend, Kinds
<1>7. /\ w'[i].at \in {"restart", "commit"} /\ w'[i].op = w[i].op /\ w'[i].server = w[i].server
      /\ server' = server
      /\ w[i].at # "probe"
      /\ w'[i].at = "commit" /\ w'[i].op = "sync" => w'[i].view = {View(k)' : k \in there'}
      /\ w'[i].at = "commit" /\ w'[i].op \in Changing => running' = there'
  <2>1. CASE AddSend(i) \/ DeleteSend(i) \/ DeleteInboundSend(i)
    <3>1. Proceed(i, "restart") /\ server' = server /\ w[i].at = "send"
      BY <2>1, <1>5, <1>6 DEF AddSend, DeleteSend, DeleteInboundSend, Call
    <3>2. w'[i] = [w[i] EXCEPT !.at = "restart"]
      BY <1>1, <3>1 DEF Proceed
    <3> QED BY <1>1, <3>1, <3>2 DEF Works
  <2>2. CASE Restart(i)
    <3>1. Proceed(i, "commit") /\ server' = server /\ w[i].at = "restart" /\ running' = there /\ there' = there
      BY <2>2, <1>6 DEF Restart
    <3>2. w'[i] = [w[i] EXCEPT !.at = "commit"]
      BY <1>1, <3>1 DEF Proceed
    <3>3. w[i].op \in Changing
      BY <3>1 DEF WorkInv, WorkShape
    <3> QED BY <1>1, <3>1, <3>2, <3>3 DEF Works, Changing
  <2>3. CASE ExportGet(i)
    <3>1. w' = [w EXCEPT ![i] = [w[i] EXCEPT !.at = "commit", !.view = {View(w[i].k)}]]
      BY <1>1, <1>5, <1>6, <2>3 DEF ExportGet
    <3>2. w'[i] = [w[i] EXCEPT !.at = "commit", !.view = {View(w[i].k)}]
      BY <1>1, <3>1
    <3>3. server' = server /\ w[i].op = "export" /\ w[i].at = "send"
      BY <2>3 DEF ExportGet
    <3> QED BY <1>1, <3>2, <3>3 DEF Works, Changing
  <2>4. CASE SyncList(i)
    <3>1. w' = [w EXCEPT ![i] = [w[i] EXCEPT !.at = "commit", !.view = {View(k) : k \in there}]]
      BY <1>1, <1>5, <1>6, <2>4 DEF SyncList
    <3>2. w'[i] = [w[i] EXCEPT !.at = "commit", !.view = {View(k) : k \in there}]
      BY <1>1, <3>1
    <3>3. server' = server /\ w[i].op = "sync" /\ w[i].at = "send" /\ there' = there /\ email' = email
      BY <2>4 DEF SyncList, panelState
    <3>4. {View(k)' : k \in there'} = {View(k) : k \in there}
      BY <3>3 DEF View, Label
    <3> QED BY <1>1, <3>2, <3>3, <3>4 DEF Works, Changing
  <2>5. ~(Import(i) \/ AddCommit(i) \/ DeleteCommit(i) \/ DeleteInboundCommit(i) \/ ExportCommit(i) \/ SyncCommit(i))
    BY <1>5 DEF Import, AddCommit, DeleteCommit, DeleteInboundCommit, ExportCommit, SyncCommit
  <2> QED BY <2>1, <2>2, <2>3, <2>4, <2>5 DEF WorkStep
<1>8. StillThere(i)
  BY <1>2, <1>7 DEF AloneInv
<1>9. StillThere(i)'
  BY <1>7, <1>8 DEF StillThere
<1> QED BY <1>3, <1>7, <1>9 DEF AloneInv

\* The first step of a request when nobody is at work.
LEMMA AloneBegin ==
  ASSUME WorkInv, NEW i \in Workers, BeginStep(i), Working = {}
  PROVE  AloneInv'
<1>1. w \in [Workers -> Works]
  BY DEF WorkInv
<1>5. ASSUME NEW op, NEW ib PROVE Request(op, ib).at = "send" /\ Request(op, ib).server = server
  BY DEF Request, Idle
<1>6. ASSUME NEW op, NEW k PROVE ClientRequest(op, k).at = "send" /\ ClientRequest(op, k).server = server
  <2> DEFINE q == [Idle EXCEPT !.at = "send", !.op = op, !.server = server, !.ib = InboundOf[k]]
  <2>1. q.at = "send" /\ q.server = server /\ ClientRequest(op, k) = [q EXCEPT !.k = k, !.lab = IF k \in Passworded THEN Label(k) ELSE <<>>]
    BY DEF ClientRequest, Request, Idle
  <2>2. DOMAIN q = {"at", "op", "server", "k", "ib", "lab", "view"}
    BY DEF Idle
  <2> HIDE DEF q
  <2> QED BY <2>1, <2>2
<1> DEFINE Good(x) == x.at \in {"probe", "send"} /\ (x.at = "send" => server' # 0 /\ x.server = server')
<1>2. PICK x : w' = [w EXCEPT ![i] = x] /\ Good(x)
  <2>1. CASE ImportBegin(i)
    <3>1. [Idle EXCEPT !.at = "probe"].at = "probe"
      BY DEF Idle
    <3> QED BY <2>1, <3>1 DEF ImportBegin
  <2>2. ASSUME NEW kind, NEW x, x.at = "send", x.server = server, Begin(i, kind, x)
        PROVE  w' = [w EXCEPT ![i] = x] /\ Good(x)
    BY <2>2 DEF Begin
  <2> HIDE DEF Good
  <2>3. CASE AddBegin(i) \/ DeleteBegin(i) \/ ExportBegin(i)
    <3>1. \E kind, op, k : Begin(i, kind, ClientRequest(op, k))
      BY <2>3 DEF AddBegin, DeleteBegin, ExportBegin
    <3> QED BY <1>6, <2>2, <3>1
  <2>4. CASE DeleteInboundBegin(i) \/ SyncBegin(i)
    <3>1. \E kind, op, ib : Begin(i, kind, Request(op, ib))
      BY <2>4 DEF DeleteInboundBegin, SyncBegin
    <3> QED BY <1>5, <2>2, <3>1
  <2> QED BY <2>1, <2>3, <2>4 DEF BeginStep
<1>3. \A j \in Workers : w'[j] = IF j = i THEN x ELSE w[j]
  BY <1>1, <1>2
<1>4. Working' = {i}
  BY <1>2, <1>3 DEF Working
<1> QED BY <1>2, <1>3, <1>4 DEF AloneInv, StillThere

LEMMA AloneStep ==
  ASSUME WorkInv, AloneInv, [PanelNext]_panelVars
  PROVE  AloneInv'
<1> SUFFICES ASSUME alone', Working' # {} PROVE AloneInv'
  BY DEF AloneInv
<1>1. CASE UNCHANGED panelVars
  BY <1>1 DEF AloneInv, panelVars, panelState, StillThere, View, Label, Working
<1>2. ASSUME NEW i \in Workers, Step(WorkStep(i)) PROVE AloneInv'
  <2>1. Working # {}
    BY <1>2 DEF Step, WorkStep, Import, AddSend, Restart, AddCommit, DeleteSend, DeleteCommit, DeleteInboundSend,
         DeleteInboundCommit, ExportGet, ExportCommit, SyncList, SyncCommit, Working
  <2> QED BY <1>2, <2>1, AloneWork DEF Step
<1>3. ASSUME NEW i \in Workers, Step(BeginStep(i)) PROVE AloneInv'
  <2>1. CASE Working = {}
    BY <1>3, <2>1, AloneBegin DEF Step
  <2>2. CASE Working # {}
    <3>1. quota' = quota
      BY <1>3, <2>2 DEF Step
    <3>2. \E c \in Kinds : Spend(c)
      BY <1>3 DEF Step, BeginStep, ImportBegin, AddBegin, DeleteBegin, DeleteInboundBegin, ExportBegin, SyncBegin, Begin, Kinds
    <3> QED BY <3>1, <3>2 DEF Spend, WorkInv
  <2> QED BY <2>1, <2>2
<1>4. CASE Event(Unregister) \/ Event(CreateInbound) \/ Event(Hand) \/ Event(OperatorDeletesNode)
  BY <1>4 DEF Event
<1> QED BY <1>1, <1>2, <1>3, <1>4 DEF PanelNext

-----------------------------------------------------------------------------
PanelInv == WorkInv /\ CacheInv /\ AloneInv

LEMMA PanelInvInit == PanelInit => PanelInv
<1> SUFFICES ASSUME PanelInit PROVE PanelInv
  OBVIOUS
<1>1. Min(Inbounds) \in Inbounds
  <2>1. \E m \in Inbounds : \A k \in Inbounds : m <= k
    BY IdsAssumption, LeastNat
  <2> QED BY <2>1 DEF Min
<1>2. WorkInv
  <2>1. w \in [Workers -> Works] /\ \A i \in Workers : WorkShape(w[i])
    BY IdleWork DEF PanelInit, WorkShape
  <2> QED BY <1>1, <2>1, LimitsAssumption DEF PanelInit, WorkInv
<1>3. CacheInv
  BY DEF PanelInit, CacheInv, Bounded
<1>4. Working = {}
  BY DEF PanelInit, Working, Idle
<1> QED BY <1>2, <1>3, <1>4 DEF PanelInv, AloneInv

LEMMA PanelInvStep == PanelInv /\ [PanelNext]_panelVars => PanelInv'
<1> SUFFICES ASSUME PanelInv, [PanelNext]_panelVars PROVE PanelInv'
  OBVIOUS
<1>1. WorkInv /\ CacheInv /\ AloneInv
  BY DEF PanelInv
<1>2. CASE \E i \in Workers : WorkStep(i)
  BY <1>1, <1>2, WorkTyped, CacheStep, AloneStep DEF PanelInv
<1>3. CASE \E i \in Workers : BeginStep(i)
  BY <1>1, <1>3, BeginTyped, CacheBegin, AloneStep DEF PanelInv
<1>4. CASE Unregister \/ CreateInbound \/ Hand \/ OperatorDeletesNode \/ UNCHANGED panelVars
  BY <1>1, <1>4, EventTyped, CacheEvent, AloneStep DEF PanelInv
<1> QED BY <1>2, <1>3, <1>4 DEF PanelNext, Step, Event

LEMMA PanelInvHolds == PanelSpec => []PanelInv
BY PanelInvInit, PanelInvStep, PTL DEF PanelSpec

\* A request nobody interfered with leaves xray running with the clients of the panel: its
\* commit finds the xray its restart loaded with them.
THEOREM ChangeTakesEffect == PanelSpec => LoneChangeTakesEffect
<1> DEFINE Takes == \A i \in Workers : Completes(i, "add") \/ Completes(i, "delete") \/ Completes(i, "delinbound")
                                       => running' = there
<1>1. PanelInv /\ [PanelNext]_panelVars => [Takes]_panelVars
  <2> SUFFICES ASSUME PanelInv, PanelNext, NEW i \in Workers, NEW op \in Changing, Completes(i, op)
               PROVE  running' = there
    BY DEF Changing
  <2>1. alone /\ w[i].at = "commit" /\ w[i].op = op /\ w'[i].at = "idle"
    BY DEF Completes
  <2>2. WorkStep(i)
    BY <2>1, Mover DEF PanelInv
  <2>3. running = there
    BY <2>1 DEF PanelInv, AloneInv, Working
  <2>4. running' = running
    BY <2>1, <2>2 DEF WorkStep, Import, AddSend, Restart, AddCommit, DeleteSend, DeleteCommit,
       DeleteInboundSend, DeleteInboundCommit, ExportGet, ExportCommit, SyncList, SyncCommit, panelState, Changing
  <2> QED BY <2>3, <2>4
<1>2. PanelSpec => [][Takes]_panelVars
  BY <1>1, PanelInvHolds, PTL DEF PanelSpec
<1> QED BY <1>2 DEF LoneChangeTakesEffect

\* The deletion of an inbound nobody interfered with takes the nodes of all its clients: the
\* rows are still those of the server it was asked of.
THEOREM DeletedInboundTakesNodes == PanelSpec => InboundTakesNodes
<1> DEFINE Takes == \A i \in Workers : Completes(i, "delinbound") =>
                      \A r \in rows : r.ib = w[i].ib => r.node \notin nodes'
<1>1. PanelInv /\ [PanelNext]_panelVars => [Takes]_panelVars
  <2> SUFFICES ASSUME PanelInv, PanelNext, NEW i \in Workers, Completes(i, "delinbound"),
                      NEW r \in rows, r.ib = w[i].ib
               PROVE  r.node \notin nodes'
    OBVIOUS
  <2>1. alone /\ w[i].at = "commit" /\ w[i].op = "delinbound" /\ w'[i].at = "idle"
    BY DEF Completes
  <2>2. WorkStep(i)
    BY <2>1, Mover DEF PanelInv
  <2>3. StillThere(i)
    BY <2>1 DEF PanelInv, AloneInv, Working
  <2>4. DeleteInboundCommit(i)
    BY <2>1, <2>2 DEF WorkStep, Import, AddSend, Restart, AddCommit, DeleteSend, DeleteCommit,
       DeleteInboundSend, ExportGet, ExportCommit, SyncList, SyncCommit
  <2> QED BY <2>3, <2>4 DEF DeleteInboundCommit
<1>2. PanelSpec => [][Takes]_panelVars
  BY <1>1, PanelInvHolds, PTL DEF PanelSpec
<1> QED BY <1>2 DEF InboundTakesNodes

\* What a row is after the links to deleted nodes are cut.
LEMMA Unlinked ==
  ASSUME NEW S, NEW D, \A r \in S : RowShape(r)
  PROVE  {<<r.ib, r.key>> : r \in Unlink(S, D)} = {<<r.ib, r.key>> : r \in S}
<1> DEFINE Cut(r) == [r EXCEPT !.node = IF @ \in D THEN 0 ELSE @]
<1>1. Unlink(S, D) = {Cut(r) : r \in S}
  BY DEF Unlink
<1>2. \A r \in S : Cut(r).ib = r.ib /\ Cut(r).key = r.key
  BY DEF RowShape, Rows
<1> HIDE DEF Cut
<1>3. \A r \in S : <<Cut(r).ib, Cut(r).key>> = <<r.ib, r.key>>
  BY <1>2
<1>4. {<<r.ib, r.key>> : r \in {Cut(q) : q \in S}} = {<<r.ib, r.key>> : r \in S}
  BY <1>3
<1> QED BY <1>1, <1>4

\* If no two rows stand for one client, the commit of a synchronisation that lists the panel
\* as it is leaves a mirror of it.
LEMMA MirrorMade ==
  ASSUME WorkInv, CacheInv, OneRowEach, NEW V, V = {View(k) : k \in there},
         rows' = Unlink(Left(V), Dead(V)), nodes' = nodes \ Dead(V)
  PROVE  Mirrors
<1>1. \A k \in there : k \in Clients /\ k # 0 /\ View(k) \in V /\ ViewShape(View(k))
                       /\ View(k).key = k /\ View(k).ib = InboundOf[k] /\ View(k).lab = Label(k)
  BY LabelTyped, IdsAssumption DEF WorkInv, View
<1>2. \A v \in V : v.key \in there /\ v = View(v.key) /\ ViewShape(v)
  BY <1>1
<1>3. IsFiniteSet(V)
  BY ViewFinite DEF WorkInv
<1>4. Standing = rows
  <2>1. \A r, q \in rows : q.ib = r.ib /\ q.key = r.key => q = r
    BY DEF OneRowEach
  <2>2. \A r \in rows : r.id <= r.id
    BY DEF CacheInv, RowShape, Rows
  <2> QED BY <2>1, <2>2 DEF Standing
<1>5. \A a, b \in rows : a.lab[1] = b.lab[1] => a = b
  BY DEF OneRowEach
<1>6. \A r \in rows : RowShape(r)
  BY DEF CacheInv
<1>7. {<<r.ib, r.key>> : r \in rows'} = {<<r.ib, r.key>> : r \in Left(V)}
  <2>1. ASSUME NEW x \in Left(V) PROVE RowShape(x)
    <3>1. CASE x \in Fresh(V)
      <4>1. PICK v \in V : \E r \in RowOf(v) : x = [r EXCEPT !.lab = v.lab, !.key = v.key]
        BY <3>1 DEF Fresh
      <4> QED BY <1>2, <4>1, FreshRow
    <3>2. CASE x \in Added(V)
      BY <1>2, <1>3, <3>2, AddedRow DEF Added, Unseen
    <3>3. CASE x \in rows
      BY <1>6, <3>3
    <3> QED BY <3>1, <3>2, <3>3 DEF Left
  <2> QED BY <2>1, Unlinked
<1>8. ASSUME NEW x \in Left(V) PROVE \E k \in there : x.ib = InboundOf[k] /\ x.key = k
  <2>1. CASE x \in Fresh(V)
    <3>1. PICK v \in V : \E r \in RowOf(v) : x = [r EXCEPT !.lab = v.lab, !.key = v.key]
      BY <2>1 DEF Fresh
    <3>3. PICK r \in RowOf(v) : x = [r EXCEPT !.lab = v.lab, !.key = v.key]
      BY <3>1
    <3>4. ViewShape(v)
      BY <1>2
    <3>2. x.ib = v.ib /\ x.key = v.key
      BY <3>3, <3>4, FreshRow
    <3> QED BY <1>1, <1>2, <3>2
  <2>2. CASE x \in Added(V)
    <3>1. PICK v \in V : x = NewRow(V, v)
      BY <2>2 DEF Added, Unseen
    <3>2. x.ib = v.ib /\ x.key = v.key
      BY <1>2, <1>3, <3>1, AddedRow
    <3> QED BY <1>1, <1>2, <3>2
  <2>3. CASE x \in (rows \ Kept(V)) \ Gone(V)
    <3>1. PICK v \in V : v.ib = x.ib /\ v.key = x.key
      BY <1>4, <2>3 DEF Gone
    <3> QED BY <1>1, <1>2, <3>1
  <2> QED BY <2>1, <2>2, <2>3 DEF Left
<1>9. ASSUME NEW k \in there PROVE \E x \in Left(V) : x.ib = InboundOf[k] /\ x.key = k
  <2> DEFINE v == View(k)
  <2>1. v \in V /\ ViewShape(v) /\ v.key = k /\ v.ib = InboundOf[k]
    BY <1>1
  <2> HIDE DEF v
  <2>2. CASE RowOf(v) = {}
    <3>1. NewRow(V, v) \in Left(V)
      BY <2>1, <2>2 DEF Left, Added, Unseen
    <3> QED BY <1>3, <2>1, <3>1, AddedRow
  <2>3. CASE RowOf(v) # {}
    <3>1. PICK r \in RowOf(v) : TRUE
      BY <2>3
    <3> DEFINE x == [r EXCEPT !.lab = v.lab, !.key = v.key]
    <3> DEFINE Made(u) == {[q EXCEPT !.lab = u.lab, !.key = u.key] : q \in RowOf(u)}
    <3>4. x \in Made(v)
      OBVIOUS
    <3>6. Fresh(V) = UNION {Made(u) : u \in V}
      BY DEF Fresh
    <3>3. x.ib = v.ib /\ x.key = v.key
      BY <2>1, FreshRow
    <3> HIDE DEF x, Made
    <3>5. x \in Fresh(V)
      BY <2>1, <3>4, <3>6
    <3>2. x \in Left(V)
      BY <3>5 DEF Left
    <3> QED BY <2>1, <3>2, <3>3
  <2> QED BY <2>2, <2>3
<1>10. {<<r.ib, r.key>> : r \in Left(V)} = {<<InboundOf[k], k>> : k \in there}
  BY <1>8, <1>9
<1>11. ASSUME NEW r \in rows, r.node # 0, r.node \notin there PROVE r.node \notin nodes'
  <2>1. r.node = r.lab[1] /\ r.key \in {0, r.lab[1]}
    BY <1>6, <1>11 DEF RowShape
  <2>2. r \notin Kept(V)
    <3> SUFFICES ASSUME r \in Kept(V) PROVE FALSE
      OBVIOUS
    <3>1. PICK v \in V : r \in RowOf(v)
      BY DEF Kept
    <3> QED BY <1>2, <1>11, <2>1, <3>1, RowOfFacts
  <2>3. ~\E v \in V : v.ib = r.ib /\ v.key = r.key
    BY <1>1, <1>2, <1>11, <2>1
  <2>4. r \in Gone(V)
    BY <1>4, <2>2, <2>3 DEF Gone
  <2> QED BY <2>4 DEF Dead
<1>12. ASSUME NEW q \in rows, q.node \in there, q.key = q.node \/ q.lab = Label(q.node) PROVE q.node \in nodes'
  <2> DEFINE k == q.node
             v == View(k)
  <2>1. v \in V /\ v.key = k /\ v.ib = InboundOf[k] /\ v.lab = Label(k) /\ k # 0
    BY <1>1, <1>12
  <2>2. k \in nodes /\ q.lab[1] = k /\ q.ib = InboundOf[k] /\ q.key \in {0, k}
    BY <1>6, <1>12, <2>1 DEF CacheInv, RowShape
  <2>3. k \notin Dead(V)
    <3> SUFFICES ASSUME NEW g \in Gone(V), g.node = k PROVE FALSE
      BY DEF Dead
    <3>1. g \in rows /\ g \notin Kept(V) /\ ~\E u \in V : u.ib = g.ib /\ u.key = g.key
      BY <1>4 DEF Gone
    <3>2. g.lab[1] = k
      BY <1>6, <2>1, <3>1 DEF RowShape
    <3>3. g = q
      BY <1>5, <2>2, <3>1, <3>2
    <3>4. q.key = 0 /\ q.lab = Label(k)
      BY <1>12, <2>1, <2>2, <3>1, <3>3
    <3> HIDE DEF v
    <3>5. q \in Adopted(v)
      BY <2>1, <2>2, <3>4 DEF Adopted
    <3>6. {r \in Standing : r.ib = v.ib /\ r.key = v.key} = {}
      <4> SUFFICES ASSUME NEW r \in rows, r.key = k PROVE FALSE
        BY <1>4, <2>1
      <4>1. r.lab[1] = k
        BY <1>6, <2>1 DEF RowShape
      <4> QED BY <1>5, <2>1, <2>2, <3>4, <4>1
    <3>7. RowOf(v) = {CHOOSE x \in Adopted(v) : \A y \in Adopted(v) : y.id <= x.id}
      BY <3>5, <3>6 DEF RowOf
    <3>8. PICK x : x \in RowOf(v)
      BY <3>7
    <3>9. x \in rows /\ x.lab[1] = k
      BY <1>2, <2>1, <3>8, RowOfFacts
    <3>10. x = q
      BY <1>5, <2>2, <3>9
    <3> QED BY <2>1, <3>1, <3>3, <3>8, <3>10 DEF Kept
  <2> QED BY <2>2, <2>3
<1> QED BY <1>7, <1>10, <1>11, <1>12 DEF Mirrors, LinkedLive

\* A synchronisation nobody interfered with leaves the cache a mirror of the panel and takes the
\* nodes of the clients that are gone, and no others, if no two rows stood for one client:
\* whatever was interrupted, raced or done by hand before it, a row still tells its client, and
\* the list it commits is still what the panel has.
THEOREM SyncMirrors == PanelSpec => LoneSyncMirrors
<1> DEFINE Mirrored == \A i \in Workers : Completes(i, "sync") /\ OneRowEach => Mirrors
<1>1. PanelInv /\ [PanelNext]_panelVars => [Mirrored]_panelVars
  <2> SUFFICES ASSUME PanelInv, PanelNext, NEW i \in Workers, Completes(i, "sync"), OneRowEach
               PROVE  Mirrors
    OBVIOUS
  <2>1. alone /\ w[i].at = "commit" /\ w[i].op = "sync" /\ w'[i].at = "idle"
    BY DEF Completes
  <2>2. SyncCommit(i)
    <3>1. WorkStep(i)
      BY <2>1, Mover DEF PanelInv
    <3> QED BY <2>1, <3>1 DEF WorkStep, Import, AddSend, Restart, AddCommit, DeleteSend, DeleteCommit,
       DeleteInboundSend, DeleteInboundCommit, ExportGet, ExportCommit, SyncList
  <2>3. StillThere(i) /\ w[i].view = {View(k) : k \in there}
    BY <2>1 DEF PanelInv, AloneInv, Working
  <2> QED BY <2>2, <2>3, SyncParts, MirrorMade DEF PanelInv
<1>2. PanelSpec => [][Mirrored]_panelVars
  BY <1>1, PanelInvHolds, PTL DEF PanelSpec
<1> QED BY <1>2 DEF LoneSyncMirrors
===============================================================================
