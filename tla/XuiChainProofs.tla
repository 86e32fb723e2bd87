---------------------------- MODULE XuiChainProofs ----------------------------
(***************************************************************************)
(* Proofs about XuiChain, for any chains, channels, clients, requests and  *)
(* bounds: PiTun knows of everything it made on the panels but for what a  *)
(* fault or a deleted row led astray, the relay's xray knows every client  *)
(* that was given out, no node outlives its client unnoticed, and an       *)
(* undisturbed change leaves every deployed chain of the relay served.     *)
(***************************************************************************)
EXTENDS XuiChain, FiniteSetTheorems, WellFoundedInduction, TLAPS

DbOK ==
  /\ chain \in [Chains -> Status] /\ chan \in [Chains -> SUBSET Chs]
  /\ keyed \in [Chains -> SUBSET Chs] /\ \A c \in Chains : keyed[c] \subseteq chan[c]
  /\ pairs \subseteq Triples /\ nodes \subseteq Triples /\ txn \in Workers \cup {NoWorker}
PanelOK ==
  /\ inb \subseteq Tags /\ pcl \subseteq Triples /\ tmpl \subseteq Routes
  /\ conf \in [routes : SUBSET Routes, clients : SUBSET Triples]
WorkersOK == w \in [Workers -> Worker]
Live == {"deployed", "degraded"}
CheckOK ==
  /\ hc \in [at : {"idle", "probe", "write"}, chain : {0} \cup Chains, was : Status, now : Status]
  /\ hc.at = "write" => hc.now \in Live
LeftOK == left \in [DOMAIN Limits -> Nat] /\ \A k \in DOMAIN Limits : left[k] <= Limits[k]
AstrayOK == astrayI \subseteq Tags /\ astrayC \subseteq Triples /\ raced \subseteq Triples

Data == DbOK /\ PanelOK /\ WorkersOK /\ CheckOK /\ users \subseteq Clients /\ LeftOK /\ AstrayOK

\* The rows: a channel goes with its chain, a client's pairs with the channel.
RowsInv ==
  /\ \A c \in Chains : chain[c] = "none" => chan[c] = {}
  /\ \A t \in pairs : t[2] \in chan[t[1]] /\ t[3] \notin users

\* Where an orchestration may be.
Course(at, op) ==
  /\ at \in {"exit", "relay", "keys", "build", "finish", "undo", "fail"} => op = "create"
  /\ at = "clear" => op \in {"delete", "channel"}
  /\ at \in {"push", "restart"} => op \in {"create", "delete", "channel"}
  /\ at = "drop" => op = "channel"
  /\ at = "add" => op = "client"
  /\ at = "remove" => op \in {"client", "unclient"}
  /\ at = "reload" => op \in {"client", "failed", "unclient"}
  /\ at = "commit" => op \in {"delete", "channel", "client", "failed", "unclient"}

\* Whose write transaction is open.
Writes(i) == w[i].op \in {"client", "failed"} \/ (w[i].op = "channel" /\ w[i].at # "drop")

WorkOK(i) ==
  /\ w[i].at = "idle" => w[i] = Idle
  /\ w[i].at # "idle" => w[i].chain \in Chains
  /\ Course(w[i].at, w[i].op)
  /\ w[i].op = "channel" => w[i].ch \in Chs
  /\ w[i].op \in {"client", "failed", "unclient"} => w[i].client \in Clients
  /\ w[i].at \in {"exit", "relay", "add"} => w[i].todo # {}
  /\ Writes(i) => txn = i
  /\ \A r \in w[i].tmpl : r[3]

\* What a creation has made is there, is its own, and has its material once that is saved.
Keyed(x) == x[3] \in keyed[x[2]] \/ x \in astrayI
MadeOK(i) ==
  /\ w[i].op # "create" \/ w[i].at = "fail" => w[i].made = {}
  /\ \A x \in w[i].made : x \in inb /\ x[2] = w[i].chain
  /\ w[i].at \in {"build", "push", "restart", "finish"} => \A x \in w[i].made : Keyed(x)

\* What a request adds to the panel, or takes from it, belongs to its own client.
AddedOK(i) ==
  /\ w[i].op \notin {"client", "unclient"} => w[i].added = {}
  /\ w[i].op = "unclient" /\ w[i].at \in {"reload", "commit"} => w[i].added = {}
  /\ w[i].op = "client" =>
       /\ w[i].client \notin users /\ \A t \in pairs : t[3] # w[i].client
       /\ w[i].at = "add" => w[i].todo \subseteq chan[w[i].chain]
       /\ \A t \in w[i].added : t[1] = w[i].chain /\ t[2] \in chan[t[1]] /\ t[3] = w[i].client
       /\ w[i].at \in {"add", "reload", "commit"} => w[i].added \subseteq pcl \cup astrayC
       /\ w[i].at = "commit" => w[i].added \subseteq conf.clients \cup astrayC
  /\ w[i].op = "unclient" =>
       /\ w[i].client \notin users /\ w[i].added \subseteq astrayC
       /\ \A t \in pairs : t[3] = w[i].client => t \in astrayC
       /\ \A j \in Workers : w[j].op = "client" => w[j].client # w[i].client

\* The nodes that a request will delete are all that it has to, but for those exported since.
NodesOK(i) ==
  /\ w[i].op = "unclient" => \A n \in nodes : n[3] = w[i].client => n \in w[i].nodes \cup raced
  /\ w[i].op = "channel" /\ w[i].at # "drop" =>
       OfChannel(pairs, w[i].chain, w[i].ch) \cap nodes \subseteq w[i].nodes

Own(i) == WorkOK(i) /\ MadeOK(i) /\ AddedOK(i) /\ NodesOK(i)

LiveInv ==
  /\ pairs \subseteq pcl \cup astrayC /\ pairs \subseteq conf.clients \cup astrayC
  /\ \A r \in tmpl : r[3]

XuiInv ==
  /\ Data /\ RowsInv /\ LiveInv /\ NodesHaveClients /\ NothingStray
  /\ \A i \in Workers : Own(i)
  /\ \A i, j \in Workers : i # j => w[i].made \cap w[j].made = {}

-----------------------------------------------------------------------------
(* What a step of one actor may do without the others noticing.            *)

Mine(i, t) == i \in Workers /\ w[i].op = "client" /\ w[i].client = t[3]

Suits(i) ==
  /\ \A j \in Workers \ {i} : /\ w'[j] = w[j] /\ (txn = j => txn' = j) /\ w[j].made \subseteq inb'
                              /\ i \in Workers => w'[i].made \cap w[j].made = {}
  /\ i \in Workers /\ w'[i].op = "client" =>
       (w[i].op = "client" /\ w'[i].client = w[i].client) \/ w'[i].client \in users
  /\ users' \subseteq users /\ astrayC \subseteq astrayC' /\ raced \subseteq raced'
  /\ \A x \in inb : Keyed(x) => Keyed(x)'
  /\ \A t \in pcl \ pcl' : t \in astrayC' \/ Mine(i, t)
  /\ conf' = conf \/ conf'.clients = pcl'
  /\ \A t \in pairs' \ pairs : Mine(i, t)
  /\ chan' = chan \/ MayWrite(i)
  /\ \A n \in nodes' \ nodes : \A j \in Workers :
       w[j].op = "unclient" /\ w[j].client = n[3] => n \in raced'
  /\ txn \in {NoWorker, i} \/ pairs' \cap nodes' \subseteq pairs \cap nodes

\* What was on the panels, or was about to be known of, stays known of.
Known(i) ==
  /\ \A x \in inb' \ inb : x \in astrayI' \/ (i \in Workers /\ x \in w'[i].made)
  /\ \A t \in pcl' \ pcl : t \in astrayC' \/ (i \in Workers /\ t \in w'[i].added)
  /\ \A t \in pairs \ pairs' : t \in pcl' => t \in astrayC'
  /\ i \in Workers => /\ \A x \in w[i].made : x \in inb' => x \in w'[i].made \/ Keyed(x)'
                      /\ \A t \in w[i].added : t \in pcl' => t \in w'[i].added \cup pairs' \cup astrayC'
  /\ \A x \in inb : x \in astrayI => x \in astrayI'

LEMMA OthersOK ==
  ASSUME XuiInv, NEW i, Suits(i), NEW j \in Workers \ {i}
  PROVE  Own(j)'
<1>1. Own(j) /\ w'[j] = w[j] /\ (txn = j => txn' = j) /\ w[j].made \subseteq inb'
  BY DEF XuiInv, Suits
<1>2. WorkOK(j)'
  BY <1>1 DEF Own, WorkOK, Writes
<1>3. MadeOK(j)'
  BY <1>1 DEF Own, MadeOK, Suits
<1>4. NodesOK(j)'
  <2>1. ASSUME w[j].op = "channel", w[j].at # "drop"
        PROVE  OfChannel(pairs', w[j].chain, w[j].ch) \cap nodes' \subseteq w[j].nodes
    <3>1. txn = j /\ j # i /\ txn # NoWorker
      BY <1>1, <2>1, WorkersAssumption DEF Own, WorkOK, Writes
    <3>2. pairs' \cap nodes' \subseteq pairs \cap nodes
      BY <3>1 DEF Suits
    <3> QED BY <1>1, <2>1, <3>2 DEF Own, NodesOK, OfChannel
  <2>2. ASSUME w[j].op = "unclient", NEW n \in nodes', n[3] = w[j].client
        PROVE  n \in w[j].nodes \cup raced'
    BY <1>1, <2>2 DEF Own, NodesOK, Suits
  <2> QED BY <1>1, <2>1, <2>2 DEF NodesOK
<1>5. AddedOK(j)'
  <2>1. ASSUME w[j].op = "client"
        PROVE  /\ w[j].client \notin users' /\ \A t \in pairs' : t[3] # w[j].client
               /\ chan' = chan
               /\ w[j].at \in {"add", "reload", "commit"} => w[j].added \subseteq pcl' \cup astrayC'
               /\ w[j].at = "commit" => w[j].added \subseteq conf'.clients \cup astrayC'
    <3>1. txn = j /\ j # i /\ txn # NoWorker
      BY <1>1, <2>1, WorkersAssumption DEF Own, WorkOK, Writes
    <3>2. ~(i \in Workers /\ w[i].op = "client")
      BY <3>1 DEF XuiInv, Own, WorkOK, Writes
    <3>3. chan' = chan /\ pairs' \subseteq pairs /\ pcl \subseteq pcl' \cup astrayC'
      BY <3>1, <3>2 DEF Suits, Mine, MayWrite
    <3>4. users' \subseteq users /\ astrayC \subseteq astrayC' /\ (conf' = conf \/ conf'.clients = pcl')
      BY DEF Suits
    <3> QED BY <1>1, <2>1, <3>3, <3>4 DEF Own, AddedOK
  <2>2. ASSUME w[j].op = "unclient"
        PROVE  /\ w[j].client \notin users' /\ w[j].added \subseteq astrayC'
               /\ \A t \in pairs' : t[3] = w[j].client => t \in astrayC'
               /\ \A k \in Workers : w'[k].op = "client" => w'[k].client # w[j].client
    <3>1. \A k \in Workers : w[k].op = "client" => w[k].client # w[j].client
      BY <1>1, <2>2 DEF Own, AddedOK
    <3>2. w[j].client \notin users
      BY <1>1, <2>2 DEF Own, AddedOK
    <3>3. \A t \in pairs' : t[3] = w[j].client => t \in pairs
      BY <3>1 DEF Suits, Mine
    <3>4. \A k \in Workers : w'[k].op = "client" => w'[k].client # w[j].client
      BY <3>1, <3>2 DEF Suits
    <3> QED BY <1>1, <2>2, <3>2, <3>3, <3>4 DEF Own, AddedOK, Suits
  <2> QED BY <1>1, <2>1, <2>2 DEF Own, AddedOK
<1> QED BY <1>2, <1>3, <1>4, <1>5 DEF Own

LEMMA StrayStep ==
  ASSUME XuiInv, NEW i, Suits(i), Known(i)
  PROVE  NothingStray'
<1>1. NothingStray /\ \A j \in Workers \ {i} : w'[j] = w[j]
  BY DEF XuiInv, Suits
<1>2. ASSUME NEW x \in inb' PROVE Keyed(x)' \/ \E j \in Workers : x \in w'[j].made
  <2>1. CASE x \notin inb
    BY <2>1 DEF Known, Keyed
  <2>2. CASE x \in inb
    <3>1. Keyed(x) \/ \E j \in Workers : x \in w[j].made
      BY <1>1, <2>2 DEF NothingStray, Keyed
    <3>2. Keyed(x) => Keyed(x)'
      BY <2>2 DEF Suits
    <3> QED BY <1>1, <3>1, <3>2 DEF Known
  <2> QED BY <2>1, <2>2
<1>3. ASSUME NEW t \in pcl' PROVE t \in pairs' \cup astrayC' \/ \E j \in Workers : t \in w'[j].added
  <2>1. CASE t \notin pcl
    BY <2>1 DEF Known
  <2>2. CASE t \in pcl
    <3>1. t \in pairs \cup astrayC \/ \E j \in Workers : t \in w[j].added
      BY <1>1, <2>2 DEF NothingStray
    <3> QED BY <1>1, <3>1 DEF Known, Suits
  <2> QED BY <2>1, <2>2
<1> QED BY <1>2, <1>3 DEF NothingStray, Keyed

\* No pair is lost on the way to the relay's xray.
LEMMA LiveStep ==
  ASSUME XuiInv, NEW i, Suits(i), pairs' \subseteq pairs, \A r \in tmpl' : r[3]
  PROVE  LiveInv'
<1>1. LiveInv /\ (i \in Workers => AddedOK(i))
  BY DEF XuiInv, Own
<1>2. \A t \in pairs : ~Mine(i, t)
  BY <1>1 DEF Mine, AddedOK
<1>3. pairs' \subseteq pcl' \cup astrayC'
  BY <1>1, <1>2 DEF LiveInv, Suits
<1>4. pairs' \subseteq conf'.clients \cup astrayC'
  BY <1>1, <1>3 DEF LiveInv, Suits
<1> QED BY <1>3, <1>4 DEF LiveInv

LEMMA StepInv ==
  ASSUME XuiInv, NEW i, Suits(i), Known(i), Data', RowsInv', LiveInv', NodesHaveClients',
         i \in Workers => Own(i)'
  PROVE  XuiInv'
<1>1. \A j \in Workers : Own(j)'
  BY OthersOK
<1>2. \A j, k \in Workers : j # k => w'[j].made \cap w'[k].made = {}
  BY DEF XuiInv, Suits
<1>3. NothingStray'
  BY StrayStep
<1> QED BY <1>1, <1>2, <1>3 DEF XuiInv

-----------------------------------------------------------------------------
(* Helpers.                                                                 *)

LEMMA Becomes ==
  ASSUME WorkersOK, NEW i \in Workers, NEW x \in Worker, w' = [w EXCEPT ![i] = x]
  PROVE  WorkersOK' /\ w'[i] = x /\ \A j \in Workers \ {i} : w'[j] = w[j]
BY DEF WorkersOK

LEMMA GoFacts ==
  ASSUME WorkersOK, NEW i \in Workers, NEW at \in WorkAt, Go(i, at)
  PROVE  /\ WorkersOK' /\ \A j \in Workers \ {i} : w'[j] = w[j]
         /\ w'[i].at = at /\ w'[i].op = w[i].op /\ w'[i].chain = w[i].chain
         /\ w'[i].ch = w[i].ch /\ w'[i].client = w[i].client /\ w'[i].todo = w[i].todo
         /\ w'[i].made = w[i].made /\ w'[i].added = w[i].added /\ w'[i].tmpl = w[i].tmpl
         /\ w'[i].nodes = w[i].nodes
<1>1. PICK x \in Worker : x = [w[i] EXCEPT !.at = at]
  BY DEF WorkersOK, Worker
<1>2. w' = [w EXCEPT ![i] = x]
  BY <1>1 DEF Go, WorkersOK
<1> QED BY <1>1, <1>2, Becomes DEF WorkersOK, Worker

LEMMA IdleOwn ==
  ASSUME NEW i \in Workers, w'[i] = Idle, XuiInv
  PROVE  Own(i)'
BY DEF Idle, Own, WorkOK, MadeOK, AddedOK, NodesOK, Course, Writes

LEMMA StopFacts ==
  ASSUME WorkersOK, NEW i \in Workers, Stop(i)
  PROVE  WorkersOK' /\ w'[i] = Idle /\ \A j \in Workers \ {i} : w'[j] = w[j]
<1>1. Idle \in Worker
  BY DEF Idle, Worker, WorkAt, Ops
<1> QED BY <1>1, Becomes DEF Stop

LEMMA SpendFacts ==
  ASSUME LeftOK, NEW k \in DOMAIN Limits, k # "all", Spend(k)
  PROVE  LeftOK'
<1>1. left[k] \in Nat /\ left["all"] \in Nat /\ left[k] > 0 /\ left["all"] > 0
  BY LimitsAssumption DEF LeftOK, Spend
<1>2. left[k] - 1 \in Nat /\ left["all"] - 1 \in Nat
  BY <1>1
<1>3. /\ left' \in [DOMAIN Limits -> Nat] /\ left'[k] = left[k] - 1 /\ left'["all"] = left["all"] - 1
      /\ \A j \in DOMAIN Limits \ {k, "all"} : left'[j] = left[j]
  BY <1>2, LimitsAssumption DEF LeftOK, Spend
<1>4. \A j \in DOMAIN Limits : left'[j] <= left[j]
  <2>1. left[k] - 1 <= left[k] /\ left["all"] - 1 <= left["all"]
    BY <1>1
  <2>2. \A j \in DOMAIN Limits : left[j] <= left[j]
    BY DEF LeftOK
  <2> QED BY <1>3, <2>1, <2>2
<1>5. \A j \in DOMAIN Limits : left[j] \in Nat /\ Limits[j] \in Nat /\ left[j] <= Limits[j] /\ left'[j] \in Nat
  BY <1>3, LimitsAssumption DEF LeftOK
<1> QED BY <1>3, <1>4, <1>5 DEF LeftOK

LEMMA Kinds == DOMAIN Limits = {"all", "create", "delete", "channel", "unclient", "export", "fault", "drift"}
BY LimitsAssumption

LEMMA TemplateFacts ==
  ASSUME NEW rows, NEW channels, NEW with
  PROVE  /\ RelayTemplate(rows, channels, with) \in SUBSET Routes
         /\ \A r \in RelayTemplate(rows, channels, with) : r[3]
BY DEF RelayTemplate

LEMMA LoadedFacts ==
  ASSUME PanelOK, \A r \in tmpl : r[3]
  PROVE  /\ Loaded(tmpl, pcl) \in [routes : SUBSET Routes, clients : SUBSET Triples]
         /\ Loaded(tmpl, pcl).clients = pcl
BY DEF Loaded, PanelOK

LEMMA LeastNat ==
  ASSUME NEW T \in SUBSET Nat, T # {}
  PROVE  \E m \in T : \A k \in T : m <= k
<1> DEFINE B == {0..n : n \in T}
<1>1. B \subseteq FiniteSubsetsOf(Nat) /\ B # {}
  <2>1. \A n \in T : IsFiniteSet(0..n) /\ 0..n \subseteq Nat
    BY FS_Interval
  <2> QED BY <2>1 DEF FiniteSubsetsOf
<1>2. IsWellFoundedOn(StrictSubsetOrdering(Nat), FiniteSubsetsOf(Nat))
  BY FS_StrictSubsetOrderingWellFounded
<1> HIDE DEF B
<1>3. PICK x \in B : \A y \in B : ~(<<y, x>> \in StrictSubsetOrdering(Nat))
  BY <1>1, <1>2, WFMin
<1>4. PICK m \in T : x = 0..m
  BY DEF B
<1>5. ASSUME NEW k \in T PROVE m <= k
  <2> SUFFICES ASSUME k < m PROVE FALSE
    OBVIOUS
  <2>1. ~(<<0..k, 0..m>> \in StrictSubsetOrdering(Nat))
    BY <1>3, <1>4 DEF B
  <2>2. 0..k \subseteq 0..m /\ 0..k # 0..m /\ 0..k \in SUBSET Nat /\ 0..m \in SUBSET Nat
    OBVIOUS
  <2> QED BY <2>1, <2>2 DEF StrictSubsetOrdering
<1> QED BY <1>5

\* A finite set of numbers has a greatest one: the one that leaves the fewest above it.
LEMMA MaxFacts ==
  ASSUME NEW S \in SUBSET Nat, IsFiniteSet(S), S # {}
  PROVE  Max(S) \in S /\ \A k \in S : k <= Max(S)
<1> DEFINE Above(m) == {j \in S : j > m}
           T == {Cardinality(Above(m)) : m \in S}
<1>1. \A m \in S : IsFiniteSet(Above(m)) /\ Cardinality(Above(m)) \in Nat
  <2>1. \A m \in S : Above(m) \in SUBSET S
    OBVIOUS
  <2> QED BY <2>1, FS_Subset, FS_CardinalityType
<1>2. PICK c \in T : \A d \in T : c <= d
  <2>1. T \in SUBSET Nat /\ T # {}
    BY <1>1
  <2> QED BY <2>1, LeastNat
<1>3. PICK m \in S : c = Cardinality(Above(m))
  BY <1>2
<1>4. ASSUME NEW k \in S PROVE m >= k
  <2> SUFFICES ASSUME ~(m >= k) PROVE FALSE
    OBVIOUS
  <2>1. k \in Nat /\ m \in Nat /\ k > m
    OBVIOUS
  <2>2. Above(k) \subseteq Above(m) \ {k}
    <3>1. ASSUME NEW j \in Above(k) PROVE j \in Above(m) /\ j # k
      <4>1. j \in Nat /\ j \in S /\ j > k
        OBVIOUS
      <4>2. j > m /\ j # k
        BY <2>1, <4>1
      <4> QED BY <4>1, <4>2
    <3> QED BY <3>1
  <2>3. k \in Above(m)
    BY <2>1
  <2> HIDE DEF Above, T
  <2>4. IsFiniteSet(Above(m) \ {k}) /\ Cardinality(Above(m) \ {k}) = Cardinality(Above(m)) - 1
    BY <1>1, <2>3, FS_RemoveElement
  <2>5. Cardinality(Above(k)) <= Cardinality(Above(m) \ {k})
    BY <2>2, <2>4, FS_Subset
  <2>6. c <= Cardinality(Above(k))
    BY <1>2 DEF T
  <2>7. Cardinality(Above(k)) \in Nat /\ Cardinality(Above(m)) \in Nat
    BY <1>1
  <2> QED BY <1>3, <2>4, <2>5, <2>6, <2>7
<1>5. \E x \in S : \A y \in S : x >= y
  BY <1>4
<1>6. Max(S) \in S /\ \A y \in S : Max(S) >= y
  BY <1>5 DEF Max
<1> QED BY <1>6

LEMMA MinFacts ==
  ASSUME NEW S \in SUBSET Nat, S # {}
  PROVE  Min(S) \in S
<1>1. \E x \in S : \A y \in S : x <= y
  BY LeastNat
<1> QED BY <1>1 DEF Min

-----------------------------------------------------------------------------
(* Steps that leave the rows, the inbounds and the clients alone.           *)

Same(i) ==
  /\ w'[i].op = w[i].op /\ w'[i].chain = w[i].chain /\ w'[i].ch = w[i].ch
  /\ w'[i].client = w[i].client /\ w'[i].made = w[i].made /\ w'[i].added = w[i].added
  /\ w'[i].nodes = w[i].nodes /\ w'[i].todo = w[i].todo
  /\ WorkersOK' /\ \A j \in Workers \ {i} : w'[j] = w[j]

LEMMA QuietStep ==
  ASSUME XuiInv, NEW i \in Workers, Same(i), Own(i)', UNCHANGED <<db, inb, pcl, hc, users, astray, raced>>,
         LeftOK', tmpl' \in SUBSET Routes, \A r \in tmpl' : r[3],
         conf' \in [routes : SUBSET Routes, clients : SUBSET Triples],
         conf' = conf \/ conf'.clients = pcl
  PROVE  XuiInv'
<1> USE DEF db, astray
<1>1. Data'
  BY DEF XuiInv, Data, DbOK, PanelOK, CheckOK, AstrayOK, Same
<1>2. RowsInv' /\ NodesHaveClients'
  BY DEF XuiInv, RowsInv, NodesHaveClients
<1>3. Suits(i)
  BY DEF XuiInv, Own, Suits, Same, MadeOK, Keyed
<1>4. Known(i)
  BY DEF Known, Same
<1>5. LiveInv'
  BY <1>3, LiveStep
<1> QED BY <1>1, <1>2, <1>3, <1>4, <1>5, StepInv

LEMMA BuildStep ==
  ASSUME XuiInv, NEW i \in Workers, Build(i)
  PROVE  XuiInv'
<1>1. UNCHANGED <<db, inb, pcl, tmpl, conf, hc, users, left, astray, raced>> /\ w[i].at = "build"
  BY DEF Build, panel
<1>2. WorkersOK /\ Own(i) /\ LeftOK /\ PanelOK /\ LiveInv
  BY DEF XuiInv, Data
<1>3. PICK t \in SUBSET Routes : t = RelayTemplate(Rows, chan, w[i].chain) /\ \A r \in t : r[3]
  BY TemplateFacts
<1>4. PICK x \in Worker : x = [w[i] EXCEPT !.at = "push", !.tmpl = t]
  <2>1. w[i] \in Worker /\ "push" \in WorkAt
    BY <1>2 DEF WorkersOK, WorkAt
  <2>2. [w[i] EXCEPT !.at = "push", !.tmpl = t] \in Worker
    BY <2>1 DEF Worker
  <2> QED BY <2>2
<1>5. w' = [w EXCEPT ![i] = x]
  BY <1>3, <1>4 DEF Build
<1>6. w'[i] = x /\ WorkersOK' /\ \A j \in Workers \ {i} : w'[j] = w[j]
  BY <1>2, <1>5, Becomes
<1>7. Same(i) /\ w'[i].at = "push" /\ w'[i].tmpl = t
  BY <1>2, <1>4, <1>6 DEF Same, WorkersOK, Worker
<1>8. Own(i)'
  BY <1>1, <1>2, <1>3, <1>7 DEF Own, WorkOK, MadeOK, AddedOK, NodesOK, Course, Writes, Same, db, astray, Keyed
<1> QED BY <1>1, <1>2, <1>7, <1>8, QuietStep DEF LeftOK, PanelOK, LiveInv

\* Where a request stands moves on.
LEMMA GoSame ==
  ASSUME WorkersOK, NEW i \in Workers, NEW at \in WorkAt, Go(i, at)
  PROVE  Same(i) /\ w'[i].at = at /\ w'[i].tmpl = w[i].tmpl
BY GoFacts DEF Same

LEMMA QuietOwn ==
  ASSUME XuiInv, NEW i \in Workers, Same(i), w[i].at # "idle", UNCHANGED <<db, inb, pcl, users, astray, raced>>,
         w'[i].tmpl = w[i].tmpl, w'[i].at \notin {"idle", "add", "exit", "relay", "drop", "build", "fail"},
         w[i].at # "drop", w[i].at # "add",
         Course(w'[i].at, w[i].op),
         w'[i].at \in {"push", "restart", "finish"} => w[i].at \in {"push", "restart"} \/ w[i].op # "create",
         w'[i].at \in {"reload", "commit"} /\ w[i].op \in {"client", "unclient"} => w[i].at = "reload",
         w'[i].at = "commit" /\ w[i].op = "client" => conf'.clients = pcl,
         conf' = conf \/ conf'.clients = pcl
  PROVE  Own(i)'
<1> USE DEF db, astray
<1>1. Own(i)
  BY DEF XuiInv
<1>2. WorkOK(i)'
  BY <1>1 DEF Own, WorkOK, Writes, Same
<1>3. MadeOK(i)'
  BY <1>1 DEF Own, MadeOK, Same, Keyed, WorkOK, Course
<1>4. NodesOK(i)'
  BY <1>1 DEF Own, NodesOK, Same
<1>5. AddedOK(i)'
  <2>1. CASE w[i].op = "client"
    BY <1>1, <2>1 DEF Own, AddedOK, Same
  <2>2. CASE w[i].op = "unclient"
    <3>1. \A j \in Workers : w'[j].op = "client" => w'[j].client # w[i].client
      BY <1>1, <2>2 DEF Own, AddedOK, Same
    <3> QED BY <1>1, <2>2, <3>1 DEF Own, AddedOK, Same
  <2>3. CASE w[i].op \notin {"client", "unclient"}
    BY <1>1, <2>3 DEF Own, AddedOK, Same
  <2> QED BY <2>1, <2>2, <2>3
<1> QED BY <1>2, <1>3, <1>4, <1>5 DEF Own

LEMMA PushStep ==
  ASSUME XuiInv, NEW i \in Workers, Push(i)
  PROVE  XuiInv'
<1>1. WorkersOK /\ Own(i) /\ LeftOK /\ PanelOK /\ LiveInv /\ w[i].at = "push"
  BY DEF XuiInv, Data, Push
<1>2. PICK at \in {"restart", "undo", "commit"} :
        /\ Go(i, at) /\ UNCHANGED <<db, inb, pcl, conf, hc, users, astray, raced>>
        /\ at = "restart" \/ at = (IF w[i].op = "create" THEN "undo" ELSE "commit")
        /\ tmpl' = w[i].tmpl \/ tmpl' = tmpl
        /\ left' = left \/ Spend("fault")
  BY DEF Push, Call
<1>3. Same(i) /\ w'[i].at = at /\ w'[i].tmpl = w[i].tmpl
  BY <1>1, <1>2, GoSame DEF WorkAt
<1>4. LeftOK'
  <2>1. CASE left' = left
    BY <1>1, <2>1 DEF LeftOK
  <2>2. CASE Spend("fault")
    BY <1>1, <2>2, Kinds, SpendFacts
  <2> QED BY <1>2, <2>1, <2>2
<1>5. tmpl' \in SUBSET Routes /\ \A r \in tmpl' : r[3]
  BY <1>1, <1>2 DEF Own, WorkOK, WorkersOK, Worker, LiveInv, PanelOK
<1>6. w[i].op \in {"create", "delete", "channel"}
  BY <1>1 DEF Own, WorkOK, Course
<1>7. Own(i)'
  BY <1>1, <1>2, <1>3, <1>6, QuietOwn DEF Course
<1> QED BY <1>1, <1>2, <1>3, <1>4, <1>5, <1>7, QuietStep DEF PanelOK

\* A restart that worked, or did not: what the relay's xray may run after it.
LEMMA ConfFacts ==
  ASSUME XuiInv, conf' = Loaded(tmpl, pcl) \/ conf' = conf
  PROVE  conf' \in [routes : SUBSET Routes, clients : SUBSET Triples] /\ (conf' = conf \/ conf'.clients = pcl)
<1>1. PanelOK /\ \A r \in tmpl : r[3]
  BY DEF XuiInv, Data, LiveInv
<1> QED BY <1>1, LoadedFacts DEF PanelOK

LEMMA RestartStep ==
  ASSUME XuiInv, NEW i \in Workers, Restart(i)
  PROVE  XuiInv'
<1>1. WorkersOK /\ Own(i) /\ LeftOK /\ PanelOK /\ LiveInv /\ w[i].at = "restart"
  BY DEF XuiInv, Data, Restart
<1>2. PICK at \in {"finish", "undo", "commit"} :
        /\ Go(i, at) /\ UNCHANGED <<db, inb, pcl, tmpl, hc, users, astray, raced>>
        /\ at \in (IF w[i].op = "create" THEN {"finish", "undo"} ELSE {"commit"})
        /\ conf' = Loaded(tmpl, pcl) \/ conf' = conf
        /\ left' = left \/ Spend("fault")
  BY DEF Restart, Call
<1>3. Same(i) /\ w'[i].at = at /\ w'[i].tmpl = w[i].tmpl
  BY <1>1, <1>2, GoSame DEF WorkAt
<1>4. LeftOK'
  <2>1. CASE left' = left
    BY <1>1, <2>1 DEF LeftOK
  <2>2. CASE Spend("fault")
    BY <1>1, <2>2, Kinds, SpendFacts
  <2> QED BY <1>2, <2>1, <2>2
<1>5. /\ conf' \in [routes : SUBSET Routes, clients : SUBSET Triples] /\ (conf' = conf \/ conf'.clients = pcl)
      /\ tmpl' \in SUBSET Routes /\ \A r \in tmpl' : r[3]
  BY <1>1, <1>2, ConfFacts DEF LiveInv, PanelOK
<1>6. w[i].op \in {"create", "delete", "channel"}
  BY <1>1 DEF Own, WorkOK, Course
<1>7. Own(i)'
  BY <1>1, <1>2, <1>3, <1>5, <1>6, QuietOwn DEF Course
<1> QED BY <1>1, <1>2, <1>3, <1>4, <1>5, <1>7, QuietStep

LEMMA ClearStep ==
  ASSUME XuiInv, NEW i \in Workers, Clear(i)
  PROVE  XuiInv'
<1>1. WorkersOK /\ Own(i) /\ LeftOK /\ PanelOK /\ LiveInv /\ w[i].at = "clear"
  BY DEF XuiInv, Data, Clear
<1>2. /\ Go(i, "commit") /\ UNCHANGED <<db, inb, pcl, hc, users, astray, raced>>
      /\ (tmpl' = {} /\ conf' = Loaded({}, pcl)) \/ (tmpl' = tmpl /\ conf' = conf)
      /\ left' = left \/ Spend("fault")
  BY DEF Clear, Call
<1>3. Same(i) /\ w'[i].at = "commit" /\ w'[i].tmpl = w[i].tmpl
  BY <1>1, <1>2, GoSame DEF WorkAt
<1>4. LeftOK'
  <2>1. CASE left' = left
    BY <1>1, <2>1 DEF LeftOK
  <2>2. CASE Spend("fault")
    BY <1>1, <2>2, Kinds, SpendFacts
  <2> QED BY <1>2, <2>1, <2>2
<1>5. Loaded({}, pcl) = [routes |-> {}, clients |-> pcl]
  BY DEF Loaded
<1>6. /\ conf' \in [routes : SUBSET Routes, clients : SUBSET Triples] /\ (conf' = conf \/ conf'.clients = pcl)
      /\ tmpl' \in SUBSET Routes /\ \A r \in tmpl' : r[3]
  BY <1>1, <1>2, <1>5 DEF LiveInv, PanelOK
<1>7. w[i].op \in {"delete", "channel"}
  BY <1>1 DEF Own, WorkOK, Course
<1>8. Own(i)'
  BY <1>1, <1>2, <1>3, <1>6, <1>7, QuietOwn DEF Course
<1> QED BY <1>1, <1>2, <1>3, <1>4, <1>6, <1>8, QuietStep

LEMMA ReloadClientsStep ==
  ASSUME XuiInv, NEW i \in Workers, ReloadClients(i)
  PROVE  XuiInv'
<1>1. WorkersOK /\ Own(i) /\ LeftOK /\ PanelOK /\ LiveInv /\ w[i].at = "reload"
  BY DEF XuiInv, Data, ReloadClients
<1>2. PICK at \in {"commit", "remove"} :
        /\ Go(i, at) /\ UNCHANGED <<db, inb, pcl, tmpl, hc, users, astray, raced>>
        /\ conf' = Loaded(tmpl, pcl) \/ conf' = conf
        /\ at = "remove" => w[i].op = "client"
        /\ at = "commit" /\ w[i].op = "client" => conf' = Loaded(tmpl, pcl)
        /\ left' = left \/ Spend("fault")
  BY DEF ReloadClients, Call
<1>3. Same(i) /\ w'[i].at = at /\ w'[i].tmpl = w[i].tmpl
  BY <1>1, <1>2, GoSame DEF WorkAt
<1>4. LeftOK'
  <2>1. CASE left' = left
    BY <1>1, <2>1 DEF LeftOK
  <2>2. CASE Spend("fault")
    BY <1>1, <2>2, Kinds, SpendFacts
  <2> QED BY <1>2, <2>1, <2>2
<1>5. /\ conf' \in [routes : SUBSET Routes, clients : SUBSET Triples] /\ (conf' = conf \/ conf'.clients = pcl)
      /\ tmpl' \in SUBSET Routes /\ \A r \in tmpl' : r[3]
  BY <1>1, <1>2, ConfFacts DEF LiveInv, PanelOK
<1>6. at = "commit" /\ w[i].op = "client" => conf'.clients = pcl
  BY <1>1, <1>2, LoadedFacts DEF LiveInv
<1>7. w[i].op \in {"client", "failed", "unclient"}
  BY <1>1 DEF Own, WorkOK, Course
<1>8. Own(i)'
  BY <1>1, <1>2, <1>3, <1>5, <1>6, <1>7, QuietOwn DEF Course
<1> QED BY <1>1, <1>2, <1>3, <1>4, <1>5, <1>8, QuietStep

-----------------------------------------------------------------------------
(* Creating a chain.                                                        *)

LEMMA CreateOwn ==
  ASSUME NEW i \in Workers, w'[i].op = "create", w'[i].added = {}, WorkOK(i)', MadeOK(i)'
  PROVE  Own(i)'
BY DEF Own, AddedOK, NodesOK

LEMMA FaultLeft ==
  ASSUME LeftOK, left' = left \/ Spend("fault")
  PROVE  LeftOK'
<1>1. CASE left' = left
  BY <1>1 DEF LeftOK
<1>2. CASE Spend("fault")
  BY <1>2, Kinds, SpendFacts
<1> QED BY <1>1, <1>2

LEMMA AddInboundStep ==
  ASSUME XuiInv, NEW i \in Workers, NEW side \in Sides, AddInbound(i, side)
  PROVE  XuiInv'
<1> USE DEF db, astray
<1>1. WorkersOK /\ Own(i) /\ LeftOK /\ PanelOK /\ LiveInv /\ w[i].at = side /\ side \in {"exit", "relay"}
      /\ w[i] \in Worker
  BY DEF XuiInv, Data, AddInbound, Sides, WorkersOK
<1>2. w[i].op = "create" /\ w[i].chain \in Chains /\ w[i].todo # {} /\ w[i].todo \in SUBSET Chs /\ w[i].added = {}
  BY <1>1 DEF Own, WorkOK, AddedOK, Course, Worker
<1>3. PICK h \in w[i].todo : h = Min(w[i].todo)
  BY <1>2, MinFacts, IdsAssumption
<1>4. PICK ib \in Tags : ib = Payload(side, w[i].chain, h) /\ ib[2] = w[i].chain
  <2>1. <<side, w[i].chain, h>> \in Tags
    BY <1>2 DEF Tags
  <2> QED BY <2>1 DEF Payload
<1>5. UNCHANGED <<astrayC, db, pcl, tmpl, conf, hc, users, raced>>
  BY DEF AddInbound
<1>6. \/ ib \in inb /\ Go(i, "undo") /\ UNCHANGED <<inb, astrayI, left>>
      \/ /\ ib \notin inb /\ inb' = inb \cup {ib} /\ UNCHANGED <<left, astrayI>>
         /\ w' = [w EXCEPT ![i].at = IF side = "exit" THEN "relay"
                                        ELSE IF w[i].todo = {h} THEN "keys" ELSE "exit",
                           ![i].todo = IF side = "relay" THEN @ \ {h} ELSE @,
                           ![i].made = @ \cup {ib}]
      \/ /\ ib \notin inb /\ Spend("fault") /\ inb' \in {inb, inb \cup {ib}}
         /\ Go(i, "undo") /\ astrayI' = astrayI \cup (inb' \ inb)
  BY <1>3, <1>4 DEF AddInbound, Call
<1>7. LeftOK'
  BY <1>1, <1>6, FaultLeft
<1>8. RowsInv' /\ NodesHaveClients'
  BY <1>5 DEF XuiInv, RowsInv, NodesHaveClients
<1>9. ASSUME ib \in inb, Go(i, "undo"), UNCHANGED <<inb, astrayI, left>>
      PROVE  XuiInv'
  <2>1. Same(i) /\ w'[i].at = "undo" /\ w'[i].tmpl = w[i].tmpl
    BY <1>1, <1>9, GoSame DEF WorkAt
  <2>2. Own(i)'
    BY <1>1, <1>2, <1>5, <1>9, <2>1, QuietOwn DEF Course
  <2> QED BY <1>1, <1>5, <1>7, <1>9, <2>1, <2>2, QuietStep DEF PanelOK, LiveInv
<1>10. ASSUME ib \notin inb, inb' = inb \cup {ib}, UNCHANGED <<left, astrayI>>,
              w' = [w EXCEPT ![i].at = IF side = "exit" THEN "relay"
                                        ELSE IF w[i].todo = {h} THEN "keys" ELSE "exit",
                             ![i].todo = IF side = "relay" THEN @ \ {h} ELSE @,
                             ![i].made = @ \cup {ib}]
       PROVE XuiInv'
  <2>1. PICK at \in WorkAt : at = (IF side = "exit" THEN "relay" ELSE IF w[i].todo = {h} THEN "keys" ELSE "exit")
    BY DEF WorkAt
  <2>2. PICK x \in Worker : x = [w[i] EXCEPT !.at = at, !.todo = IF side = "relay" THEN @ \ {h} ELSE @,
                                             !.made = @ \cup {ib}]
    BY <1>1 DEF Worker
  <2>3. w' = [w EXCEPT ![i] = x]
    BY <1>1, <1>10, <2>1, <2>2 DEF WorkersOK
  <2>4. w'[i] = x /\ WorkersOK' /\ \A j \in Workers \ {i} : w'[j] = w[j]
    BY <1>1, <2>3, Becomes
  <2>5. /\ x.at = at /\ x.made = w[i].made \cup {ib} /\ x.op = w[i].op /\ x.chain = w[i].chain
        /\ x.added = w[i].added /\ x.tmpl = w[i].tmpl
        /\ x.todo = IF side = "relay" THEN w[i].todo \ {h} ELSE w[i].todo
    BY <1>1, <2>2 DEF Worker
  <2>6. Data'
    BY <1>1, <1>5, <1>7, <1>10, <2>4 DEF XuiInv, Data, DbOK, PanelOK, CheckOK, AstrayOK
  <2>7. Suits(i)
    <3>1. \A j \in Workers \ {i} : w[j].made \subseteq inb /\ w[i].made \cap w[j].made = {}
      BY DEF XuiInv, Own, MadeOK
    <3> QED BY <1>2, <1>5, <1>10, <2>4, <2>5, <3>1 DEF Suits, Keyed
  <2>8. Known(i)
    BY <1>5, <1>10, <2>4, <2>5 DEF Known
  <2>9. LiveInv'
    BY <1>1, <1>5, <2>7, LiveStep DEF LiveInv
  <2>10. WorkOK(i)'
    <3>1. at \in {"exit", "relay"} => x.todo # {}
      BY <1>1, <1>2, <2>1, <2>5
    <3>2. at \in {"exit", "relay", "keys"}
      BY <2>1
    <3> QED BY <1>1, <1>2, <2>4, <2>5, <3>1, <3>2 DEF Own, WorkOK, Course, Writes
  <2>11. MadeOK(i)'
    <3>1. at \in {"exit", "relay", "keys"}
      BY <2>1
    <3>2. \A y \in w[i].made : y \in inb /\ y[2] = w[i].chain
      BY <1>1 DEF Own, MadeOK
    <3> QED BY <1>2, <1>4, <1>10, <2>4, <2>5, <3>1, <3>2 DEF MadeOK
  <2>12. Own(i)'
    BY <1>2, <2>4, <2>5, <2>10, <2>11, CreateOwn
  <2> QED BY <1>8, <2>6, <2>7, <2>8, <2>9, <2>12, StepInv
<1>11. ASSUME ib \notin inb, inb' \in {inb, inb \cup {ib}}, Go(i, "undo"), astrayI' = astrayI \cup (inb' \ inb)
       PROVE  XuiInv'
  <2>1. Same(i) /\ w'[i].at = "undo" /\ w'[i].tmpl = w[i].tmpl
    BY <1>1, <1>11, GoSame DEF WorkAt
  <2>2. Data'
    BY <1>1, <1>5, <1>7, <1>11, <2>1 DEF XuiInv, Data, DbOK, PanelOK, CheckOK, AstrayOK, Same
  <2>3. Suits(i)
    <3>1. \A j \in Workers \ {i} : w[j].made \subseteq inb /\ w[i].made \cap w[j].made = {}
      BY DEF XuiInv, Own, MadeOK
    <3> QED BY <1>2, <1>5, <1>11, <2>1, <3>1 DEF Suits, Same, Keyed
  <2>4. Known(i)
    BY <1>5, <1>11, <2>1 DEF Known, Same
  <2>5. LiveInv'
    BY <1>1, <1>5, <2>3, LiveStep DEF LiveInv
  <2>6. WorkOK(i)'
    BY <1>1, <1>2, <2>1 DEF Own, WorkOK, Course, Writes, Same
  <2>7. MadeOK(i)'
    BY <1>1, <1>2, <1>11, <2>1 DEF Own, MadeOK, Same
  <2>8. Own(i)'
    BY <1>2, <2>1, <2>6, <2>7, CreateOwn DEF Same
  <2> QED BY <1>8, <2>2, <2>3, <2>4, <2>5, <2>8, StepInv
<1> QED BY <1>6, <1>9, <1>10, <1>11

LEMMA SaveKeysStep ==
  ASSUME XuiInv, NEW i \in Workers, SaveKeys(i)
  PROVE  XuiInv'
<1> USE DEF db, panel, astray
<1> DEFINE c == w[i].chain
<1>1. WorkersOK /\ Own(i) /\ LeftOK /\ PanelOK /\ LiveInv /\ DbOK /\ w[i].at = "keys" /\ w[i] \in Worker
  BY DEF XuiInv, Data, SaveKeys, WorkersOK
<1>2. w[i].op = "create" /\ c \in Chains /\ w[i].made \in SUBSET Tags /\ w[i].added = {}
  BY <1>1 DEF Own, WorkOK, AddedOK, Course, Worker
<1>3. UNCHANGED <<chain, chan, pairs, nodes, txn, panel, hc, users, left, raced>>
  BY DEF SaveKeys
<1>4. \/ chan[c] = Chs /\ keyed' = [keyed EXCEPT ![c] = Chs] /\ Go(i, "build") /\ UNCHANGED astray
      \/ UNCHANGED keyed /\ Go(i, "undo") /\ UNCHANGED astray
      \/ UNCHANGED keyed /\ Stop(i) /\ astrayI' = astrayI \cup w[i].made /\ UNCHANGED astrayC
  BY DEF SaveKeys
<1>5. RowsInv' /\ NodesHaveClients'
  BY <1>3, <1>4 DEF XuiInv, RowsInv, NodesHaveClients
<1>6. ASSUME chan[c] = Chs, keyed' = [keyed EXCEPT ![c] = Chs], Go(i, "build"), UNCHANGED astray
      PROVE  XuiInv'
  <2>1. Same(i) /\ w'[i].at = "build" /\ w'[i].tmpl = w[i].tmpl
    BY <1>1, <1>6, GoSame DEF WorkAt
  <2>2. /\ keyed' \in [Chains -> SUBSET Chs] /\ keyed'[c] = Chs
        /\ \A d \in Chains : keyed[d] \subseteq keyed'[d] /\ keyed'[d] \subseteq chan[d]
    BY <1>1, <1>2, <1>6 DEF DbOK
  <2>3. Data'
    BY <1>3, <1>6, <2>1, <2>2 DEF XuiInv, Data, DbOK, PanelOK, CheckOK, AstrayOK, LeftOK, Same
  <2>4. Suits(i)
    <3>1. \A j \in Workers \ {i} : w[j].made \subseteq inb /\ w[i].made \cap w[j].made = {}
      BY DEF XuiInv, Own, MadeOK
    <3>2. \A x \in inb : Keyed(x) => Keyed(x)'
      BY <1>1, <1>6, <2>2 DEF Keyed, PanelOK, Tags
    <3> QED BY <1>2, <1>3, <1>6, <2>1, <3>1, <3>2 DEF Suits, Same
  <2>5. Known(i)
    BY <1>3, <1>6, <2>1 DEF Known, Same
  <2>6. LiveInv'
    BY <1>1, <1>3, <2>4, LiveStep DEF LiveInv
  <2>7. WorkOK(i)'
    BY <1>1, <1>2, <2>1 DEF Own, WorkOK, Course, Writes, Same
  <2>8. MadeOK(i)'
    <3>1. \A x \in w[i].made : Keyed(x)'
      BY <1>1, <1>2, <2>2 DEF Own, MadeOK, Keyed, Tags
    <3> QED BY <1>1, <1>2, <1>3, <2>1, <3>1 DEF Own, MadeOK, Same
  <2>9. Own(i)'
    BY <1>2, <2>1, <2>7, <2>8, CreateOwn DEF Same
  <2> QED BY <1>5, <2>3, <2>4, <2>5, <2>6, <2>9, StepInv
<1>7. ASSUME UNCHANGED keyed, Go(i, "undo"), UNCHANGED astray
      PROVE  XuiInv'
  <2>1. Same(i) /\ w'[i].at = "undo" /\ w'[i].tmpl = w[i].tmpl
    BY <1>1, <1>7, GoSame DEF WorkAt
  <2>2. Own(i)'
    BY <1>1, <1>2, <1>3, <1>7, <2>1, QuietOwn DEF Course
  <2> QED BY <1>1, <1>3, <1>7, <2>1, <2>2, QuietStep DEF PanelOK, LiveInv, LeftOK
<1>8. ASSUME UNCHANGED keyed, Stop(i), astrayI' = astrayI \cup w[i].made, UNCHANGED astrayC
      PROVE  XuiInv'
  <2>1. w'[i] = Idle /\ WorkersOK' /\ \A j \in Workers \ {i} : w'[j] = w[j]
    BY <1>1, <1>8, StopFacts
  <2>2. Data'
    BY <1>2, <1>3, <1>8, <2>1 DEF XuiInv, Data, DbOK, PanelOK, CheckOK, AstrayOK, LeftOK
  <2>3. Suits(i)
    <3>1. \A j \in Workers \ {i} : w[j].made \subseteq inb
      BY DEF XuiInv, Own, MadeOK
    <3> QED BY <1>2, <1>3, <1>8, <2>1, <3>1 DEF Suits, Keyed, Idle
  <2>4. Known(i)
    BY <1>2, <1>3, <1>8, <2>1 DEF Known, Keyed
  <2>5. LiveInv'
    BY <1>1, <1>3, <2>3, LiveStep DEF LiveInv
  <2> QED BY <1>5, <2>1, <2>2, <2>3, <2>4, <2>5, IdleOwn, StepInv
<1> QED BY <1>4, <1>6, <1>7, <1>8

\* An orchestration that ends: what it made is known of, and its clients are given out or gone.
LEMMA EndStep ==
  ASSUME XuiInv, NEW i \in Workers, Stop(i), UNCHANGED <<panel, hc, users, left>>,
         DbOK', AstrayOK', RowsInv', NodesHaveClients', LiveInv',
         \A j \in Workers \ {i} : txn = j => txn' = j,
         astrayI \subseteq astrayI', astrayC \subseteq astrayC', raced \subseteq raced',
         \A x \in inb : Keyed(x) => Keyed(x)',
         \A x \in w[i].made : Keyed(x)',
         \A t \in w[i].added : t \in pcl => t \in pairs' \cup astrayC',
         \A t \in pairs \ pairs' : t \in pcl => t \in astrayC',
         \A t \in pairs' \ pairs : Mine(i, t),
         chan' = chan \/ MayWrite(i), nodes' \subseteq nodes,
         txn \in {NoWorker, i} \/ pairs' \cap nodes' \subseteq pairs \cap nodes
  PROVE  XuiInv'
<1> USE DEF panel
<1>1. WorkersOK
  BY DEF XuiInv, Data
<1>2. w'[i] = Idle /\ WorkersOK' /\ \A j \in Workers \ {i} : w'[j] = w[j]
  BY <1>1, StopFacts
<1>3. Data'
  BY <1>2 DEF XuiInv, Data, PanelOK, CheckOK, LeftOK
<1>4. Suits(i)
  <2>1. \A j \in Workers \ {i} : w[j].made \subseteq inb
    BY DEF XuiInv, Own, MadeOK
  <2> QED BY <1>2, <2>1 DEF Suits, Idle
<1>5. Known(i)
  BY <1>2 DEF Known
<1> QED BY <1>2, <1>3, <1>4, <1>5, IdleOwn, StepInv

LEMMA FinishStep ==
  ASSUME XuiInv, NEW i \in Workers, Finish(i)
  PROVE  XuiInv'
<1> USE DEF panel, astray
<1> DEFINE c == w[i].chain
<1>1. WorkersOK /\ Own(i) /\ LiveInv /\ DbOK /\ w[i].at = "finish" /\ w[i] \in Worker /\ AstrayOK
  BY DEF XuiInv, Data, Finish, WorkersOK
<1>2. w[i].op = "create" /\ c \in Chains /\ w[i].made \in SUBSET Tags /\ w[i].added = {}
      /\ \A x \in w[i].made : Keyed(x)
  BY <1>1 DEF Own, WorkOK, AddedOK, MadeOK, Course, Worker
<1>3. /\ UNCHANGED <<chan, keyed, pairs, nodes, txn, panel, hc, users, left, raced, astrayC>> /\ Stop(i)
      /\ chain' = chain \/ (chain[c] # "none" /\ chain' = [chain EXCEPT ![c] = "deployed"])
      /\ astrayI' \in {astrayI, astrayI \cup w[i].made}
  BY DEF Finish
<1>4. chain' \in [Chains -> Status] /\ \A d \in Chains : chain'[d] = "none" => chain[d] = "none"
  BY <1>1, <1>2, <1>3 DEF DbOK, Status
<1>5. DbOK' /\ AstrayOK'
  BY <1>1, <1>2, <1>3, <1>4 DEF DbOK, AstrayOK
<1>6. RowsInv' /\ NodesHaveClients' /\ LiveInv'
  BY <1>3, <1>4 DEF XuiInv, RowsInv, NodesHaveClients, LiveInv
<1> QED BY <1>2, <1>3, <1>5, <1>6, EndStep DEF Keyed

LEMMA FailStep ==
  ASSUME XuiInv, NEW i \in Workers, Fail(i)
  PROVE  XuiInv'
<1> USE DEF panel, astray
<1> DEFINE c == w[i].chain
<1>1. WorkersOK /\ Own(i) /\ LiveInv /\ DbOK /\ w[i].at = "fail" /\ w[i] \in Worker /\ AstrayOK
  BY DEF XuiInv, Data, Fail, WorkersOK
<1>2. w[i].op = "create" /\ c \in Chains /\ w[i].made = {} /\ w[i].added = {}
  BY <1>1 DEF Own, WorkOK, AddedOK, MadeOK, Course
<1>3. /\ UNCHANGED <<chan, keyed, pairs, nodes, txn, panel, hc, users, left, raced, astray>> /\ Stop(i)
      /\ chain' = chain \/ (chain[c] # "none" /\ chain' = [chain EXCEPT ![c] = "failed"])
  BY DEF Fail
<1>4. chain' \in [Chains -> Status] /\ \A d \in Chains : chain'[d] = "none" => chain[d] = "none"
  BY <1>1, <1>2, <1>3 DEF DbOK, Status
<1>5. DbOK' /\ AstrayOK'
  BY <1>1, <1>2, <1>3, <1>4 DEF DbOK, AstrayOK
<1>6. RowsInv' /\ NodesHaveClients' /\ LiveInv'
  BY <1>3, <1>4 DEF XuiInv, RowsInv, NodesHaveClients, LiveInv
<1> QED BY <1>2, <1>3, <1>5, <1>6, EndStep DEF Keyed

LEMMA UndoStep ==
  ASSUME XuiInv, NEW i \in Workers, Undo(i)
  PROVE  XuiInv'
<1> USE DEF db, astray
<1>1. WorkersOK /\ Own(i) /\ LeftOK /\ PanelOK /\ LiveInv /\ w[i].at = "undo" /\ w[i] \in Worker
  BY DEF XuiInv, Data, Undo, WorkersOK
<1>2. /\ w[i].op = "create" /\ w[i].chain \in Chains /\ w[i].added = {} /\ w[i].made \subseteq inb
      /\ \A x \in w[i].made : x[2] = w[i].chain
  BY <1>1 DEF Own, WorkOK, AddedOK, MadeOK, Course
<1>3. UNCHANGED <<db, tmpl, conf, hc, users, raced>>
  BY DEF Undo, panel, Call
<1>4. RowsInv' /\ NodesHaveClients'
  BY <1>3 DEF XuiInv, RowsInv, NodesHaveClients
<1>5. ASSUME w[i].made = {}, Go(i, "fail"), UNCHANGED <<panel, left, astray>>
      PROVE  XuiInv'
  <2>1. Same(i) /\ w'[i].at = "fail" /\ w'[i].tmpl = w[i].tmpl
    BY <1>1, <1>5, GoSame DEF WorkAt
  <2>2. WorkOK(i)' /\ MadeOK(i)'
    BY <1>1, <1>2, <1>5, <2>1 DEF Own, WorkOK, MadeOK, Course, Writes, Same
  <2>3. Own(i)'
    BY <1>2, <2>1, <2>2, CreateOwn DEF Same
  <2> QED BY <1>1, <1>3, <1>5, <2>1, <2>3, QuietStep DEF PanelOK, LiveInv, LeftOK, panel
<1>6. ASSUME NEW ib \in w[i].made, w' = [w EXCEPT ![i].made = @ \ {ib}], inb' \in {inb, inb \ {ib}},
             pcl' \subseteq pcl, astrayC' = astrayC \cup (pcl \ pcl'),
             left' = left \/ Spend("fault"), astrayI \subseteq astrayI', astrayI' \subseteq astrayI \cup {ib},
             ib \in inb' => ib \in astrayI'
      PROVE  XuiInv'
  <2>1. PICK x \in Worker : x = [w[i] EXCEPT !.made = @ \ {ib}]
    BY <1>1 DEF Worker
  <2>2. w' = [w EXCEPT ![i] = x]
    BY <1>1, <1>6, <2>1 DEF WorkersOK
  <2>3. w'[i] = x /\ WorkersOK' /\ \A j \in Workers \ {i} : w'[j] = w[j]
    BY <1>1, <2>2, Becomes
  <2>4. /\ x.at = "undo" /\ x.made = w[i].made \ {ib} /\ x.op = w[i].op /\ x.chain = w[i].chain
        /\ x.added = w[i].added /\ x.tmpl = w[i].tmpl
    BY <1>1, <2>1 DEF Worker
  <2>5. LeftOK' /\ ib \in Tags
    BY <1>1, <1>6, FaultLeft DEF Worker
  <2>6. Data'
    BY <1>1, <1>3, <1>6, <2>3, <2>5 DEF XuiInv, Data, DbOK, PanelOK, CheckOK, AstrayOK
  <2>7. Suits(i)
    <3>1. \A j \in Workers \ {i} : w[j].made \subseteq inb /\ w[i].made \cap w[j].made = {}
      BY DEF XuiInv, Own, MadeOK
    <3>2. \A y \in inb : Keyed(y) => Keyed(y)'
      BY <1>3, <1>6 DEF Keyed
    <3> QED BY <1>2, <1>3, <1>6, <2>3, <2>4, <3>1, <3>2 DEF Suits
  <2>8. Known(i)
    BY <1>2, <1>3, <1>6, <2>3, <2>4 DEF Known, Keyed
  <2>9. LiveInv'
    BY <1>1, <1>3, <2>7, LiveStep DEF LiveInv
  <2>10. WorkOK(i)' /\ MadeOK(i)'
    BY <1>1, <1>2, <1>6, <2>3, <2>4 DEF Own, WorkOK, MadeOK, Course, Writes
  <2>11. Own(i)'
    BY <1>2, <2>3, <2>4, <2>10, CreateOwn
  <2> QED BY <1>4, <2>6, <2>7, <2>8, <2>9, <2>11, StepInv
<1>7. CASE w[i].made = {}
  BY <1>5, <1>7 DEF Undo
<1>8. CASE w[i].made # {}
  <2> DEFINE exits == {x \in w[i].made : x[1] = "exit"}
  <2>1. PICK ib \in w[i].made : ib = CHOOSE x \in IF exits # {} THEN exits ELSE w[i].made : TRUE
    BY <1>8
  <2>2. /\ w' = [w EXCEPT ![i].made = @ \ {ib}] /\ astrayC' = astrayC \cup (pcl \ pcl')
        /\ \/ inb' = inb \ {ib} /\ pcl' \subseteq pcl
           \/ inb' = inb /\ pcl' = pcl
        /\ \/ inb' = inb \ {ib} /\ UNCHANGED <<left, astrayI>>
           \/ Spend("fault") /\ astrayI' = astrayI \cup ({ib} \cap inb')
    BY <1>8, <2>1 DEF Undo, Call, OfChannel
  <2> QED BY <1>6, <2>2
<1> QED BY <1>7, <1>8

\* An orchestration that begins has nothing on the panels yet.
LEMMA BeginStep ==
  ASSUME XuiInv, NEW i \in Workers, w[i] = Idle, NEW x \in Worker, w' = [w EXCEPT ![i] = x], x.made = {},
         UNCHANGED <<pairs, nodes, panel, hc, astrayI, raced>>,
         DbOK', LeftOK', AstrayOK', RowsInv', Own(i)',
         users' \subseteq users, astrayC \subseteq astrayC',
         \A j \in Workers \ {i} : txn = j => txn' = j,
         \A y \in inb : Keyed(y) => Keyed(y)', chan' = chan \/ MayWrite(i),
         x.op = "client" => x.client \in users
  PROVE  XuiInv'
<1> USE DEF panel
<1>1. WorkersOK
  BY DEF XuiInv, Data
<1>2. w'[i] = x /\ WorkersOK' /\ \A j \in Workers \ {i} : w'[j] = w[j]
  BY <1>1, Becomes
<1>3. Data'
  BY <1>2 DEF XuiInv, Data, PanelOK, CheckOK
<1>4. Suits(i)
  <2>1. \A j \in Workers \ {i} : w[j].made \subseteq inb
    BY DEF XuiInv, Own, MadeOK
  <2> QED BY <1>2, <2>1 DEF Suits
<1>5. Known(i)
  BY <1>2 DEF Known, Idle
<1>6. LiveInv' /\ NodesHaveClients'
  BY DEF XuiInv, LiveInv, NodesHaveClients
<1> QED BY <1>2, <1>3, <1>4, <1>5, <1>6, StepInv

LEMMA NewChain ==
  ASSUME DbOK, Rows # {}
  PROVE  Max(Rows) + 1 \notin Rows
<1>1. Rows \in SUBSET Nat /\ IsFiniteSet(Rows)
  BY IdsAssumption, FS_Subset DEF Rows
<1>2. Max(Rows) \in Rows /\ \A k \in Rows : k <= Max(Rows)
  BY <1>1, MaxFacts
<1>3. PICK m \in Nat : m = Max(Rows)
  BY <1>1, <1>2
<1>4. ~(m + 1 <= m)
  OBVIOUS
<1> QED BY <1>2, <1>3, <1>4

LEMMA CreateBeginStep ==
  ASSUME XuiInv, NEW i \in Workers, CreateBegin(i)
  PROVE  XuiInv'
<1>1. WorkersOK /\ Own(i) /\ LeftOK /\ DbOK /\ w[i] = Idle /\ AstrayOK
  BY DEF XuiInv, Data, CreateBegin, Own, WorkOK
<1>2. PICK c \in Chains : c = IF Rows = {} THEN 1 ELSE Max(Rows) + 1
  BY DEF CreateBegin
<1>3. /\ Spend("create") /\ MayWrite(i)
      /\ chain' = [chain EXCEPT ![c] = "pending"] /\ chan' = [chan EXCEPT ![c] = Chs]
      /\ keyed' = [keyed EXCEPT ![c] = {}]
      /\ w' = [w EXCEPT ![i] = [Idle EXCEPT !.at = "exit", !.op = "create", !.chain = c, !.todo = Chs]]
      /\ UNCHANGED <<pairs, nodes, txn, panel, hc, users, astray, raced>>
  BY <1>2 DEF CreateBegin
<1>4. chan[c] = {} /\ keyed[c] = {}
  <2>1. c \notin Rows
    BY <1>1, <1>2, NewChain
  <2> QED BY <1>1, <2>1 DEF XuiInv, RowsInv, DbOK, Rows
<1>5. keyed' = keyed /\ chan' \in [Chains -> SUBSET Chs] /\ chain' \in [Chains -> Status]
      /\ (\A d \in Chains \ {c} : chan'[d] = chan[d] /\ chain'[d] = chain[d]) /\ chain'[c] = "pending" /\ chan'[c] = Chs
  BY <1>1, <1>3, <1>4 DEF DbOK, Status
<1>6. DbOK' /\ AstrayOK'
  BY <1>1, <1>3, <1>4, <1>5 DEF DbOK, AstrayOK, astray
<1>7. LeftOK'
  BY <1>1, <1>3, Kinds, SpendFacts
<1>8. RowsInv'
  BY <1>1, <1>3, <1>4, <1>5 DEF XuiInv, RowsInv, DbOK, Triples
<1>9. PICK x \in Worker : x = [Idle EXCEPT !.at = "exit", !.op = "create", !.chain = c, !.todo = Chs]
  <2>1. [Idle EXCEPT !.at = "exit", !.op = "create", !.chain = c, !.todo = Chs] \in Worker
    BY DEF Idle, Worker, WorkAt, Ops
  <2> QED BY <2>1
<1>10. w' = [w EXCEPT ![i] = x]
  BY <1>3, <1>9
<1>11. x.at = "exit" /\ x.op = "create" /\ x.chain = c /\ x.todo = Chs /\ x.made = {} /\ x.added = {} /\ x.tmpl = {}
  BY <1>9 DEF Idle
<1>12. w'[i] = x
  BY <1>1, <1>10, Becomes
<1>13. WorkOK(i)' /\ MadeOK(i)'
  BY <1>11, <1>12, IdsAssumption DEF WorkOK, MadeOK, Course, Writes
<1>14. Own(i)'
  BY <1>11, <1>12, <1>13, CreateOwn
<1> QED BY <1>1, <1>3, <1>5, <1>6, <1>7, <1>8, <1>10, <1>11, <1>14, BeginStep DEF Keyed, astray

-----------------------------------------------------------------------------
(* Deleting a chain or a channel.                                           *)

LEMMA DeleteBeginStep ==
  ASSUME XuiInv, NEW i \in Workers, DeleteBegin(i)
  PROVE  XuiInv'
<1>1. WorkersOK /\ Own(i) /\ LeftOK /\ DbOK /\ w[i] = Idle /\ AstrayOK
  BY DEF XuiInv, Data, DeleteBegin, Own, WorkOK
<1>2. PICK c \in Rows :
        w' = [w EXCEPT ![i] = [Idle EXCEPT !.op = "delete", !.chain = c,
                         !.at = IF Rows = {c} THEN "clear" ELSE "push",
                         !.tmpl = RelayTemplate(Rows \ {c}, chan, 0)]]
  BY DEF DeleteBegin
<1>3. Spend("delete") /\ UNCHANGED <<db, panel, hc, users, astray, raced>>
  BY DEF DeleteBegin, DelInbounds, panel
<1>4. c \in Chains
  BY <1>2 DEF Rows
<1>5. PICK t \in SUBSET Routes : t = RelayTemplate(Rows \ {c}, chan, 0) /\ \A r \in t : r[3]
  BY TemplateFacts
<1>6. PICK at \in {"clear", "push"} : at = IF Rows = {c} THEN "clear" ELSE "push"
  OBVIOUS
<1>7. PICK x \in Worker : x = [Idle EXCEPT !.op = "delete", !.chain = c, !.at = at, !.tmpl = t]
  <2>1. [Idle EXCEPT !.op = "delete", !.chain = c, !.at = at, !.tmpl = t] \in Worker
    BY <1>4 DEF Idle, Worker, WorkAt, Ops
  <2> QED BY <2>1
<1>8. w' = [w EXCEPT ![i] = x]
  BY <1>2, <1>5, <1>6, <1>7
<1>9. x.at = at /\ x.op = "delete" /\ x.chain = c /\ x.made = {} /\ x.added = {} /\ x.tmpl = t
  BY <1>7 DEF Idle
<1>10. w'[i] = x
  BY <1>1, <1>8, Becomes
<1>11. LeftOK' /\ DbOK' /\ AstrayOK' /\ RowsInv'
  BY <1>1, <1>3, Kinds, SpendFacts DEF XuiInv, DbOK, AstrayOK, RowsInv, db, astray
<1>12. Own(i)'
  BY <1>4, <1>5, <1>9, <1>10 DEF Own, WorkOK, MadeOK, AddedOK, NodesOK, Course, Writes
<1> QED BY <1>1, <1>3, <1>8, <1>9, <1>11, <1>12, BeginStep DEF Keyed, astray, db

LEMMA ChannelBeginStep ==
  ASSUME XuiInv, NEW i \in Workers, ChannelBegin(i)
  PROVE  XuiInv'
<1>1. WorkersOK /\ Own(i) /\ LeftOK /\ DbOK /\ w[i] = Idle /\ AstrayOK
  BY DEF XuiInv, Data, ChannelBegin, Own, WorkOK
<1> DEFINE Begun(c, h) ==
     /\ txn' = i
     /\ w' = [w EXCEPT ![i] =
            [Idle EXCEPT !.op = "channel", !.chain = c, !.ch = h, !.todo = chan[c] \ {h},
                         !.nodes = OfChannel(pairs, c, h) \cap nodes,
                         !.at = IF h \notin keyed[c] THEN "commit"
                                ELSE IF chan[c] = {h} THEN "clear" ELSE "push",
                         !.tmpl = RelayTemplate(Rows, [chan EXCEPT ![c] = @ \ {h}], c)]]
<1>a. PICK c \in Rows : \E h \in chan[c] : Begun(c, h)
  BY DEF ChannelBegin
<1>2. PICK h \in chan[c] : Begun(c, h)
  BY <1>a
<1>3. Spend("channel") /\ txn = NoWorker /\ UNCHANGED <<chain, chan, keyed, pairs, nodes, panel, hc, users, astray, raced>>
  BY DEF ChannelBegin, DelInbounds, panel
<1>4. c \in Chains /\ h \in Chs /\ chan[c] \in SUBSET Chs
  BY <1>1, <1>2 DEF Rows, DbOK
<1>5. PICK t \in SUBSET Routes : t = RelayTemplate(Rows, [chan EXCEPT ![c] = @ \ {h}], c) /\ \A r \in t : r[3]
  BY TemplateFacts
<1>6. PICK at \in {"commit", "clear", "push"} :
        at = IF h \notin keyed[c] THEN "commit" ELSE IF chan[c] = {h} THEN "clear" ELSE "push"
  OBVIOUS
<1>7. PICK ns \in SUBSET Triples : ns = OfChannel(pairs, c, h) \cap nodes
  BY <1>1 DEF DbOK
<1>8. PICK x \in Worker : x = [Idle EXCEPT !.op = "channel", !.chain = c, !.ch = h, !.todo = chan[c] \ {h},
                                           !.nodes = ns, !.at = at, !.tmpl = t]
  <2>1. [Idle EXCEPT !.op = "channel", !.chain = c, !.ch = h, !.todo = chan[c] \ {h},
                     !.nodes = ns, !.at = at, !.tmpl = t] \in Worker
    BY <1>4 DEF Idle, Worker, WorkAt, Ops
  <2> QED BY <2>1
<1>9. w' = [w EXCEPT ![i] = x]
  BY <1>2, <1>5, <1>6, <1>7, <1>8
<1>10. /\ x.at = at /\ x.op = "channel" /\ x.chain = c /\ x.ch = h /\ x.made = {} /\ x.added = {} /\ x.tmpl = t
       /\ x.nodes = ns
  BY <1>8 DEF Idle
<1>11. w'[i] = x
  BY <1>1, <1>9, Becomes
<1>12. LeftOK' /\ DbOK' /\ AstrayOK' /\ RowsInv'
  BY <1>1, <1>2, <1>3, Kinds, SpendFacts DEF XuiInv, DbOK, AstrayOK, RowsInv, astray
<1>13. Own(i)'
  <2>1. WorkOK(i)' /\ MadeOK(i)' /\ AddedOK(i)'
    BY <1>2, <1>4, <1>5, <1>10, <1>11 DEF WorkOK, MadeOK, AddedOK, Course, Writes
  <2>2. NodesOK(i)'
    BY <1>3, <1>7, <1>10, <1>11 DEF NodesOK, OfChannel
  <2> QED BY <2>1, <2>2 DEF Own
<1>14. \A j \in Workers \ {i} : txn = j => txn' = j
  BY <1>3, WorkersAssumption
<1> QED BY <1>1, <1>3, <1>9, <1>10, <1>12, <1>13, <1>14, BeginStep DEF Keyed, astray

\* The rows of a chain go, and PiTun lets go of what the panels still hold of it.
LEMMA ChainGoes ==
  ASSUME XuiInv, NEW c \in Chains, LetGo(c, chan[c]),
         chain' = [chain EXCEPT ![c] = "none"], chan' = [chan EXCEPT ![c] = {}],
         keyed' = [keyed EXCEPT ![c] = {}], pairs' = pairs \ OfChain(pairs, c),
         UNCHANGED <<txn, panel, hc, users, left>>, nodes' \subseteq nodes, raced' \subseteq raced \cup nodes,
         raced \subseteq raced', \A n \in nodes' : n \in OfChain(pairs, c) => n \in raced'
  PROVE  /\ DbOK' /\ AstrayOK' /\ RowsInv' /\ LiveInv' /\ NodesHaveClients'
         /\ astrayI \subseteq astrayI' /\ astrayC \subseteq astrayC' /\ pairs' \subseteq pairs
         /\ \A x \in inb : Keyed(x) => Keyed(x)'
         /\ \A t \in pairs \ pairs' : t \in pcl => t \in astrayC'
<1>1. DbOK /\ AstrayOK /\ PanelOK /\ RowsInv /\ LiveInv /\ NodesHaveClients
  BY DEF XuiInv, Data
<1>2. /\ chain' \in [Chains -> Status] /\ chan' \in [Chains -> SUBSET Chs] /\ keyed' \in [Chains -> SUBSET Chs]
      /\ chain'[c] = "none" /\ chan'[c] = {} /\ keyed'[c] = {}
      /\ \A d \in Chains \ {c} : chain'[d] = chain[d] /\ chan'[d] = chan[d] /\ keyed'[d] = keyed[d]
  BY <1>1 DEF DbOK, Status
<1>3. DbOK'
  BY <1>1, <1>2 DEF DbOK, OfChain
<1>4. AstrayOK' /\ astrayI \subseteq astrayI' /\ astrayC \subseteq astrayC'
  BY <1>1 DEF AstrayOK, LetGo, PanelOK, DbOK
<1>5. \A t \in pairs : t \in Triples /\ t[1] \in Chains /\ t[2] \in chan[t[1]]
  BY <1>1 DEF DbOK, RowsInv, Triples
<1>6. RowsInv'
  BY <1>1, <1>2, <1>5 DEF RowsInv, OfChain
<1>7. LiveInv' /\ NodesHaveClients'
  BY <1>1, <1>4 DEF LiveInv, NodesHaveClients, panel
<1>8. \A x \in inb : Keyed(x) => Keyed(x)'
  BY <1>1, <1>2 DEF Keyed, LetGo, PanelOK, DbOK, Tags
<1>9. \A t \in pairs \ pairs' : t \in pcl => t \in astrayC'
  BY <1>5 DEF LetGo, OfChain
<1> QED BY <1>3, <1>4, <1>6, <1>7, <1>8, <1>9

LEMMA DeleteCommitStep ==
  ASSUME XuiInv, NEW i \in Workers, DeleteCommit(i)
  PROVE  XuiInv'
<1> DEFINE c == w[i].chain
<1>1. Own(i) /\ w[i].at = "commit" /\ w[i].op = "delete" /\ DbOK
  BY DEF XuiInv, Data, DeleteCommit
<1>2. c \in Chains /\ w[i].made = {} /\ w[i].added = {}
  BY <1>1 DEF Own, WorkOK, MadeOK, AddedOK
<1>3. /\ MayWrite(i) /\ Stop(i) /\ LetGo(c, chan[c])
      /\ chain' = [chain EXCEPT ![c] = "none"] /\ chan' = [chan EXCEPT ![c] = {}]
      /\ keyed' = [keyed EXCEPT ![c] = {}] /\ pairs' = pairs \ OfChain(pairs, c)
      /\ nodes' = nodes \ OfChain(pairs, c)
      /\ UNCHANGED <<txn, panel, hc, users, left, raced>>
  BY DEF DeleteCommit
<1>4. /\ DbOK' /\ AstrayOK' /\ RowsInv' /\ LiveInv' /\ NodesHaveClients'
      /\ astrayI \subseteq astrayI' /\ astrayC \subseteq astrayC' /\ pairs' \subseteq pairs
      /\ \A x \in inb : Keyed(x) => Keyed(x)'
      /\ \A t \in pairs \ pairs' : t \in pcl => t \in astrayC'
  BY <1>2, <1>3, ChainGoes
<1> QED BY <1>2, <1>3, <1>4, EndStep

LEMMA DropChainStep ==
  ASSUME XuiInv, NEW i \in Workers, DropChain(i)
  PROVE  XuiInv'
<1> DEFINE c == w[i].chain
<1>1. Own(i) /\ w[i].at = "drop" /\ DbOK
  BY DEF XuiInv, Data, DropChain
<1>2. c \in Chains /\ w[i].made = {} /\ w[i].added = {}
  BY <1>1 DEF Own, WorkOK, MadeOK, AddedOK, Course
<1>3. /\ MayWrite(i) /\ Stop(i) /\ LetGo(c, chan[c])
      /\ chain' = [chain EXCEPT ![c] = "none"] /\ chan' = [chan EXCEPT ![c] = {}]
      /\ keyed' = [keyed EXCEPT ![c] = {}] /\ pairs' = pairs \ OfChain(pairs, c)
      /\ raced' = raced \cup (nodes \cap OfChain(pairs, c))
      /\ UNCHANGED <<nodes, txn, panel, hc, users, left>>
  BY DEF DropChain
<1>4. /\ DbOK' /\ AstrayOK' /\ RowsInv' /\ LiveInv' /\ NodesHaveClients'
      /\ astrayI \subseteq astrayI' /\ astrayC \subseteq astrayC' /\ pairs' \subseteq pairs
      /\ \A x \in inb : Keyed(x) => Keyed(x)'
      /\ \A t \in pairs \ pairs' : t \in pcl => t \in astrayC'
  BY <1>2, <1>3, ChainGoes
<1> QED BY <1>2, <1>3, <1>4, EndStep

LEMMA ChannelCommitStep ==
  ASSUME XuiInv, NEW i \in Workers, ChannelCommit(i)
  PROVE  XuiInv'
<1> DEFINE c == w[i].chain
           h == w[i].ch
<1>1. Own(i) /\ w[i].at = "commit" /\ w[i].op = "channel" /\ DbOK /\ PanelOK /\ AstrayOK /\ WorkersOK
      /\ RowsInv /\ LiveInv /\ NodesHaveClients
  BY DEF XuiInv, Data, ChannelCommit
<1>2. c \in Chains /\ h \in Chs /\ w[i].made = {} /\ w[i].added = {} /\ txn = i
      /\ OfChannel(pairs, c, h) \cap nodes \subseteq w[i].nodes
  BY <1>1 DEF Own, WorkOK, MadeOK, AddedOK, NodesOK, Writes
<1>3. /\ LetGo(c, {h})
      /\ chan' = [chan EXCEPT ![c] = @ \ {h}] /\ keyed' = [keyed EXCEPT ![c] = @ \ {h}]
      /\ pairs' = pairs \ OfChannel(pairs, c, h) /\ nodes' = nodes \ w[i].nodes
      /\ txn' = NoWorker /\ (Go(i, "drop") \/ Stop(i))
      /\ UNCHANGED <<chain, panel, hc, users, left, raced>>
  BY DEF ChannelCommit
<1>4. /\ chan' \in [Chains -> SUBSET Chs] /\ keyed' \in [Chains -> SUBSET Chs]
      /\ chan'[c] = chan[c] \ {h} /\ keyed'[c] = keyed[c] \ {h}
      /\ \A d \in Chains \ {c} : chan'[d] = chan[d] /\ keyed'[d] = keyed[d]
  BY <1>1, <1>2, <1>3 DEF DbOK
<1>5. \A t \in pairs : t \in Triples /\ t[1] \in Chains /\ t[2] \in chan[t[1]]
  BY <1>1 DEF DbOK, RowsInv, Triples
<1>6. DbOK'
  BY <1>1, <1>3, <1>4 DEF DbOK
<1>7. AstrayOK' /\ astrayI \subseteq astrayI' /\ astrayC \subseteq astrayC'
  BY <1>1, <1>3 DEF AstrayOK, LetGo, PanelOK
<1>8. RowsInv'
  BY <1>1, <1>3, <1>4, <1>5 DEF RowsInv, OfChannel
<1>9. LiveInv' /\ NodesHaveClients'
  BY <1>1, <1>2, <1>3, <1>7 DEF LiveInv, NodesHaveClients, panel
<1>10. \A x \in inb : Keyed(x) => Keyed(x)'
  BY <1>1, <1>3, <1>4 DEF Keyed, LetGo, PanelOK, Tags
<1>11. \A t \in pairs \ pairs' : t \in pcl => t \in astrayC'
  BY <1>3 DEF LetGo, OfChannel
<1>12. \A j \in Workers \ {i} : txn = j => txn' = j
  BY <1>2
<1>13. CASE Stop(i)
  BY <1>2, <1>3, <1>6, <1>7, <1>8, <1>9, <1>10, <1>11, <1>12, <1>13, EndStep DEF MayWrite
<1>14. ASSUME Go(i, "drop") PROVE XuiInv'
  <2>1. Same(i) /\ w'[i].at = "drop" /\ w'[i].tmpl = w[i].tmpl
    BY <1>1, <1>14, GoSame DEF WorkAt
  <2>2. Data'
    BY <1>3, <1>6, <1>7, <2>1 DEF XuiInv, Data, PanelOK, CheckOK, LeftOK, Same, panel
  <2>3. Suits(i)
    <3>1. \A j \in Workers \ {i} : w[j].made \subseteq inb
      BY DEF XuiInv, Own, MadeOK
    <3> QED BY <1>1, <1>2, <1>3, <1>7, <1>10, <1>12, <2>1, <3>1 DEF Suits, Same, panel, MayWrite
  <2>4. Known(i)
    BY <1>2, <1>3, <1>7, <1>11, <2>1 DEF Known, Same, panel
  <2>5. Own(i)'
    BY <1>1, <1>2, <2>1 DEF Own, WorkOK, MadeOK, AddedOK, NodesOK, Course, Writes, Same
  <2> QED BY <1>8, <1>9, <2>2, <2>3, <2>4, <2>5, StepInv
<1> QED BY <1>3, <1>13, <1>14

-----------------------------------------------------------------------------
(* Clients.                                                                 *)

LEMMA ClientBeginStep ==
  ASSUME XuiInv, NEW i \in Workers, ClientBegin(i)
  PROVE  XuiInv'
<1>1. WorkersOK /\ Own(i) /\ LeftOK /\ DbOK /\ w[i] = Idle /\ AstrayOK /\ users \subseteq Clients
  BY DEF XuiInv, Data, ClientBegin, Own, WorkOK
<1> DEFINE Begun(c, k) ==
       /\ chain[c] = "deployed" /\ chan[c] # {}
       /\ users' = users \ {k} /\ txn' = i
       /\ w' = [w EXCEPT ![i] = [Idle EXCEPT !.op = "client", !.at = "add", !.chain = c,
                                             !.client = k, !.todo = chan[c]]]
<1>a. PICK c \in Rows : \E k \in users : Begun(c, k)
  BY DEF ClientBegin
<1>2. PICK k \in users : Begun(c, k)
  BY <1>a
<1>3. txn = NoWorker /\ UNCHANGED <<chain, chan, keyed, pairs, nodes, panel, hc, left, astray, raced>>
  BY DEF ClientBegin
<1>4. c \in Chains /\ k \in Clients /\ chan[c] \in SUBSET Chs
  BY <1>1, <1>2 DEF Rows, DbOK
<1>5. PICK x \in Worker : x = [Idle EXCEPT !.op = "client", !.at = "add", !.chain = c,
                                             !.client = k, !.todo = chan[c]]
  <2>1. [Idle EXCEPT !.op = "client", !.at = "add", !.chain = c, !.client = k, !.todo = chan[c]] \in Worker
    BY <1>4 DEF Idle, Worker, WorkAt, Ops
  <2> QED BY <2>1
<1>6. w' = [w EXCEPT ![i] = x]
  BY <1>2, <1>5
<1>7. /\ x.at = "add" /\ x.op = "client" /\ x.chain = c /\ x.client = k /\ x.todo = chan[c]
      /\ x.made = {} /\ x.added = {} /\ x.tmpl = {}
  BY <1>5 DEF Idle
<1>8. w'[i] = x
  BY <1>1, <1>6, Becomes
<1>9. LeftOK' /\ DbOK' /\ AstrayOK' /\ RowsInv'
  BY <1>1, <1>2, <1>3 DEF XuiInv, LeftOK, DbOK, AstrayOK, RowsInv, astray
<1>10. \A t \in pairs : t[3] # k
  BY DEF XuiInv, RowsInv
<1>11. Own(i)'
  <2>1. WorkOK(i)' /\ MadeOK(i)' /\ NodesOK(i)'
    BY <1>2, <1>4, <1>7, <1>8 DEF WorkOK, MadeOK, NodesOK, Course, Writes
  <2>2. AddedOK(i)'
    <3>1. k \notin users' /\ chan' = chan /\ pairs' = pairs
      BY <1>2, <1>3
    <3>2. /\ w'[i].op = "client" /\ w'[i].client = k /\ w'[i].todo = chan[c] /\ w'[i].chain = c
          /\ w'[i].added = {}
      BY <1>7, <1>8
    <3> QED BY <1>10, <3>1, <3>2 DEF AddedOK
  <2> QED BY <2>1, <2>2 DEF Own
<1>12. \A j \in Workers \ {i} : txn = j => txn' = j
  BY <1>3, WorkersAssumption
<1> QED BY <1>1, <1>2, <1>3, <1>6, <1>7, <1>9, <1>11, <1>12, BeginStep DEF Keyed, astray

\* A step of a client's own request, on the relay's clients.
LEMMA ClientsStep ==
  ASSUME XuiInv, NEW i \in Workers, NEW x \in Worker, w' = [w EXCEPT ![i] = x],
         UNCHANGED <<astrayI, db, inb, tmpl, conf, hc, users, raced>>, LeftOK',
         x.made = w[i].made, x.op = "client" => w[i].op = "client" /\ x.client = w[i].client,
         pcl' \in SUBSET Triples, astrayC \subseteq astrayC', astrayC' \in SUBSET Triples,
         \A t \in pcl \ pcl' : t \in astrayC' \/ Mine(i, t),
         \A t \in pcl' \ pcl : t \in astrayC' \cup x.added,
         \A t \in w[i].added : t \in pcl' => t \in x.added \cup astrayC',
         Own(i)'
  PROVE  XuiInv'
<1> USE DEF db
<1>1. WorkersOK /\ LiveInv
  BY DEF XuiInv, Data
<1>2. w'[i] = x /\ WorkersOK' /\ \A j \in Workers \ {i} : w'[j] = w[j]
  BY <1>1, Becomes
<1>3. Data'
  BY <1>2 DEF XuiInv, Data, DbOK, PanelOK, CheckOK, AstrayOK
<1>4. Suits(i)
  <2>1. \A j \in Workers \ {i} : w[j].made \subseteq inb /\ w[i].made \cap w[j].made = {}
    BY DEF XuiInv, Own, MadeOK
  <2>2. \A y \in inb : Keyed(y) => Keyed(y)'
    BY DEF Keyed
  <2> QED BY <1>2, <2>1, <2>2 DEF Suits
<1>5. Known(i)
  BY <1>2 DEF Known
<1>6. RowsInv' /\ NodesHaveClients'
  BY DEF XuiInv, RowsInv, NodesHaveClients
<1>7. LiveInv'
  BY <1>1, <1>4, LiveStep DEF LiveInv
<1> QED BY <1>3, <1>4, <1>5, <1>6, <1>7, StepInv

LEMMA GoBecomes ==
  ASSUME WorkersOK, NEW i \in Workers, NEW at \in WorkAt, Go(i, at)
  PROVE  \E x \in Worker : w' = [w EXCEPT ![i] = x] /\ x = [w[i] EXCEPT !.at = at]
<1>1. [w[i] EXCEPT !.at = at] \in Worker
  BY DEF WorkersOK, Worker
<1>2. w' = [w EXCEPT ![i] = [w[i] EXCEPT !.at = at]]
  BY DEF Go, WorkersOK
<1> QED BY <1>1, <1>2

LEMMA AddClientStep ==
  ASSUME XuiInv, NEW i \in Workers, AddClient(i)
  PROVE  XuiInv'
<1> USE DEF db
<1>1. WorkersOK /\ Own(i) /\ LeftOK /\ PanelOK /\ DbOK /\ AstrayOK /\ w[i].at = "add" /\ w[i] \in Worker
  BY DEF XuiInv, Data, AddClient, WorkersOK
<1>2. /\ w[i].op = "client" /\ w[i].chain \in Chains /\ w[i].client \in Clients /\ w[i].todo # {}
      /\ w[i].todo \in SUBSET Chs /\ w[i].todo \subseteq chan[w[i].chain] /\ txn = i /\ w[i].made = {}
  BY <1>1 DEF Own, WorkOK, MadeOK, AddedOK, Course, Worker, Writes
<1>3. PICK h \in w[i].todo : h = Min(w[i].todo)
  BY <1>2, MinFacts, IdsAssumption
<1>4. PICK t \in Triples : t = <<w[i].chain, h, w[i].client>>
  BY <1>2 DEF Triples
<1>5. UNCHANGED <<astrayI, db, inb, tmpl, conf, hc, users, raced>>
  BY DEF AddClient
<1>6. \/ Go(i, "remove") /\ UNCHANGED <<pcl, astrayC, left>>
      \/ /\ pcl' = pcl \cup {t} /\ UNCHANGED <<left, astrayC>>
         /\ w' = [w EXCEPT ![i].todo = @ \ {h}, ![i].added = @ \cup {t},
                           ![i].at = IF w[i].todo = {h} THEN "reload" ELSE "add"]
      \/ /\ Spend("fault") /\ pcl' \in {pcl, pcl \cup {t}}
         /\ Go(i, "remove") /\ astrayC' = astrayC \cup (pcl' \ pcl)
  BY <1>3, <1>4 DEF AddClient, Call
<1>7. LeftOK'
  BY <1>1, <1>6, FaultLeft
<1>8. /\ w[i].client \notin users /\ \A p \in pairs : p[3] # w[i].client
      /\ \A p \in w[i].added : p[1] = w[i].chain /\ p[2] \in chan[p[1]] /\ p[3] = w[i].client
      /\ w[i].added \subseteq pcl \cup astrayC
  BY <1>1, <1>2 DEF Own, AddedOK
<1>9. ASSUME Go(i, "remove"), pcl' \in {pcl, pcl \cup {t}}, astrayC' = astrayC \cup (pcl' \ pcl)
      PROVE  XuiInv'
  <2>1. PICK x \in Worker : w' = [w EXCEPT ![i] = x] /\ x = [w[i] EXCEPT !.at = "remove"]
    BY <1>1, <1>9, GoBecomes DEF WorkAt
  <2>2. /\ x.at = "remove" /\ x.op = "client" /\ x.chain = w[i].chain /\ x.client = w[i].client
        /\ x.made = {} /\ x.added = w[i].added /\ x.tmpl = w[i].tmpl
    BY <1>1, <1>2, <2>1 DEF Worker
  <2>3. w'[i] = x
    BY <1>1, <2>1, Becomes
  <2>4. Own(i)'
    <3>1. WorkOK(i)' /\ MadeOK(i)' /\ NodesOK(i)'
      BY <1>1, <1>2, <1>5, <2>2, <2>3 DEF Own, WorkOK, MadeOK, NodesOK, Course, Writes
    <3>2. AddedOK(i)'
      <4>1. w'[i].op = "client" /\ w'[i].at = "remove" /\ w'[i].client = w[i].client /\ w'[i].added = w[i].added
            /\ w'[i].chain = w[i].chain
        BY <2>2, <2>3
      <4> QED BY <1>5, <1>8, <4>1 DEF AddedOK
    <3> QED BY <3>1, <3>2 DEF Own
  <2>5. pcl' \in SUBSET Triples /\ astrayC' \in SUBSET Triples
    BY <1>1, <1>9 DEF PanelOK, AstrayOK
  <2> QED BY <1>2, <1>5, <1>7, <1>9, <2>1, <2>2, <2>4, <2>5, ClientsStep
<1>10. ASSUME pcl' = pcl \cup {t}, UNCHANGED <<left, astrayC>>,
              w' = [w EXCEPT ![i].todo = @ \ {h}, ![i].added = @ \cup {t},
                             ![i].at = IF w[i].todo = {h} THEN "reload" ELSE "add"]
       PROVE XuiInv'
  <2>1. PICK at \in {"reload", "add"} : at = IF w[i].todo = {h} THEN "reload" ELSE "add"
    OBVIOUS
  <2>2. PICK x \in Worker : x = [w[i] EXCEPT !.todo = @ \ {h}, !.added = @ \cup {t}, !.at = at]
    <3>1. [w[i] EXCEPT !.todo = @ \ {h}, !.added = @ \cup {t}, !.at = at] \in Worker
      BY <1>1 DEF Worker, WorkAt
    <3> QED BY <3>1
  <2>3. w' = [w EXCEPT ![i] = x]
    BY <1>1, <1>10, <2>1, <2>2 DEF WorkersOK
  <2>4. /\ x.at = at /\ x.op = "client" /\ x.chain = w[i].chain /\ x.client = w[i].client
        /\ x.made = {} /\ x.added = w[i].added \cup {t} /\ x.tmpl = w[i].tmpl /\ x.todo = w[i].todo \ {h}
    BY <1>1, <1>2, <2>2 DEF Worker
  <2>5. w'[i] = x
    BY <1>1, <2>3, Becomes
  <2>6. at = "add" => x.todo # {}
    BY <2>1, <2>4
  <2>7. Own(i)'
    <3>1. WorkOK(i)' /\ MadeOK(i)' /\ NodesOK(i)'
      BY <1>1, <1>2, <1>5, <2>4, <2>5, <2>6 DEF Own, WorkOK, MadeOK, NodesOK, Course, Writes
    <3>2. AddedOK(i)'
      <4>1. /\ w'[i].op = "client" /\ w'[i].at \in {"reload", "add"} /\ w'[i].client = w[i].client
            /\ w'[i].added = w[i].added \cup {t} /\ w'[i].chain = w[i].chain /\ w'[i].todo \subseteq w[i].todo
        BY <2>4, <2>5
      <4>2. t[1] = w[i].chain /\ t[2] \in chan[t[1]] /\ t[3] = w[i].client
        BY <1>2, <1>4
      <4>3. /\ users' = users /\ pairs' = pairs /\ chan' = chan /\ w[i].todo \subseteq chan[w[i].chain]
            /\ w[i].added \cup {t} \subseteq pcl' \cup astrayC'
        BY <1>2, <1>5, <1>8, <1>10
      <4>4. \A p \in w'[i].added : p[1] = w[i].chain /\ p[2] \in chan[p[1]] /\ p[3] = w[i].client
        BY <1>8, <4>1, <4>2
      <4> QED BY <1>8, <4>1, <4>3, <4>4 DEF AddedOK
    <3> QED BY <3>1, <3>2 DEF Own
  <2>8. pcl' \in SUBSET Triples /\ astrayC' \in SUBSET Triples
    BY <1>1, <1>10 DEF PanelOK, AstrayOK
  <2> QED BY <1>2, <1>5, <1>7, <1>10, <2>3, <2>4, <2>7, <2>8, ClientsStep
<1>11. CASE Go(i, "remove") /\ UNCHANGED <<pcl, astrayC, left>>
  BY <1>9, <1>11
<1> QED BY <1>6, <1>9, <1>10, <1>11

LEMMA RemoveClientsStep ==
  ASSUME XuiInv, NEW i \in Workers, RemoveClients(i)
  PROVE  XuiInv'
<1> USE DEF db
<1>1. WorkersOK /\ Own(i) /\ LeftOK /\ PanelOK /\ AstrayOK /\ w[i].at = "remove" /\ w[i] \in Worker
  BY DEF XuiInv, Data, RemoveClients, WorkersOK
<1>2. w[i].op \in {"client", "unclient"} /\ w[i].chain \in Chains /\ w[i].made = {} /\ w[i].client \in Clients
  BY <1>1 DEF Own, WorkOK, MadeOK, Course
<1>3. UNCHANGED <<astrayI, db, inb, tmpl, conf, hc, users, raced>>
  BY DEF RemoveClients, Call, panel, astray
<1>4. ASSUME w[i].added = {},
             w' = [w EXCEPT ![i].at = "reload", ![i].op = IF @ = "client" THEN "failed" ELSE @],
             UNCHANGED <<pcl, left, astrayC>>
      PROVE XuiInv'
  <2>1. PICK op \in {"failed", "unclient"} : op = IF w[i].op = "client" THEN "failed" ELSE w[i].op
    BY <1>2
  <2>2. PICK x \in Worker : x = [w[i] EXCEPT !.at = "reload", !.op = op]
    <3>1. [w[i] EXCEPT !.at = "reload", !.op = op] \in Worker
      BY <1>1 DEF Worker, WorkAt, Ops
    <3> QED BY <3>1
  <2>3. w' = [w EXCEPT ![i] = x]
    BY <1>1, <1>4, <2>1, <2>2 DEF WorkersOK
  <2>4. /\ x.at = "reload" /\ x.op = op /\ x.chain = w[i].chain /\ x.client = w[i].client
        /\ x.made = {} /\ x.added = {} /\ x.tmpl = w[i].tmpl /\ x.nodes = w[i].nodes
    BY <1>1, <1>2, <1>4, <2>2 DEF Worker
  <2>5. w'[i] = x /\ \A j \in Workers \ {i} : w'[j] = w[j]
    BY <1>1, <2>3, Becomes
  <2>6. Own(i)'
    <3>1. WorkOK(i)' /\ MadeOK(i)' /\ NodesOK(i)'
      BY <1>1, <1>2, <1>3, <2>1, <2>4, <2>5 DEF Own, WorkOK, MadeOK, NodesOK, Course, Writes
    <3>2. ASSUME op = "unclient"
          PROVE  /\ w[i].op = "unclient" /\ w[i].client \notin users
                 /\ \A p \in pairs : p[3] = w[i].client => p \in astrayC
                 /\ \A j \in Workers : w'[j].op = "client" => w'[j].client # w[i].client
      BY <1>1, <2>1, <2>4, <2>5, <3>2 DEF Own, AddedOK
    <3>3. AddedOK(i)'
      <4>1. CASE op = "failed"
        BY <2>4, <2>5, <4>1 DEF AddedOK
      <4>2. CASE op = "unclient"
        <5>1. /\ w'[i].op = "unclient" /\ w'[i].client = w[i].client /\ w'[i].added = {}
              /\ users' = users /\ pairs' = pairs /\ astrayC' = astrayC
          BY <1>3, <1>4, <2>4, <2>5, <4>2
        <5> QED BY <3>2, <4>2, <5>1 DEF AddedOK
      <4> QED BY <4>1, <4>2
    <3> QED BY <3>1, <3>3 DEF Own
  <2>7. LeftOK' /\ pcl' \in SUBSET Triples /\ astrayC' \in SUBSET Triples
    BY <1>1, <1>4, FaultLeft DEF PanelOK, AstrayOK
  <2>8. x.op = "client" => w[i].op = "client" /\ x.client = w[i].client
    BY <2>1, <2>4
  <2> QED BY <1>2, <1>3, <1>4, <2>3, <2>4, <2>6, <2>7, <2>8, ClientsStep
<1>5. ASSUME NEW t \in w[i].added, w' = [w EXCEPT ![i].added = @ \ {t}], pcl' \in {pcl, pcl \ {t}},
             astrayC \subseteq astrayC', astrayC' \subseteq astrayC \cup {t}, t \in pcl' => t \in astrayC',
             left' = left \/ Spend("fault")
      PROVE  XuiInv'
  <2>1. PICK x \in Worker : x = [w[i] EXCEPT !.added = @ \ {t}]
    BY <1>1 DEF Worker
  <2>2. w' = [w EXCEPT ![i] = x]
    BY <1>1, <1>5, <2>1 DEF WorkersOK
  <2>3. /\ x.at = "remove" /\ x.op = w[i].op /\ x.chain = w[i].chain /\ x.client = w[i].client
        /\ x.made = {} /\ x.added = w[i].added \ {t} /\ x.tmpl = w[i].tmpl /\ x.nodes = w[i].nodes
    BY <1>1, <1>2, <2>1 DEF Worker
  <2>4. w'[i] = x /\ \A j \in Workers \ {i} : w'[j] = w[j]
    BY <1>1, <2>2, Becomes
  <2>5. Own(i)'
    <3>1. WorkOK(i)' /\ MadeOK(i)' /\ NodesOK(i)'
      BY <1>1, <1>2, <1>3, <2>3, <2>4 DEF Own, WorkOK, MadeOK, NodesOK, Course, Writes
    <3>2. ASSUME w[i].op = "unclient"
          PROVE  /\ w[i].client \notin users /\ w[i].added \subseteq astrayC
                 /\ \A p \in pairs : p[3] = w[i].client => p \in astrayC
                 /\ \A j \in Workers : w'[j].op = "client" => w'[j].client # w[i].client
      BY <1>1, <2>3, <2>4, <3>2 DEF Own, AddedOK
    <3>3. ASSUME w[i].op = "client" PROVE AddedOK(i)'
      <4>1. /\ w'[i].op = "client" /\ w'[i].at = "remove" /\ w'[i].client = w[i].client
            /\ w'[i].added \subseteq w[i].added /\ w'[i].chain = w[i].chain
            /\ users' = users /\ pairs' = pairs /\ chan' = chan
        BY <1>3, <2>3, <2>4, <3>3
      <4> QED BY <1>1, <3>3, <4>1 DEF Own, AddedOK
    <3>4. ASSUME w[i].op = "unclient" PROVE AddedOK(i)'
      <4>1. /\ w'[i].op = "unclient" /\ w'[i].at = "remove" /\ w'[i].client = w[i].client
            /\ w'[i].added \subseteq w[i].added /\ users' = users /\ pairs' = pairs /\ astrayC \subseteq astrayC'
        BY <1>3, <1>5, <2>3, <2>4, <3>4
      <4> QED BY <3>2, <3>4, <4>1 DEF AddedOK
    <3> QED BY <1>2, <3>1, <3>3, <3>4 DEF Own
  <2>6. t \in Triples /\ LeftOK' /\ pcl' \in SUBSET Triples
    BY <1>1, <1>5, FaultLeft DEF PanelOK, Worker
  <2>7. astrayC' \in SUBSET Triples
    BY <1>1, <1>5, <2>6 DEF AstrayOK
  <2>8. \A p \in pcl \ pcl' : p \in astrayC' \/ Mine(i, p)
    <3>1. w[i].op = "client" => t[3] = w[i].client
      BY <1>1 DEF Own, AddedOK
    <3>2. w[i].op = "unclient" => t \in astrayC
      BY <1>1 DEF Own, AddedOK
    <3> QED BY <1>2, <1>5, <3>1, <3>2 DEF Mine
  <2> QED BY <1>2, <1>3, <1>5, <2>2, <2>3, <2>5, <2>6, <2>7, <2>8, ClientsStep
<1>6. CASE w[i].added = {}
  BY <1>4, <1>6 DEF RemoveClients, panel, astray
<1>7. CASE w[i].added # {}
  <2>1. PICK t \in w[i].added : t = CHOOSE x \in w[i].added : TRUE
    BY <1>7
  <2>2. /\ w' = [w EXCEPT ![i].added = @ \ {t}] /\ pcl' \in {pcl, pcl \ {t}}
        /\ left' = left \/ Spend("fault")
        /\ \/ pcl' = pcl \ {t} /\ astrayC' = astrayC
           \/ astrayC' = astrayC \cup ({t} \cap pcl')
    BY <1>7, <2>1 DEF RemoveClients, Call
  <2> QED BY <1>5, <2>2
<1> QED BY <1>6, <1>7

LEMMA ClientCommitStep ==
  ASSUME XuiInv, NEW i \in Workers, ClientCommit(i)
  PROVE  XuiInv'
<1>1. Own(i) /\ w[i].at = "commit" /\ w[i].op \in {"client", "failed"} /\ DbOK /\ AstrayOK /\ RowsInv /\ LiveInv
      /\ NodesHaveClients /\ WorkersOK
  BY DEF XuiInv, Data, ClientCommit
<1>2. /\ Stop(i) /\ txn' = NoWorker
      /\ pairs' = IF w[i].op = "client" THEN pairs \cup w[i].added ELSE pairs
      /\ UNCHANGED <<chain, chan, keyed, nodes, panel, hc, users, left, astray, raced>>
  BY DEF ClientCommit
<1>3. w[i].made = {} /\ txn = i /\ w[i].added \in SUBSET Triples /\ (w[i].op = "failed" => w[i].added = {})
  BY <1>1 DEF Own, WorkOK, MadeOK, AddedOK, Writes, WorkersOK, Worker
<1>4. w[i].op = "client" =>
        /\ w[i].client \notin users /\ w[i].added \subseteq pcl \cup astrayC
        /\ w[i].added \subseteq conf.clients \cup astrayC
        /\ \A t \in w[i].added : t[1] = w[i].chain /\ t[2] \in chan[t[1]] /\ t[3] = w[i].client
  BY <1>1 DEF Own, AddedOK
<1>5. DbOK' /\ AstrayOK'
  BY <1>1, <1>2, <1>3 DEF DbOK, AstrayOK, astray
<1>6. RowsInv'
  BY <1>1, <1>2, <1>4 DEF RowsInv
<1>7. LiveInv' /\ NodesHaveClients'
  BY <1>1, <1>2, <1>4 DEF LiveInv, NodesHaveClients, panel, astray
<1>8. \A t \in pairs' \ pairs : Mine(i, t)
  BY <1>2, <1>4 DEF Mine
<1>9. \A t \in w[i].added : t \in pairs'
  BY <1>1, <1>2, <1>3
<1>10. pairs \subseteq pairs' /\ \A j \in Workers \ {i} : txn = j => txn' = j
  BY <1>2, <1>3
<1> QED BY <1>2, <1>3, <1>5, <1>6, <1>7, <1>8, <1>9, <1>10, EndStep DEF Keyed, astray

LEMMA UnclientBeginStep ==
  ASSUME XuiInv, NEW i \in Workers, UnclientBegin(i)
  PROVE  XuiInv'
<1>1. WorkersOK /\ Own(i) /\ LeftOK /\ DbOK /\ w[i] = Idle /\ AstrayOK /\ RowsInv /\ NodesHaveClients
  BY DEF XuiInv, Data, UnclientBegin, Own, WorkOK
<1>2. PICK t \in pairs :
        /\ w' = [w EXCEPT ![i] = [Idle EXCEPT !.op = "unclient", !.at = "remove",
                                 !.chain = t[1], !.client = t[3],
                                 !.added = {p \in pairs : p[3] = t[3]},
                                 !.nodes = {p \in pairs : p[3] = t[3]} \cap nodes]]
        /\ astrayC' = astrayC \cup {p \in pairs : p[3] = t[3]}
  BY DEF UnclientBegin
<1>3. Spend("unclient") /\ UNCHANGED <<astrayI, db, panel, hc, users, raced>>
  BY DEF UnclientBegin
<1>4. t \in Triples /\ t[1] \in Chains /\ t[3] \in Clients /\ t[3] \notin users
  BY <1>1 DEF DbOK, RowsInv, Triples
<1>5. PICK mine \in SUBSET Triples : mine = {p \in pairs : p[3] = t[3]}
  BY <1>1 DEF DbOK
<1>6. PICK x \in Worker : x = [Idle EXCEPT !.op = "unclient", !.at = "remove", !.chain = t[1], !.client = t[3],
                                           !.added = mine, !.nodes = mine \cap nodes]
  <2>1. [Idle EXCEPT !.op = "unclient", !.at = "remove", !.chain = t[1], !.client = t[3],
                     !.added = mine, !.nodes = mine \cap nodes] \in Worker
    BY <1>4 DEF Idle, Worker, WorkAt, Ops
  <2> QED BY <2>1
<1>7. w' = [w EXCEPT ![i] = x]
  BY <1>2, <1>5, <1>6
<1>8. /\ x.at = "remove" /\ x.op = "unclient" /\ x.chain = t[1] /\ x.client = t[3]
      /\ x.made = {} /\ x.added = mine /\ x.tmpl = {} /\ x.nodes = mine \cap nodes
  BY <1>6 DEF Idle
<1>9. w'[i] = x /\ \A j \in Workers \ {i} : w'[j] = w[j]
  BY <1>1, <1>7, Becomes
<1>10. LeftOK' /\ DbOK' /\ RowsInv'
  BY <1>1, <1>3, Kinds, SpendFacts DEF DbOK, RowsInv, db
<1>11. AstrayOK'
  BY <1>1, <1>2, <1>3, <1>5 DEF AstrayOK
<1>12. Own(i)'
  <2>1. WorkOK(i)' /\ MadeOK(i)'
    BY <1>4, <1>8, <1>9 DEF WorkOK, MadeOK, Course, Writes
  <2>2. NodesOK(i)'
    BY <1>1, <1>3, <1>5, <1>8, <1>9 DEF NodesOK, NodesHaveClients, db
  <2>3. AddedOK(i)'
    <3>1. \A j \in Workers : w'[j].op = "client" => w'[j].client # t[3]
      <4>1. \A j \in Workers : w[j].op = "client" => w[j].client # t[3]
        BY DEF XuiInv, Own, AddedOK
      <4> QED BY <1>8, <1>9, <4>1
    <3>2. /\ users' = users /\ pairs' = pairs /\ astrayC' = astrayC \cup mine
          /\ w'[i].op = "unclient" /\ w'[i].at = "remove" /\ w'[i].client = t[3] /\ w'[i].added = mine
      BY <1>2, <1>3, <1>5, <1>8, <1>9 DEF db
    <3> QED BY <1>4, <1>5, <3>1, <3>2 DEF AddedOK
  <2> QED BY <2>1, <2>2, <2>3 DEF Own
<1> QED BY <1>1, <1>2, <1>3, <1>7, <1>8, <1>10, <1>11, <1>12, BeginStep DEF Keyed, db

LEMMA UnclientCommitStep ==
  ASSUME XuiInv, NEW i \in Workers, UnclientCommit(i)
  PROVE  XuiInv'
<1>1. Own(i) /\ w[i].at = "commit" /\ w[i].op = "unclient" /\ DbOK /\ AstrayOK /\ RowsInv /\ LiveInv
      /\ NodesHaveClients
  BY DEF XuiInv, Data, UnclientCommit
<1>2. /\ Stop(i) /\ MayWrite(i)
      /\ pairs' = {p \in pairs : p[3] # w[i].client} /\ nodes' = nodes \ w[i].nodes
      /\ UNCHANGED <<chain, chan, keyed, txn, panel, hc, users, left, astray, raced>>
  BY DEF UnclientCommit
<1>3. /\ w[i].made = {} /\ w[i].added = {}
      /\ \A t \in pairs : t[3] = w[i].client => t \in astrayC
      /\ \A n \in nodes : n[3] = w[i].client => n \in w[i].nodes \cup raced
  BY <1>1 DEF Own, MadeOK, AddedOK, NodesOK
<1>4. DbOK' /\ AstrayOK' /\ RowsInv'
  BY <1>1, <1>2 DEF DbOK, AstrayOK, RowsInv, astray
<1>5. LiveInv' /\ NodesHaveClients'
  BY <1>1, <1>2, <1>3 DEF LiveInv, NodesHaveClients, panel, astray
<1> QED BY <1>2, <1>3, <1>4, <1>5, EndStep DEF Keyed, astray

-----------------------------------------------------------------------------
(* The steps of nobody's request.                                           *)

LEMMA NobodyStep ==
  ASSUME XuiInv, w' = w, Data', RowsInv', LiveInv', NodesHaveClients',
         UNCHANGED <<chan, pairs, txn, users>>, inb' \subseteq inb, pcl' \subseteq pcl,
         \A j \in Workers : w[j].made \subseteq inb',
         astrayI \subseteq astrayI', astrayC \subseteq astrayC', raced \subseteq raced',
         keyed' = keyed, \A t \in pcl \ pcl' : t \in astrayC',
         conf' = conf \/ conf'.clients = pcl',
         \A n \in nodes' \ nodes : \A j \in Workers :
           w[j].op = "unclient" /\ w[j].client = n[3] => n \in raced',
         nodes' = nodes \/ txn = NoWorker
  PROVE  XuiInv'
<1>1. Suits(NoWorker)
  BY WorkersAssumption DEF Suits, Keyed
<1>2. Known(NoWorker)
  BY WorkersAssumption DEF Known
<1> QED BY <1>1, <1>2, WorkersAssumption, StepInv

LEMMA ExportStep ==
  ASSUME XuiInv, Export
  PROVE  XuiInv'
<1>1. /\ txn = NoWorker /\ Spend("export")
      /\ UNCHANGED <<chain, chan, keyed, pairs, txn, panel, w, hc, users, astray>>
  BY DEF Export
<1>2. PICK k \in Clients :
        LET new == {p \in pairs : p[3] = k} \ nodes
        IN  /\ nodes' = nodes \cup new
            /\ raced' = IF \E i \in Workers : w[i].op = "unclient" /\ w[i].client = k
                       THEN raced \cup new ELSE raced
  BY DEF Export
<1>3. PICK new \in SUBSET pairs :
        /\ \A p \in new : p[3] = k
        /\ nodes' = nodes \cup new
        /\ raced' = IF \E i \in Workers : w[i].op = "unclient" /\ w[i].client = k THEN raced \cup new ELSE raced
  BY <1>2
<1>4. LeftOK' /\ raced \subseteq raced' /\ raced' \subseteq raced \cup new
  BY <1>1, <1>3, Kinds, SpendFacts DEF XuiInv, Data
<1>5. Data'
  BY <1>1, <1>3, <1>4 DEF XuiInv, Data, DbOK, PanelOK, WorkersOK, CheckOK, AstrayOK, panel, astray
<1>6. RowsInv' /\ LiveInv' /\ NodesHaveClients'
  BY <1>1, <1>3, <1>4 DEF XuiInv, RowsInv, LiveInv, NodesHaveClients, panel, astray
<1>7. \A n \in nodes' \ nodes : \A j \in Workers : w[j].op = "unclient" /\ w[j].client = n[3] => n \in raced'
  BY <1>3
<1>8. \A j \in Workers : w[j].made \subseteq inb'
  BY <1>1 DEF XuiInv, Own, MadeOK, panel
<1> QED BY <1>1, <1>4, <1>5, <1>6, <1>7, <1>8, NobodyStep DEF panel, astray

LEMMA CheckStepInv ==
  ASSUME XuiInv, CheckStep
  PROVE  XuiInv'
<1> USE DEF panel, astray
<1>1. DbOK /\ CheckOK /\ LeftOK
  BY DEF XuiInv, Data
<1>2. UNCHANGED <<chan, keyed, pairs, nodes, txn, panel, w, users, astray, raced>>
  BY DEF CheckStep, CheckBegin, CheckProbe, CheckWrite, db
<1>3. chain' \in [Chains -> Status] /\ CheckOK' /\ LeftOK' /\ \A c \in Chains : chain'[c] = "none" => chain[c] = "none"
  <2>1. CASE CheckBegin
    <3>1. PICK c \in Chains : hc' = [hc EXCEPT !.at = "probe", !.chain = c, !.was = chain[c]]
      BY <2>1 DEF CheckBegin
    <3>2. chain[c] \in Status /\ UNCHANGED <<chain, left>>
      BY <1>1, <2>1 DEF DbOK, CheckBegin, db
    <3>3. CheckOK'
      BY <1>1, <3>1, <3>2 DEF CheckOK
    <3> QED BY <1>1, <3>2, <3>3 DEF DbOK, LeftOK
  <2>2. CASE CheckProbe
    <3>1. PICK now \in {"deployed", "degraded"} : hc' = [hc EXCEPT !.at = "write", !.now = now]
      BY <2>2 DEF CheckProbe
    <3>2. UNCHANGED chain /\ (left' = left \/ Spend("fault"))
      BY <2>2 DEF CheckProbe, db
    <3>3. CheckOK' /\ LeftOK'
      BY <1>1, <3>1, <3>2, FaultLeft DEF CheckOK, Status, Live
    <3> QED BY <1>1, <3>2, <3>3 DEF DbOK
  <2>3. CASE CheckWrite
    <3>1. /\ UNCHANGED left
          /\ hc' = [hc EXCEPT !.at = "idle", !.chain = 0, !.was = "none", !.now = "none"]
          /\ chain' = chain \/ (chain[hc.chain] # "none" /\ chain' = [chain EXCEPT ![hc.chain] = hc.now])
      BY <2>3 DEF CheckWrite
    <3>4. hc.at = "write" /\ hc.now # "none" /\ hc.now \in Status
      BY <1>1, <2>3 DEF CheckWrite, CheckOK, Live
    <3>2. CheckOK' /\ LeftOK'
      BY <1>1, <3>1 DEF CheckOK, LeftOK, Status
    <3>3. chain' \in [Chains -> Status] /\ \A c \in Chains : chain'[c] = "none" => chain[c] = "none"
      BY <1>1, <3>1, <3>4 DEF DbOK
    <3> QED BY <3>2, <3>3
  <2> QED BY <2>1, <2>2, <2>3 DEF CheckStep
<1>4. Data'
  BY <1>2, <1>3 DEF XuiInv, Data, DbOK, PanelOK, WorkersOK, AstrayOK
<1>5. RowsInv' /\ LiveInv' /\ NodesHaveClients'
  BY <1>2, <1>3 DEF XuiInv, RowsInv, LiveInv, NodesHaveClients
<1>6. \A j \in Workers : w[j].made \subseteq inb'
  BY <1>2 DEF XuiInv, Own, MadeOK
<1> QED BY <1>2, <1>4, <1>5, <1>6, NobodyStep

LEMMA DriftStep ==
  ASSUME XuiInv, Drift
  PROVE  XuiInv'
<1> USE DEF db, astray
<1>1. DbOK /\ PanelOK /\ LeftOK /\ AstrayOK /\ LiveInv
  BY DEF XuiInv, Data
<1>2. /\ Spend("drift") /\ UNCHANGED <<db, tmpl, w, hc, users, raced, astrayI>>
      /\ \/ /\ \E x \in inb \ UNION {w[i].made : i \in Workers} : inb' = inb \ {x}
            /\ pcl' \subseteq pcl /\ astrayC' = astrayC \cup (pcl \ pcl') /\ conf' = conf
         \/ conf' = Loaded(tmpl, pcl) /\ UNCHANGED <<inb, pcl, astrayC>>
  BY DEF Drift, OfChannel
<1>3. /\ inb' \subseteq inb /\ pcl' \subseteq pcl /\ astrayC \subseteq astrayC' /\ astrayC' \subseteq astrayC \cup pcl
      /\ \A t \in pcl \ pcl' : t \in astrayC'
  BY <1>2
<1>4. \A j \in Workers : w[j].made \subseteq inb'
  <2>1. \A j \in Workers : w[j].made \subseteq inb
    BY DEF XuiInv, Own, MadeOK
  <2> QED BY <1>2, <2>1
<1>5. conf' \in [routes : SUBSET Routes, clients : SUBSET Triples] /\ (conf' = conf \/ conf'.clients = pcl')
  BY <1>1, <1>2, ConfFacts
<1>6. LeftOK'
  BY <1>1, <1>2, Kinds, SpendFacts
<1>7. Data'
  BY <1>1, <1>2, <1>3, <1>5, <1>6 DEF XuiInv, Data, DbOK, PanelOK, WorkersOK, CheckOK, AstrayOK
<1>8. RowsInv' /\ NodesHaveClients'
  BY <1>2 DEF XuiInv, RowsInv, NodesHaveClients
<1>9. LiveInv'
  BY <1>1, <1>2, <1>3, <1>5 DEF LiveInv
<1> QED BY <1>2, <1>3, <1>4, <1>5, <1>7, <1>8, <1>9, NobodyStep

\* The backend stops: what requests had made or added is nobody's any more.
LEMMA CrashStep ==
  ASSUME XuiInv, Crash
  PROVE  XuiInv'
<1> USE DEF panel
<1>1. WorkersOK /\ CheckOK /\ LeftOK /\ AstrayOK /\ DbOK /\ NothingStray
  BY DEF XuiInv, Data
<1>2. /\ Spend("fault") /\ txn' = NoWorker
      /\ w' = [i \in Workers |-> Idle]
      /\ hc' = [hc EXCEPT !.at = "idle", !.chain = 0, !.was = "none", !.now = "none"]
      /\ astrayI' = astrayI \cup UNION {w[i].made : i \in Workers}
      /\ astrayC' = astrayC \cup UNION {w[i].added : i \in Workers}
      /\ UNCHANGED <<chain, chan, keyed, pairs, nodes, panel, users, raced>>
  BY DEF Crash
<1>3. Idle \in Worker
  BY DEF Idle, Worker, WorkAt, Ops
<1>4. WorkersOK' /\ \A i \in Workers : w'[i] = Idle
  BY <1>2, <1>3 DEF WorkersOK
<1>5. AstrayOK'
  BY <1>1, <1>2 DEF AstrayOK, WorkersOK, Worker
<1>6. CheckOK' /\ LeftOK' /\ DbOK'
  <2>1. CheckOK'
    BY <1>1, <1>2 DEF CheckOK, Status
  <2>2. LeftOK'
    BY <1>1, <1>2, Kinds, SpendFacts
  <2>3. DbOK'
    BY <1>1, <1>2 DEF DbOK
  <2> QED BY <2>1, <2>2, <2>3
<1>7. Data'
  BY <1>2, <1>4, <1>5, <1>6 DEF XuiInv, Data, PanelOK
<1>8. RowsInv' /\ LiveInv' /\ NodesHaveClients'
  BY <1>2 DEF XuiInv, RowsInv, LiveInv, NodesHaveClients
<1>9. NothingStray'
  BY <1>1, <1>2 DEF NothingStray
<1>10. \A i \in Workers : Own(i)'
  BY <1>4, IdleOwn
<1>11. \A i, j \in Workers : i # j => w'[i].made \cap w'[j].made = {}
  BY <1>4 DEF Idle
<1> QED BY <1>7, <1>8, <1>9, <1>10, <1>11 DEF XuiInv

\* What XuiInv leaves out of the types: the histories.
GhostOK == alone \in BOOLEAN /\ mixed \in SUBSET Chains

-----------------------------------------------------------------------------
(* The invariant.                                                           *)

LEMMA InitInv == Init => XuiInv
<1> SUFFICES ASSUME Init PROVE XuiInv
  OBVIOUS
<1>1. Idle \in Worker
  BY DEF Idle, Worker, WorkAt, Ops
<1>2. WorkersOK /\ \A i \in Workers : w[i] = Idle
  BY <1>1 DEF Init, WorkersOK
<1>3. DbOK /\ PanelOK /\ CheckOK /\ AstrayOK
  BY DEF Init, DbOK, PanelOK, CheckOK, AstrayOK, Status
<1>4. LeftOK
  BY LimitsAssumption DEF Init, LeftOK
<1>5. Data /\ RowsInv /\ LiveInv /\ NodesHaveClients /\ NothingStray
  BY <1>2, <1>3, <1>4 DEF Init, Data, RowsInv, LiveInv, NodesHaveClients, NothingStray
<1>6. \A i \in Workers : Own(i)
  BY <1>2 DEF Idle, Own, WorkOK, MadeOK, AddedOK, NodesOK, Course, Writes
<1>7. \A i, j \in Workers : i # j => w[i].made \cap w[j].made = {}
  BY <1>2 DEF Idle
<1> QED BY <1>5, <1>6, <1>7 DEF XuiInv

LEMMA NextInv == XuiInv /\ [Next]_vars => XuiInv'
<1> SUFFICES ASSUME XuiInv, [Next]_vars PROVE XuiInv'
  OBVIOUS
<1>1. ASSUME NEW i \in Workers, WorkStep(i) PROVE XuiInv'
  <2>1. ASSUME NEW s \in Sides, AddInbound(i, s) PROVE XuiInv'
    BY <2>1, AddInboundStep
  <2>2. CASE SaveKeys(i)
    BY <2>2, SaveKeysStep
  <2>3. CASE Build(i)
    BY <2>3, BuildStep
  <2>4. CASE Push(i)
    BY <2>4, PushStep
  <2>5. CASE Restart(i)
    BY <2>5, RestartStep
  <2>6. CASE Finish(i)
    BY <2>6, FinishStep
  <2>7. CASE Undo(i)
    BY <2>7, UndoStep
  <2>8. CASE Fail(i)
    BY <2>8, FailStep
  <2>9. CASE Clear(i)
    BY <2>9, ClearStep
  <2>10. CASE DeleteCommit(i)
    BY <2>10, DeleteCommitStep
  <2>11. CASE ChannelCommit(i)
    BY <2>11, ChannelCommitStep
  <2>12. CASE DropChain(i)
    BY <2>12, DropChainStep
  <2>13. CASE AddClient(i)
    BY <2>13, AddClientStep
  <2>14. CASE ReloadClients(i)
    BY <2>14, ReloadClientsStep
  <2>15. CASE RemoveClients(i)
    BY <2>15, RemoveClientsStep
  <2>16. CASE ClientCommit(i)
    BY <2>16, ClientCommitStep
  <2>17. CASE UnclientCommit(i)
    BY <2>17, UnclientCommitStep
  <2> QED BY <1>1, <2>1, <2>2, <2>3, <2>4, <2>5, <2>6, <2>7, <2>8, <2>9, <2>10, <2>11, <2>12,
             <2>13, <2>14, <2>15, <2>16, <2>17 DEF WorkStep
<1>2. ASSUME NEW i \in Workers, Begin(i) PROVE XuiInv'
  BY <1>2, CreateBeginStep, DeleteBeginStep, ChannelBeginStep, ClientBeginStep, UnclientBeginStep DEF Begin
<1>3. CASE UNCHANGED vars
  <2> USE <1>3 DEF vars, db, panel, astray, ghost
  <2>1. Data' /\ RowsInv' /\ LiveInv' /\ NodesHaveClients'
    BY DEF XuiInv, Data, DbOK, PanelOK, WorkersOK, CheckOK, LeftOK, AstrayOK, RowsInv, LiveInv, NodesHaveClients
  <2>2. \A j \in Workers : w[j].made \subseteq inb
    BY DEF XuiInv, Own, MadeOK
  <2> QED BY <2>1, <2>2, NobodyStep
<1> QED BY <1>1, <1>2, <1>3, ExportStep, CheckStepInv, DriftStep, CrashStep DEF Next, Step, Event

LEMMA SpecInv == Spec => []XuiInv
BY InitInv, NextInv, PTL DEF Spec


-----------------------------------------------------------------------------
(* What an undisturbed change serves. A chain that is not mixed has one     *)
(* creation at most, and the material of its channels once it is deployed.  *)

Material == {"build", "push", "restart", "finish"}
Creator(i, c) == w[i].op = "create" /\ w[i].chain = c

KeyInv(c) ==
  /\ chain[c] \in Live => keyed[c] = chan[c]
  /\ \A i \in Workers : Creator(i, c) =>
       /\ chain[c] \in {"none", "pending"}
       /\ w[i].at \in Material => keyed[c] = chan[c]
       /\ \A j \in Workers : Creator(j, c) => j = i
  /\ hc.chain = c => chain[c] \in {"none"} \cup Live

KeysInv == \A c \in Chains \ mixed : KeyInv(c)

\* Whose creation goes on goes on with the same chain, and has what it had.
Creates(i) ==
  w'[i].op = "create" =>
    /\ w[i].op = "create" /\ w'[i].chain = w[i].chain
    /\ w'[i].at \in Material => w[i].at \in Material

LEMMA NoneNew ==
  ASSUME GhostOK, Mixing, \A c \in Chains : chain[c] = "none" => chain'[c] = "none"
  PROVE  mixed' = mixed
BY DEF Mixing, GhostOK

\* A step that leaves the rows of the chains alone.
LEMMA KeyStill ==
  ASSUME XuiInv, GhostOK, KeysInv, Mixing, UNCHANGED <<chain, chan, keyed>>,
         hc'.chain \in {hc.chain, 0}, \A i \in Workers : Creates(i)
  PROVE  KeysInv'
<1>1. mixed' = mixed
  BY NoneNew
<1> SUFFICES ASSUME NEW c \in Chains \ mixed PROVE KeyInv(c)'
  BY <1>1 DEF KeysInv
<1>2. KeyInv(c) /\ c # 0
  BY IdsAssumption DEF KeysInv
<1>3. \A i \in Workers : Creator(i, c)' => Creator(i, c) /\ (w'[i].at \in Material => w[i].at \in Material)
  BY DEF Creates, Creator
<1> QED BY <1>2, <1>3 DEF KeyInv

\* The request that a step is one of leaves the others' alone.
LEMMA CreatesOthers ==
  ASSUME NEW i \in Workers, \A j \in Workers \ {i} : w'[j] = w[j], Creates(i)
  PROVE  \A j \in Workers : Creates(j)
BY DEF Creates

\* Moves(i): what a step of a request under way does to the request.
Moves(i) ==
  /\ w[i].at # "idle" /\ \A j \in Workers \ {i} : w'[j] = w[j]
  /\ \/ w'[i] = Idle
     \/ /\ w'[i].chain = w[i].chain /\ w'[i].ch = w[i].ch /\ w'[i].at # "idle"
        /\ w'[i].op = w[i].op \/ w'[i].op = "failed"
        /\ w[i].op \in {"delete", "channel"} => w'[i].todo = w[i].todo

LEMMA GoMoves ==
  ASSUME WorkersOK, NEW i \in Workers, NEW at \in WorkAt \ {"idle"}, Go(i, at), w[i].at # "idle"
  PROVE  Moves(i) /\ w'[i].at = at /\ w'[i].op = w[i].op /\ w'[i].tmpl = w[i].tmpl /\ w'[i].chain = w[i].chain
BY GoFacts DEF Moves

LEMMA StopMoves ==
  ASSUME WorkersOK, NEW i \in Workers, Stop(i), w[i].at # "idle"
  PROVE  Moves(i) /\ w'[i] = Idle
BY StopFacts DEF Moves

LEMMA IdleCreates ==
  ASSUME NEW i \in Workers, w'[i] = Idle
  PROVE  Creates(i)
BY DEF Idle, Creates

LEMMA AddInboundMoves ==
  ASSUME XuiInv, NEW i \in Workers, NEW side \in Sides, AddInbound(i, side)
  PROVE  Moves(i) /\ Creates(i) /\ w'[i].at \in {"exit", "relay", "keys", "undo"} /\ UNCHANGED <<chain, chan, keyed, hc>>
<1>1. WorkersOK /\ w[i].at = side /\ side \in {"exit", "relay"} /\ w[i] \in Worker /\ WorkOK(i)
  BY DEF XuiInv, Data, AddInbound, Sides, WorkersOK, Own
<1>2. w[i].op = "create" /\ UNCHANGED <<chain, chan, keyed, hc>>
  BY <1>1 DEF WorkOK, Course, AddInbound, db
<1> DEFINE h == Min(w[i].todo)
           ib == Payload(side, w[i].chain, h)
           at == IF side = "exit" THEN "relay" ELSE IF w[i].todo = {h} THEN "keys" ELSE "exit"
           todo == IF side = "relay" THEN w[i].todo \ {h} ELSE w[i].todo
<1>3. \/ Go(i, "undo")
      \/ w' = [w EXCEPT ![i].at = at, ![i].todo = IF side = "relay" THEN @ \ {h} ELSE @, ![i].made = @ \cup {ib}]
  BY DEF AddInbound, Call
<1>4. CASE Go(i, "undo")
  <2>1. Moves(i) /\ w'[i].at = "undo" /\ w'[i].op = w[i].op /\ w'[i].chain = w[i].chain
    BY <1>1, <1>4, GoMoves DEF WorkAt
  <2> QED BY <1>2, <2>1 DEF Creates, Material
<1>5. CASE w' = [w EXCEPT ![i].at = at, ![i].todo = IF side = "relay" THEN @ \ {h} ELSE @, ![i].made = @ \cup {ib}]
  <2>1. w' = [w EXCEPT ![i] = [w[i] EXCEPT !.at = at, !.todo = todo, !.made = @ \cup {ib}]]
    BY <1>1, <1>5 DEF WorkersOK
  <2>2. w'[i] = [w[i] EXCEPT !.at = at, !.todo = todo, !.made = @ \cup {ib}] /\ \A j \in Workers \ {i} : w'[j] = w[j]
    BY <1>1, <2>1 DEF WorkersOK
  <2>3. /\ w'[i].chain = w[i].chain /\ w'[i].ch = w[i].ch /\ w'[i].op = w[i].op /\ w'[i].at = at
    BY <1>1, <2>2 DEF Worker
  <2>4. at \in {"exit", "relay", "keys"}
    OBVIOUS
  <2> QED BY <1>1, <1>2, <2>2, <2>3, <2>4 DEF Moves, Creates, Material
<1> QED BY <1>3, <1>4, <1>5

LEMMA BuildMoves ==
  ASSUME XuiInv, NEW i \in Workers, Build(i)
  PROVE  /\ Moves(i) /\ Creates(i) /\ w'[i].at = "push" /\ UNCHANGED <<chain, chan, keyed, hc>>
         /\ w[i].op = "create" /\ w'[i].op = "create" /\ w'[i].chain = w[i].chain
         /\ w'[i].tmpl = RelayTemplate(Rows, chan, w[i].chain)
<1>1. WorkersOK /\ w[i].at = "build" /\ w[i] \in Worker /\ WorkOK(i)
  BY DEF XuiInv, Data, Build, WorkersOK, Own
<1>2. w[i].op = "create" /\ UNCHANGED <<chain, chan, keyed, hc>>
  BY <1>1 DEF WorkOK, Course, Build, db
<1> DEFINE t == RelayTemplate(Rows, chan, w[i].chain)
<1>3. w' = [w EXCEPT ![i] = [w[i] EXCEPT !.at = "push", !.tmpl = t]]
  BY <1>1 DEF WorkersOK, Build
<1>4. w'[i] = [w[i] EXCEPT !.at = "push", !.tmpl = t] /\ \A j \in Workers \ {i} : w'[j] = w[j]
  BY <1>1, <1>3 DEF WorkersOK
<1>5. /\ w'[i].chain = w[i].chain /\ w'[i].ch = w[i].ch /\ w'[i].op = w[i].op /\ w'[i].at = "push" /\ w'[i].tmpl = t
  BY <1>1, <1>4 DEF Worker
<1> QED BY <1>1, <1>2, <1>4, <1>5 DEF Moves, Creates, Material

LEMMA AddClientMoves ==
  ASSUME XuiInv, NEW i \in Workers, AddClient(i)
  PROVE  Moves(i) /\ Creates(i) /\ w'[i].at \in {"add", "reload", "remove"} /\ UNCHANGED <<chain, chan, keyed, hc>>
<1>1. WorkersOK /\ w[i].at = "add" /\ w[i] \in Worker /\ WorkOK(i)
  BY DEF XuiInv, Data, AddClient, WorkersOK, Own
<1>2. w[i].op = "client" /\ UNCHANGED <<chain, chan, keyed, hc>>
  BY <1>1 DEF WorkOK, Course, AddClient, db
<1> DEFINE h == Min(w[i].todo)
           t == <<w[i].chain, h, w[i].client>>
           at == IF w[i].todo = {h} THEN "reload" ELSE "add"
<1>3. \/ Go(i, "remove")
      \/ w' = [w EXCEPT ![i].todo = @ \ {h}, ![i].added = @ \cup {t}, ![i].at = at]
  BY DEF AddClient, Call
<1>4. CASE Go(i, "remove")
  <2>1. Moves(i) /\ w'[i].at = "remove" /\ w'[i].op = w[i].op /\ w'[i].chain = w[i].chain
    BY <1>1, <1>4, GoMoves DEF WorkAt
  <2> QED BY <1>2, <2>1 DEF Creates, Material
<1>5. CASE w' = [w EXCEPT ![i].todo = @ \ {h}, ![i].added = @ \cup {t}, ![i].at = at]
  <2>1. w' = [w EXCEPT ![i] = [w[i] EXCEPT !.todo = @ \ {h}, !.added = @ \cup {t}, !.at = at]]
    BY <1>1, <1>5 DEF WorkersOK
  <2>2. w'[i] = [w[i] EXCEPT !.todo = @ \ {h}, !.added = @ \cup {t}, !.at = at] /\ \A j \in Workers \ {i} : w'[j] = w[j]
    BY <1>1, <2>1 DEF WorkersOK
  <2>3. /\ w'[i].chain = w[i].chain /\ w'[i].ch = w[i].ch /\ w'[i].op = w[i].op /\ w'[i].at = at
    BY <1>1, <2>2 DEF Worker
  <2>4. at \in {"add", "reload"}
    OBVIOUS
  <2> QED BY <1>1, <1>2, <2>2, <2>3, <2>4 DEF Moves, Creates, Material
<1> QED BY <1>3, <1>4, <1>5

LEMMA RemoveClientsMoves ==
  ASSUME XuiInv, NEW i \in Workers, RemoveClients(i)
  PROVE  Moves(i) /\ Creates(i) /\ w'[i].at \in {"remove", "reload"} /\ UNCHANGED <<chain, chan, keyed, hc>>
<1>1. WorkersOK /\ w[i].at = "remove" /\ w[i] \in Worker /\ WorkOK(i)
  BY DEF XuiInv, Data, RemoveClients, WorkersOK, Own
<1>2. w[i].op \in {"client", "unclient"} /\ UNCHANGED <<chain, chan, keyed, hc>>
  BY <1>1 DEF WorkOK, Course, RemoveClients, Call, db
<1> DEFINE t == CHOOSE x \in w[i].added : TRUE
           op == IF w[i].op = "client" THEN "failed" ELSE w[i].op
<1>3. \/ w' = [w EXCEPT ![i].at = "reload", ![i].op = IF @ = "client" THEN "failed" ELSE @]
      \/ w' = [w EXCEPT ![i].added = @ \ {t}]
  BY DEF RemoveClients, Call
<1>4. CASE w' = [w EXCEPT ![i].at = "reload", ![i].op = IF @ = "client" THEN "failed" ELSE @]
  <2>1. w' = [w EXCEPT ![i] = [w[i] EXCEPT !.at = "reload", !.op = op]]
    BY <1>1, <1>4 DEF WorkersOK
  <2>2. w'[i] = [w[i] EXCEPT !.at = "reload", !.op = op] /\ \A j \in Workers \ {i} : w'[j] = w[j]
    BY <1>1, <2>1 DEF WorkersOK
  <2>3. w'[i].chain = w[i].chain /\ w'[i].ch = w[i].ch /\ w'[i].op = op /\ w'[i].at = "reload"
    BY <1>1, <2>2 DEF Worker
  <2> QED BY <1>1, <1>2, <2>2, <2>3 DEF Moves, Creates, Material
<1>5. CASE w' = [w EXCEPT ![i].added = @ \ {t}]
  <2>1. w' = [w EXCEPT ![i] = [w[i] EXCEPT !.added = @ \ {t}]]
    BY <1>1, <1>5 DEF WorkersOK
  <2>2. w'[i] = [w[i] EXCEPT !.added = @ \ {t}] /\ \A j \in Workers \ {i} : w'[j] = w[j]
    BY <1>1, <2>1 DEF WorkersOK
  <2>3. w'[i].chain = w[i].chain /\ w'[i].ch = w[i].ch /\ w'[i].op = w[i].op /\ w'[i].at = "remove"
    BY <1>1, <2>2 DEF Worker
  <2> QED BY <1>1, <1>2, <2>2, <2>3 DEF Moves, Creates, Material
<1> QED BY <1>3, <1>4, <1>5

LEMMA UndoMoves ==
  ASSUME XuiInv, NEW i \in Workers, Undo(i)
  PROVE  Moves(i) /\ Creates(i) /\ w'[i].at \in {"undo", "fail"} /\ UNCHANGED <<chain, chan, keyed, hc>>
<1>1. WorkersOK /\ w[i].at = "undo" /\ w[i] \in Worker /\ WorkOK(i)
  BY DEF XuiInv, Data, Undo, WorkersOK, Own
<1>2. w[i].op = "create" /\ UNCHANGED <<chain, chan, keyed, hc>>
  BY <1>1 DEF WorkOK, Course, Undo, Call, db
<1>3. PICK ib : Go(i, "fail") \/ w' = [w EXCEPT ![i].made = @ \ {ib}]
  BY DEF Undo, Call
<1>4. CASE Go(i, "fail")
  <2>1. Moves(i) /\ w'[i].at = "fail" /\ w'[i].op = w[i].op /\ w'[i].chain = w[i].chain
    BY <1>1, <1>4, GoMoves DEF WorkAt
  <2> QED BY <1>2, <2>1 DEF Creates, Material
<1>5. CASE w' = [w EXCEPT ![i].made = @ \ {ib}]
  <2>1. w' = [w EXCEPT ![i] = [w[i] EXCEPT !.made = @ \ {ib}]]
    BY <1>1, <1>5 DEF WorkersOK
  <2>2. w'[i] = [w[i] EXCEPT !.made = @ \ {ib}] /\ \A j \in Workers \ {i} : w'[j] = w[j]
    BY <1>1, <2>1 DEF WorkersOK
  <2>3. w'[i].chain = w[i].chain /\ w'[i].ch = w[i].ch /\ w'[i].op = w[i].op /\ w'[i].at = "undo"
    BY <1>1, <2>2 DEF Worker
  <2> QED BY <1>1, <1>2, <2>2, <2>3 DEF Moves, Creates, Material
<1> QED BY <1>3, <1>4, <1>5

LEMMA PushMoves ==
  ASSUME XuiInv, NEW i \in Workers, Push(i)
  PROVE  /\ Moves(i) /\ Creates(i) /\ UNCHANGED <<chain, chan, keyed, hc>>
         /\ w'[i].at \in {"restart", "undo", "commit"} /\ w[i].at = "push"
         /\ left' = left => w'[i].at = "restart" /\ tmpl' = w[i].tmpl
<1>1. WorkersOK /\ w[i].at = "push" /\ w[i] \in Worker /\ WorkOK(i) /\ LeftOK
  BY DEF XuiInv, Data, Push, WorkersOK, Own
<1>2. PICK at \in {"restart", "undo", "commit"} :
        /\ Go(i, at) /\ UNCHANGED <<chain, chan, keyed, hc>>
        /\ (at = "restart" /\ tmpl' = w[i].tmpl) \/ Spend("fault")
        /\ at = "restart" \/ at = (IF w[i].op = "create" THEN "undo" ELSE "commit")
  BY DEF Push, Call, db
<1>3. Moves(i) /\ w'[i].at = at /\ w'[i].op = w[i].op /\ w'[i].chain = w[i].chain
  BY <1>1, <1>2, GoMoves DEF WorkAt
<1>4. Creates(i)
  BY <1>1, <1>3 DEF Creates, Material
<1>5. Spend("fault") => left' # left
  BY <1>1, Kinds DEF Spend, LeftOK
<1> QED BY <1>1, <1>2, <1>3, <1>4, <1>5

LEMMA RestartMoves ==
  ASSUME XuiInv, NEW i \in Workers, Restart(i)
  PROVE  /\ Moves(i) /\ Creates(i) /\ UNCHANGED <<chain, chan, keyed, hc>>
         /\ w'[i].at \in {"finish", "undo", "commit"} /\ w[i].at = "restart"
         /\ left' = left => w'[i].at \in {"finish", "commit"} /\ conf'.routes = tmpl
<1>1. WorkersOK /\ w[i].at = "restart" /\ w[i] \in Worker /\ WorkOK(i) /\ LeftOK /\ \A r \in tmpl : r[3]
  BY DEF XuiInv, Data, Restart, WorkersOK, Own, LiveInv
<1>2. PICK at \in {"finish", "undo", "commit"} :
        /\ Go(i, at) /\ UNCHANGED <<chain, chan, keyed, hc>>
        /\ (at \in {"finish", "commit"} /\ conf' = Loaded(tmpl, pcl)) \/ Spend("fault")
        /\ at = "finish" => w[i].op = "create"
  BY DEF Restart, Call, db
<1>3. Moves(i) /\ w'[i].at = at /\ w'[i].op = w[i].op /\ w'[i].chain = w[i].chain
  BY <1>1, <1>2, GoMoves DEF WorkAt
<1>4. Creates(i)
  BY <1>1, <1>3 DEF Creates, Material
<1>5. Spend("fault") => left' # left
  BY <1>1, Kinds DEF Spend, LeftOK
<1>6. Loaded(tmpl, pcl).routes = tmpl
  BY <1>1 DEF Loaded
<1> QED BY <1>1, <1>2, <1>3, <1>4, <1>5, <1>6

LEMMA ClearMoves ==
  ASSUME XuiInv, NEW i \in Workers, Clear(i)
  PROVE  /\ Moves(i) /\ Creates(i) /\ UNCHANGED <<chain, chan, keyed, hc>>
         /\ w'[i].at = "commit" /\ w[i].at = "clear"
<1>1. WorkersOK /\ w[i].at = "clear" /\ w[i] \in Worker
  BY DEF XuiInv, Data, Clear, WorkersOK
<1>2. Go(i, "commit") /\ UNCHANGED <<chain, chan, keyed, hc>>
  BY DEF Clear, Call, db
<1>3. Moves(i) /\ w'[i].at = "commit" /\ w'[i].op = w[i].op /\ w'[i].chain = w[i].chain
  BY <1>1, <1>2, GoMoves DEF WorkAt
<1> QED BY <1>1, <1>2, <1>3 DEF Creates, Material

LEMMA ReloadClientsMoves ==
  ASSUME XuiInv, NEW i \in Workers, ReloadClients(i)
  PROVE  /\ Moves(i) /\ Creates(i) /\ UNCHANGED <<chain, chan, keyed, hc>>
         /\ w'[i].op \notin {"create", "delete", "channel"} /\ w'[i].at \in {"commit", "remove"}
<1>1. WorkersOK /\ w[i].at = "reload" /\ w[i] \in Worker /\ WorkOK(i)
  BY DEF XuiInv, Data, ReloadClients, WorkersOK, Own
<1>2. PICK at \in {"commit", "remove"} : Go(i, at) /\ UNCHANGED <<chain, chan, keyed, hc>>
  BY DEF ReloadClients, Call, db
<1>3. Moves(i) /\ w'[i].at = at /\ w'[i].op = w[i].op /\ w'[i].chain = w[i].chain
  BY <1>1, <1>2, GoMoves DEF WorkAt
<1> QED BY <1>1, <1>2, <1>3 DEF Creates, Material, WorkOK, Course

-----------------------------------------------------------------------------
(* The steps that change the rows of a chain.                               *)

LEMMA SaveKeysKey ==
  ASSUME XuiInv, GhostOK, KeysInv, Mixing, NEW i \in Workers, SaveKeys(i)
  PROVE  KeysInv' /\ Moves(i) /\ w'[i].at \in {"build", "undo", "idle"} /\ mixed' = mixed
<1> DEFINE c == w[i].chain
<1>1. WorkersOK /\ w[i].at = "keys" /\ w[i] \in Worker /\ WorkOK(i) /\ DbOK
  BY DEF XuiInv, Data, SaveKeys, WorkersOK, Own
<1>2. w[i].op = "create" /\ c \in Chains
  BY <1>1 DEF WorkOK, Course
<1>3. /\ UNCHANGED <<chain, chan, hc>>
      /\ \/ chan[c] = Chs /\ keyed' = [keyed EXCEPT ![c] = Chs] /\ Go(i, "build")
         \/ UNCHANGED keyed /\ Go(i, "undo")
         \/ UNCHANGED keyed /\ Stop(i)
  BY DEF SaveKeys
<1>4. mixed' = mixed
  BY <1>3, NoneNew
<1>5. ASSUME UNCHANGED keyed, Go(i, "undo")
      PROVE  KeysInv' /\ Moves(i) /\ w'[i].at = "undo"
  <2>1. Moves(i) /\ w'[i].at = "undo" /\ w'[i].op = w[i].op /\ w'[i].chain = w[i].chain
    BY <1>1, <1>5, GoMoves DEF WorkAt
  <2>2. \A j \in Workers : Creates(j)
    BY <2>1, CreatesOthers DEF Creates, Material, Moves
  <2> QED BY <1>3, <1>5, <2>1, <2>2, KeyStill
<1>6. ASSUME UNCHANGED keyed, Stop(i)
      PROVE  KeysInv' /\ Moves(i) /\ w'[i].at = "idle"
  <2>1. Moves(i) /\ w'[i] = Idle
    BY <1>1, <1>6, StopMoves
  <2>2. \A j \in Workers : Creates(j)
    BY <2>1, IdleCreates, CreatesOthers DEF Moves
  <2> QED BY <1>3, <1>6, <2>1, <2>2, KeyStill DEF Idle
<1>7. ASSUME chan[c] = Chs, keyed' = [keyed EXCEPT ![c] = Chs], Go(i, "build")
      PROVE  KeysInv' /\ Moves(i) /\ w'[i].at = "build"
  <2>1. /\ Moves(i) /\ w'[i].at = "build" /\ w'[i].op = w[i].op /\ w'[i].chain = c
        /\ \A j \in Workers \ {i} : w'[j] = w[j]
    BY <1>1, <1>7, GoMoves DEF WorkAt, Moves
  <2>2. keyed'[c] = chan[c] /\ \A d \in Chains \ {c} : keyed'[d] = keyed[d]
    BY <1>1, <1>2, <1>7 DEF DbOK
  <2>3. ASSUME NEW d \in Chains \ mixed PROVE KeyInv(d)'
    <3>1. KeyInv(d)
      BY DEF KeysInv
    <3>2. \A j \in Workers : Creator(j, d)' => Creator(j, d)
      BY <2>1 DEF Creator
    <3>3. \A j \in Workers : Creator(j, d)' => (w'[j].at \in Material => w[j].at \in Material \/ d = c)
      BY <2>1 DEF Creator
    <3> QED BY <1>3, <2>2, <3>1, <3>2, <3>3 DEF KeyInv
  <2> QED BY <1>4, <2>1, <2>3 DEF KeysInv
<1> QED BY <1>3, <1>4, <1>5, <1>6, <1>7

\* The status of a creation's chain, when the creation ends.
LEMMA FinishKey ==
  ASSUME XuiInv, GhostOK, KeysInv, Mixing, NEW i \in Workers, Finish(i) \/ Fail(i)
  PROVE  KeysInv' /\ Moves(i) /\ w'[i] = Idle /\ UNCHANGED <<chan, keyed, conf>> /\ mixed' = mixed
<1> DEFINE c == w[i].chain
<1>1. WorkersOK /\ w[i].at \in {"finish", "fail"} /\ WorkOK(i) /\ DbOK
  BY DEF XuiInv, Data, Finish, Fail, WorkersOK, Own
<1>2. w[i].op = "create" /\ c \in Chains
  BY <1>1 DEF WorkOK, Course
<1>3. /\ UNCHANGED <<chan, keyed, conf, hc>> /\ Stop(i)
      /\ \/ chain' = chain
         \/ w[i].at = "finish" /\ chain[c] # "none" /\ chain' = [chain EXCEPT ![c] = "deployed"]
         \/ w[i].at = "fail" /\ chain[c] # "none" /\ chain' = [chain EXCEPT ![c] = "failed"]
  BY DEF Finish, Fail, panel
<1>4. Moves(i) /\ w'[i] = Idle /\ \A j \in Workers \ {i} : w'[j] = w[j]
  BY <1>1, <1>3, StopMoves DEF Moves
<1>5. \A d \in Chains : chain[d] = "none" => chain'[d] = "none"
  BY <1>1, <1>2, <1>3 DEF DbOK
<1>6. mixed' = mixed
  BY <1>5, NoneNew
<1>7. ASSUME NEW d \in Chains \ mixed PROVE KeyInv(d)'
  <2>1. KeyInv(d)
    BY DEF KeysInv
  <2>2. \A j \in Workers : Creator(j, d)' => Creator(j, d) /\ w'[j] = w[j] /\ j # i
    BY <1>4 DEF Creator, Idle
  <2>3. CASE chain'[d] = chain[d]
    BY <1>3, <2>1, <2>2, <2>3 DEF KeyInv
  <2>4. CASE chain'[d] # chain[d]
    <3>1. d = c /\ Creator(i, d)
      BY <1>1, <1>2, <1>3, <2>4 DEF DbOK, Creator
    <3>2. \A j \in Workers : ~Creator(j, d)'
      BY <2>1, <2>2, <3>1 DEF KeyInv
    <3>3. chain[d] = "pending" /\ hc.chain # d
      BY <1>3, <2>1, <2>4, <3>1 DEF KeyInv, Live
    <3>4. chain'[d] \in Live => w[i].at = "finish"
      BY <1>1, <1>2, <1>3, <2>4, <3>1 DEF DbOK, Live
    <3>5. chain'[d] \in Live => keyed[d] = chan[d]
      BY <2>1, <3>1, <3>4 DEF KeyInv, Material
    <3> QED BY <1>3, <3>2, <3>3, <3>5 DEF KeyInv
  <2> QED BY <2>3, <2>4
<1> QED BY <1>3, <1>4, <1>6, <1>7 DEF KeysInv

LEMMA DeleteKey ==
  ASSUME XuiInv, GhostOK, KeysInv, Mixing, NEW i \in Workers, DeleteCommit(i) \/ DropChain(i)
  PROVE  KeysInv' /\ Moves(i) /\ w'[i] = Idle /\ conf' = conf /\ mixed' = mixed
<1> DEFINE c == w[i].chain
<1>1. WorkersOK /\ w[i].at \in {"commit", "drop"} /\ WorkOK(i) /\ DbOK
  BY DEF XuiInv, Data, DeleteCommit, DropChain, WorkersOK, Own
<1>2. c \in Chains
  BY <1>1 DEF WorkOK
<1>3. /\ UNCHANGED <<conf, hc>> /\ Stop(i)
      /\ chain' = [chain EXCEPT ![c] = "none"] /\ chan' = [chan EXCEPT ![c] = {}] /\ keyed' = [keyed EXCEPT ![c] = {}]
  BY DEF DeleteCommit, DropChain, panel
<1>4. Moves(i) /\ w'[i] = Idle /\ \A j \in Workers \ {i} : w'[j] = w[j]
  BY <1>1, <1>3, StopMoves DEF Moves
<1>5. /\ chain'[c] = "none" /\ chan'[c] = {} /\ keyed'[c] = {}
      /\ \A d \in Chains \ {c} : chain'[d] = chain[d] /\ chan'[d] = chan[d] /\ keyed'[d] = keyed[d]
  BY <1>1, <1>2, <1>3 DEF DbOK
<1>6. mixed' = mixed
  BY <1>5, NoneNew
<1>7. ASSUME NEW d \in Chains \ mixed PROVE KeyInv(d)'
  <2>1. KeyInv(d)
    BY DEF KeysInv
  <2>2. \A j \in Workers : Creator(j, d)' => Creator(j, d) /\ w'[j] = w[j] /\ j # i
    BY <1>4 DEF Creator, Idle
  <2>3. CASE d # c
    BY <1>3, <1>5, <2>1, <2>2, <2>3 DEF KeyInv
  <2>4. CASE d = c
    BY <1>3, <1>5, <2>1, <2>2, <2>4 DEF KeyInv, Live
  <2> QED BY <2>3, <2>4
<1> QED BY <1>3, <1>4, <1>6, <1>7 DEF KeysInv

LEMMA ChannelCommitKey ==
  ASSUME XuiInv, GhostOK, KeysInv, Mixing, NEW i \in Workers, ChannelCommit(i)
  PROVE  KeysInv' /\ Moves(i) /\ w'[i].at \in {"idle", "drop"} /\ UNCHANGED <<chain, conf>> /\ mixed' = mixed
<1> DEFINE c == w[i].chain
           h == w[i].ch
<1>1. WorkersOK /\ w[i].at = "commit" /\ w[i].op = "channel" /\ WorkOK(i) /\ DbOK
  BY DEF XuiInv, Data, ChannelCommit, WorkersOK, Own
<1>2. c \in Chains
  BY <1>1 DEF WorkOK
<1>3. /\ UNCHANGED <<chain, conf, hc>> /\ (Stop(i) \/ Go(i, "drop"))
      /\ chan' = [chan EXCEPT ![c] = @ \ {h}] /\ keyed' = [keyed EXCEPT ![c] = @ \ {h}]
  BY DEF ChannelCommit, panel
<1>4. Moves(i) /\ w'[i].at \in {"idle", "drop"} /\ w'[i].op # "create" /\ \A j \in Workers \ {i} : w'[j] = w[j]
  <2>1. CASE Stop(i)
    <3>1. Moves(i) /\ w'[i] = Idle
      BY <1>1, <2>1, StopMoves
    <3> QED BY <3>1 DEF Moves, Idle
  <2>2. CASE Go(i, "drop")
    <3>1. Moves(i) /\ w'[i].at = "drop" /\ w'[i].op = w[i].op
      BY <1>1, <2>2, GoMoves DEF WorkAt
    <3> QED BY <1>1, <3>1 DEF Moves
  <2> QED BY <1>3, <2>1, <2>2
<1>5. /\ chan'[c] = chan[c] \ {h} /\ keyed'[c] = keyed[c] \ {h}
      /\ \A d \in Chains \ {c} : chan'[d] = chan[d] /\ keyed'[d] = keyed[d]
  BY <1>1, <1>2, <1>3 DEF DbOK
<1>6. mixed' = mixed
  BY <1>3, NoneNew
<1>7. ASSUME NEW d \in Chains \ mixed PROVE KeyInv(d)'
  <2>1. KeyInv(d) /\ (keyed[d] = chan[d] => keyed'[d] = chan'[d])
    BY <1>5 DEF KeysInv
  <2>2. \A j \in Workers : Creator(j, d)' => Creator(j, d) /\ w'[j] = w[j]
    BY <1>4 DEF Creator
  <2> QED BY <1>3, <2>1, <2>2 DEF KeyInv
<1> QED BY <1>3, <1>4, <1>6, <1>7 DEF KeysInv

LEMMA CreateBeginKey ==
  ASSUME XuiInv, GhostOK, KeysInv, Mixing, NEW i \in Workers, CreateBegin(i)
  PROVE  KeysInv' /\ w'[i].at = "exit" /\ w[i] = Idle /\ \A j \in Workers \ {i} : w'[j] = w[j]
<1>1. WorkersOK /\ w[i] = Idle /\ DbOK
  BY DEF XuiInv, Data, CreateBegin, WorkersOK, Own, WorkOK
<1>2. PICK c \in Chains : c = IF Rows = {} THEN 1 ELSE Max(Rows) + 1
  BY DEF CreateBegin
<1>3. /\ chain' = [chain EXCEPT ![c] = "pending"] /\ chan' = [chan EXCEPT ![c] = Chs]
      /\ keyed' = [keyed EXCEPT ![c] = {}] /\ UNCHANGED hc
      /\ w' = [w EXCEPT ![i] = [Idle EXCEPT !.at = "exit", !.op = "create", !.chain = c, !.todo = Chs]]
  BY <1>2 DEF CreateBegin
<1>4. chain[c] = "none"
  BY <1>1, <1>2, NewChain DEF Rows
<1>5. /\ chain'[c] = "pending"
      /\ \A d \in Chains \ {c} : chain'[d] = chain[d] /\ chan'[d] = chan[d] /\ keyed'[d] = keyed[d]
  BY <1>1, <1>3 DEF DbOK
<1>6. w'[i] = [Idle EXCEPT !.at = "exit", !.op = "create", !.chain = c, !.todo = Chs]
      /\ \A j \in Workers \ {i} : w'[j] = w[j]
  BY <1>1, <1>3 DEF WorkersOK
<1>7. w'[i].at = "exit" /\ w'[i].op = "create" /\ w'[i].chain = c
  BY <1>6 DEF Idle
<1>8. (\A d \in Chains \ {c} : d \in mixed' <=> d \in mixed)
      /\ (c \notin mixed' => hc.chain # c /\ \A j \in Workers : w[j].chain # c)
  BY <1>4, <1>5 DEF Mixing
<1>9. ASSUME NEW d \in Chains \ mixed' PROVE KeyInv(d)'
  <2>1. CASE d # c
    <3>1. KeyInv(d)
      BY <1>8, <2>1 DEF KeysInv
    <3>2. \A j \in Workers : Creator(j, d)' => Creator(j, d) /\ w'[j] = w[j]
      BY <1>6, <1>7, <2>1 DEF Creator
    <3> QED BY <1>3, <1>5, <2>1, <3>1, <3>2 DEF KeyInv
  <2>2. CASE d = c
    <3>1. \A j \in Workers : Creator(j, d)' => j = i
      BY <1>6, <1>8, <2>2 DEF Creator
    <3> QED BY <1>3, <1>5, <1>7, <1>8, <2>2, <3>1 DEF KeyInv, Live, Material
  <2> QED BY <2>1, <2>2
<1> QED BY <1>1, <1>6, <1>7, <1>9 DEF KeysInv

\* The drift check: it begins with a live chain, and writes to a live one.
LEMMA CheckKey ==
  ASSUME XuiInv, GhostOK, KeysInv, Mixing, CheckStep
  PROVE  /\ KeysInv' /\ mixed' = mixed /\ UNCHANGED <<chan, keyed, w, tmpl, conf>>
         /\ \A c \in Chains : chain[c] = "none" <=> chain'[c] = "none"
         /\ \A c \in Chains \ mixed : chain'[c] \in Live => chain[c] \in Live
<1>1. DbOK /\ CheckOK
  BY DEF XuiInv, Data
<1>2. UNCHANGED <<chan, keyed, w, tmpl, conf>>
  BY DEF CheckStep, CheckBegin, CheckProbe, CheckWrite, db, panel
<1>3. CASE CheckBegin
  <2>1. PICK c \in Chains : chain[c] \in Live /\ hc' = [hc EXCEPT !.at = "probe", !.chain = c, !.was = chain[c]]
    BY <1>3 DEF CheckBegin, Live
  <2>2. UNCHANGED chain /\ hc'.chain = c
    BY <1>1, <1>3, <2>1 DEF CheckBegin, db, CheckOK
  <2>3. mixed' = mixed
    BY <2>2, NoneNew
  <2>4. ASSUME NEW d \in Chains \ mixed PROVE KeyInv(d)'
    BY <1>2, <2>1, <2>2 DEF KeysInv, KeyInv, Creator
  <2> QED BY <1>2, <2>2, <2>3, <2>4 DEF KeysInv
<1>4. CASE CheckProbe
  <2>1. UNCHANGED chain /\ hc'.chain = hc.chain
    BY <1>1, <1>4 DEF CheckProbe, db, CheckOK
  <2>2. mixed' = mixed
    BY <2>1, NoneNew
  <2>3. \A i \in Workers : Creates(i)
    BY <1>2 DEF Creates
  <2> QED BY <1>2, <2>1, <2>2, <2>3, KeyStill
<1>5. CASE CheckWrite
  <2>1. /\ hc'.chain = 0 /\ hc.now \in Live
        /\ chain' = chain \/ (chain[hc.chain] # "none" /\ chain' = [chain EXCEPT ![hc.chain] = hc.now])
    BY <1>1, <1>5 DEF CheckWrite, CheckOK
  <2>2. /\ \A c \in Chains : chain[c] = "none" <=> chain'[c] = "none"
        /\ \A c \in Chains : chain'[c] = chain[c] \/ (c = hc.chain /\ chain[c] # "none" /\ chain'[c] \in Live)
    BY <1>1, <2>1 DEF DbOK, Live
  <2>3. mixed' = mixed
    BY <2>2, NoneNew
  <2>4. ASSUME NEW d \in Chains \ mixed PROVE KeyInv(d)' /\ (chain'[d] \in Live => chain[d] \in Live)
    <3>1. KeyInv(d) /\ d # 0
      BY IdsAssumption DEF KeysInv
    <3>2. chain'[d] = chain[d] \/ (chain[d] \in Live /\ chain'[d] \in Live)
      BY <2>2, <3>1 DEF KeyInv
    <3>3. \A i \in Workers : Creator(i, d)' <=> Creator(i, d)
      BY <1>2 DEF Creator
    <3>4. chain[d] \in Live => \A i \in Workers : ~Creator(i, d)
      BY <3>1 DEF KeyInv, Live
    <3> QED BY <1>2, <2>1, <3>1, <3>2, <3>3, <3>4 DEF KeyInv
  <2> QED BY <1>2, <2>2, <2>3, <2>4 DEF KeysInv
<1> QED BY <1>3, <1>4, <1>5 DEF CheckStep

LEMMA ClientCommitMoves ==
  ASSUME XuiInv, NEW i \in Workers, ClientCommit(i) \/ UnclientCommit(i)
  PROVE  Moves(i) /\ w'[i] = Idle /\ UNCHANGED <<chain, chan, keyed, hc>>
<1>1. WorkersOK /\ w[i].at # "idle" /\ Stop(i) /\ UNCHANGED <<chain, chan, keyed, hc>>
  BY DEF XuiInv, Data, ClientCommit, UnclientCommit
<1> QED BY <1>1, StopMoves

\* How a request begins that creates no chain.
LEMMA DeleteBeginMoves ==
  ASSUME XuiInv, NEW i \in Workers, DeleteBegin(i)
  PROVE  /\ w[i] = Idle /\ (\A j \in Workers \ {i} : w'[j] = w[j]) /\ UNCHANGED <<chain, chan, keyed, hc>>
         /\ \E c \in Rows :
              /\ w'[i].op = "delete" /\ w'[i].chain = c
              /\ w'[i].at = IF Rows = {c} THEN "clear" ELSE "push"
              /\ w'[i].tmpl = RelayTemplate(Rows \ {c}, chan, 0)
<1>1. WorkersOK /\ w[i] = Idle /\ UNCHANGED <<chain, chan, keyed, hc>>
  BY DEF XuiInv, Data, Own, WorkOK, DeleteBegin, db
<1> DEFINE X(c) == [Idle EXCEPT !.op = "delete", !.chain = c,
                                !.at = IF Rows = {c} THEN "clear" ELSE "push",
                                !.tmpl = RelayTemplate(Rows \ {c}, chan, 0)]
<1>2. PICK c \in Rows : w' = [w EXCEPT ![i] = X(c)]
  BY DEF DeleteBegin
<1>3. w'[i] = X(c) /\ \A j \in Workers \ {i} : w'[j] = w[j]
  BY <1>1, <1>2 DEF WorkersOK
<1>4. /\ w'[i].op = "delete" /\ w'[i].chain = c
      /\ w'[i].at = (IF Rows = {c} THEN "clear" ELSE "push")
      /\ w'[i].tmpl = RelayTemplate(Rows \ {c}, chan, 0)
  BY <1>3 DEF Idle
<1> QED BY <1>1, <1>3, <1>4

LEMMA ChannelBeginMoves ==
  ASSUME XuiInv, NEW i \in Workers, ChannelBegin(i)
  PROVE  /\ w[i] = Idle /\ (\A j \in Workers \ {i} : w'[j] = w[j]) /\ UNCHANGED <<chain, chan, keyed, hc>>
         /\ \E c \in Rows : \E h \in chan[c] :
              /\ w'[i].op = "channel" /\ w'[i].chain = c /\ w'[i].ch = h /\ w'[i].todo = chan[c] \ {h}
              /\ w'[i].at = IF h \notin keyed[c] THEN "commit"
                            ELSE IF chan[c] = {h} THEN "clear" ELSE "push"
              /\ w'[i].tmpl = RelayTemplate(Rows, [chan EXCEPT ![c] = @ \ {h}], c)
<1>1. WorkersOK /\ w[i] = Idle /\ UNCHANGED <<chain, chan, keyed, hc>>
  BY DEF XuiInv, Data, Own, WorkOK, ChannelBegin
<1> DEFINE X(c, h) ==
            [Idle EXCEPT !.op = "channel", !.chain = c, !.ch = h, !.todo = chan[c] \ {h},
                         !.nodes = OfChannel(pairs, c, h) \cap nodes,
                         !.at = IF h \notin keyed[c] THEN "commit"
                                ELSE IF chan[c] = {h} THEN "clear" ELSE "push",
                         !.tmpl = RelayTemplate(Rows, [chan EXCEPT ![c] = @ \ {h}], c)]
<1>2. PICK c \in Rows : \E h \in chan[c] : w' = [w EXCEPT ![i] = X(c, h)]
  BY DEF ChannelBegin
<1>3. PICK h \in chan[c] : w' = [w EXCEPT ![i] = X(c, h)]
  BY <1>2
<1>4. w'[i] = X(c, h) /\ \A j \in Workers \ {i} : w'[j] = w[j]
  BY <1>1, <1>3 DEF WorkersOK
<1>5. /\ w'[i].op = "channel" /\ w'[i].chain = c /\ w'[i].ch = h /\ w'[i].todo = chan[c] \ {h}
      /\ w'[i].at = (IF h \notin keyed[c] THEN "commit" ELSE IF chan[c] = {h} THEN "clear" ELSE "push")
      /\ w'[i].tmpl = RelayTemplate(Rows, [chan EXCEPT ![c] = @ \ {h}], c)
  BY <1>4 DEF Idle
<1> QED BY <1>1, <1>4, <1>5

LEMMA ClientBeginMoves ==
  ASSUME XuiInv, NEW i \in Workers, ClientBegin(i) \/ UnclientBegin(i)
  PROVE  /\ w[i] = Idle /\ (\A j \in Workers \ {i} : w'[j] = w[j]) /\ UNCHANGED <<chain, chan, keyed, hc>>
         /\ w'[i].op \in {"client", "unclient"} /\ w'[i].at \in {"add", "remove"}
<1>1. WorkersOK /\ w[i] = Idle /\ UNCHANGED <<chain, chan, keyed, hc>>
  BY DEF XuiInv, Data, Own, WorkOK, ClientBegin, UnclientBegin, db
<1>2. CASE ClientBegin(i)
  <2> DEFINE X(c, k) == [Idle EXCEPT !.op = "client", !.at = "add", !.chain = c, !.client = k, !.todo = chan[c]]
  <2>1. PICK c \in Rows : \E k \in users : w' = [w EXCEPT ![i] = X(c, k)]
    BY <1>2 DEF ClientBegin
  <2>2. PICK k \in users : w' = [w EXCEPT ![i] = X(c, k)]
    BY <2>1
  <2>3. w'[i] = X(c, k) /\ \A j \in Workers \ {i} : w'[j] = w[j]
    BY <1>1, <2>2 DEF WorkersOK
  <2>4. w'[i].op = "client" /\ w'[i].at = "add"
    BY <2>3 DEF Idle
  <2> QED BY <1>1, <2>3, <2>4
<1>3. CASE UnclientBegin(i)
  <2> DEFINE X(t) == [Idle EXCEPT !.op = "unclient", !.at = "remove", !.chain = t[1], !.client = t[3],
                                  !.added = {p \in pairs : p[3] = t[3]},
                                  !.nodes = {p \in pairs : p[3] = t[3]} \cap nodes]
  <2>1. PICK t \in pairs : w' = [w EXCEPT ![i] = X(t)]
    BY <1>3 DEF UnclientBegin
  <2>2. w'[i] = X(t) /\ \A j \in Workers \ {i} : w'[j] = w[j]
    BY <1>1, <2>1 DEF WorkersOK
  <2>3. w'[i].op = "unclient" /\ w'[i].at = "remove"
    BY <2>2 DEF Idle
  <2> QED BY <1>1, <2>2, <2>3
<1> QED BY <1>2, <1>3

LEMMA KeysStep ==
  ASSUME XuiInv, GhostOK, KeysInv, [Next]_vars
  PROVE  KeysInv'
<1>1. ASSUME Mixing, NEW i \in Workers, WorkStep(i) PROVE KeysInv'
  <2>1. ASSUME Creates(i), \A j \in Workers \ {i} : w'[j] = w[j], UNCHANGED <<chain, chan, keyed, hc>>
        PROVE  KeysInv'
    BY <1>1, <2>1, CreatesOthers, KeyStill
  <2>2. ASSUME Moves(i), w'[i] = Idle, UNCHANGED <<chain, chan, keyed, hc>> PROVE KeysInv'
    BY <2>1, <2>2, IdleCreates DEF Moves
  <2>3. ASSUME NEW s \in Sides, AddInbound(i, s) PROVE KeysInv'
    BY <2>1, <2>3, AddInboundMoves DEF Moves
  <2>4. CASE SaveKeys(i)
    BY <1>1, <2>4, SaveKeysKey
  <2>5. CASE Build(i)
    BY <2>1, <2>5, BuildMoves DEF Moves
  <2>6. CASE Push(i)
    BY <2>1, <2>6, PushMoves DEF Moves
  <2>7. CASE Restart(i)
    BY <2>1, <2>7, RestartMoves DEF Moves
  <2>8. CASE Finish(i) \/ Fail(i)
    BY <1>1, <2>8, FinishKey
  <2>9. CASE Undo(i)
    BY <2>1, <2>9, UndoMoves DEF Moves
  <2>10. CASE Clear(i)
    BY <2>1, <2>10, ClearMoves DEF Moves
  <2>11. CASE DeleteCommit(i) \/ DropChain(i)
    BY <1>1, <2>11, DeleteKey
  <2>12. CASE ChannelCommit(i)
    BY <1>1, <2>12, ChannelCommitKey
  <2>13. CASE AddClient(i)
    BY <2>1, <2>13, AddClientMoves DEF Moves
  <2>14. CASE ReloadClients(i)
    BY <2>1, <2>14, ReloadClientsMoves DEF Moves
  <2>15. CASE RemoveClients(i)
    BY <2>1, <2>15, RemoveClientsMoves DEF Moves
  <2>16. CASE ClientCommit(i) \/ UnclientCommit(i)
    BY <2>2, <2>16, ClientCommitMoves
  <2> QED BY <1>1, <2>3, <2>4, <2>5, <2>6, <2>7, <2>8, <2>9, <2>10, <2>11, <2>12, <2>13, <2>14,
             <2>15, <2>16 DEF WorkStep
<1>2. ASSUME Mixing, NEW i \in Workers, Begin(i) PROVE KeysInv'
  <2>1. CASE CreateBegin(i)
    BY <1>2, <2>1, CreateBeginKey
  <2>2. CASE DeleteBegin(i) \/ ChannelBegin(i) \/ ClientBegin(i) \/ UnclientBegin(i)
    <3>1. w'[i].op # "create" /\ (\A j \in Workers \ {i} : w'[j] = w[j]) /\ UNCHANGED <<chain, chan, keyed, hc>>
      <4>1. CASE DeleteBegin(i)
        BY <4>1, DeleteBeginMoves
      <4>2. CASE ChannelBegin(i)
        BY <4>2, ChannelBeginMoves
      <4>3. CASE ClientBegin(i) \/ UnclientBegin(i)
        BY <4>3, ClientBeginMoves
      <4> QED BY <2>2, <4>1, <4>2, <4>3
    <3> QED BY <1>2, <3>1, CreatesOthers, KeyStill DEF Creates
  <2> QED BY <1>2, <2>1, <2>2 DEF Begin
<1>3. ASSUME Mixing, Export \/ Drift PROVE KeysInv'
  BY <1>3, KeyStill DEF Export, Drift, Creates, db
<1>4. ASSUME Mixing, Crash PROVE KeysInv'
  <2>1. UNCHANGED <<chain, chan, keyed>> /\ hc'.chain = 0 /\ \A i \in Workers : w'[i] = Idle
    BY <1>4 DEF Crash, XuiInv, Data, CheckOK
  <2> QED BY <1>4, <2>1, IdleCreates, KeyStill
<1>5. CASE UNCHANGED vars
  <2>1. UNCHANGED <<chain, chan, keyed, hc, w, mixed>>
    BY <1>5 DEF vars, db, ghost
  <2> QED BY <2>1 DEF KeysInv, KeyInv, Creator
<1> QED BY <1>1, <1>2, <1>3, <1>4, <1>5, CheckKey DEF Next, Step, Event

-----------------------------------------------------------------------------
(* An orchestration that has met nobody: its template holds every route     *)
(* that it owes, and the relay's xray runs with them when it ends.          *)

Due(i) == {r \in Routes :
  /\ r[3] /\ r[1] \notin mixed /\ r[2] \in keyed[r[1]]
  /\ chain[r[1]] \in Live \/ (w[i].op = "create" /\ r[1] = w[i].chain)
  /\ ~(w[i].op = "delete" /\ r[1] = w[i].chain)
  /\ ~(w[i].op = "channel" /\ r[1] = w[i].chain /\ r[2] = w[i].ch)}

\* The changes that LoneChangeServesAll speaks of.
Counts(i) == \/ w[i].op \in {"create", "delete"}
             \/ w[i].op = "channel" /\ w[i].todo # {} /\ w[i].ch \in keyed[w[i].chain]

Ready(i) == Counts(i) =>
  /\ w[i].at = "push" => Due(i) \subseteq w[i].tmpl
  /\ w[i].at = "restart" => Due(i) \subseteq tmpl
  /\ w[i].at \in {"finish", "commit"} => Due(i) \subseteq conf.routes
  /\ w[i].at = "clear" => Due(i) = {}

LoneInv == alone => \A i \in Workers : w[i].at # "idle" =>
  /\ \A j \in Workers : w[j].at # "idle" => j = i
  /\ Ready(i)

Alone == alone' = (\/ Working' = {} \/ Working = {}
                   \/ alone /\ Working' \subseteq Working /\ left' = left)

\* A step of the only request under way.
LEMMA LoneWork ==
  ASSUME LoneInv, Alone, NEW i \in Workers, Moves(i),
         w'[i].at # "idle" /\ alone /\ left' = left => Ready(i)'
  PROVE  LoneInv'
<1> SUFFICES ASSUME alone' PROVE LoneInv'
  BY DEF LoneInv
<1>1. i \in Working /\ \A j \in Workers \ {i} : w'[j] = w[j]
  BY DEF Moves, Working
<1>2. CASE Working' = {}
  BY <1>2 DEF LoneInv, Working
<1>3. CASE Working' # {}
  <2>1. alone /\ left' = left
    BY <1>1, <1>3 DEF Alone
  <2>2. \A j \in Workers \ {i} : w'[j].at = "idle"
    BY <1>1, <2>1 DEF LoneInv, Working
  <2> QED BY <2>1, <2>2 DEF LoneInv
<1> QED BY <1>2, <1>3

\* A request that begins counts as undisturbed only if it is the first.
LEMMA LoneBegin ==
  ASSUME LoneInv, Alone, NEW i \in Workers, w[i] = Idle, \A j \in Workers \ {i} : w'[j] = w[j],
         w'[i].at # "idle", Ready(i)'
  PROVE  LoneInv'
<1> SUFFICES ASSUME alone' PROVE LoneInv'
  BY DEF LoneInv
<1>1. i \notin Working /\ i \in Working'
  BY DEF Working, Idle
<1>2. Working = {}
  BY <1>1 DEF Alone
<1>3. \A j \in Workers \ {i} : w'[j].at = "idle"
  BY <1>2 DEF Working
<1> QED BY <1>3 DEF LoneInv

\* What a template that was built from the rows holds.
LEMMA DueBuilt ==
  ASSUME XuiInv, GhostOK, NEW i \in Workers, mixed' = mixed, UNCHANGED <<chain, chan, keyed>>,
         NEW rows, NEW channels, NEW with,
         \A r \in Due(i)' : /\ r[1] \in rows /\ r[2] \in channels[r[1]]
                            /\ chain[r[1]] \in Live \/ r[1] = with
  PROVE  Due(i)' \subseteq RelayTemplate(rows, channels, with)
BY DEF Due, RelayTemplate, Live

LEMMA DueRows ==
  ASSUME XuiInv, NEW i \in Workers
  PROVE  \A r \in Due(i) : r[1] \in Rows /\ r[2] \in chan[r[1]]
<1>1. DbOK /\ RowsInv
  BY DEF XuiInv, Data
<1>2. \A c \in Chains : keyed[c] \subseteq chan[c] /\ (c \notin Rows => chan[c] = {})
  BY <1>1 DEF DbOK, RowsInv, Rows
<1> QED BY <1>2 DEF Due, Routes

LEMMA DueStill ==
  ASSUME NEW i \in Workers, mixed' = mixed, UNCHANGED <<chain, keyed>>, w'[i].op = w[i].op,
         w'[i].chain = w[i].chain, w'[i].ch = w[i].ch
  PROVE  Due(i)' = Due(i)
BY DEF Due

LEMMA LoneWorkStep ==
  ASSUME XuiInv, GhostOK, KeysInv, LoneInv, Mixing, Alone, NEW i \in Workers, WorkStep(i)
  PROVE  LoneInv'
<1> DEFINE Quiet == w'[i].at \notin {"push", "restart", "finish", "commit", "clear"}
<1>1. ASSUME Moves(i), Quiet PROVE LoneInv'
  BY <1>1, LoneWork DEF Ready
<1>2. ASSUME Moves(i), w'[i] = Idle PROVE LoneInv'
  BY <1>1, <1>2 DEF Idle
<1>3. ASSUME NEW s \in Sides, AddInbound(i, s) PROVE LoneInv'
  BY <1>1, <1>3, AddInboundMoves
<1>4. CASE SaveKeys(i)
  BY <1>1, <1>4, SaveKeysKey
<1>5. CASE Build(i)
  <2>1. /\ Moves(i) /\ w'[i].at = "push" /\ UNCHANGED <<chain, chan, keyed, hc>>
        /\ w[i].op = "create" /\ w'[i].op = "create" /\ w'[i].chain = w[i].chain
        /\ w'[i].tmpl = RelayTemplate(Rows, chan, w[i].chain)
    BY <1>5, BuildMoves
  <2>2. mixed' = mixed
    BY <2>1, NoneNew
  <2>3. XuiInv'
    BY <1>5, BuildStep
  <2>4. \A r \in Due(i)' : r[1] \in Rows /\ r[2] \in chan[r[1]] /\ (chain[r[1]] \in Live \/ r[1] = w[i].chain)
    <3>1. \A c \in Chains : keyed[c] \subseteq chan[c] /\ (c \notin Rows => chan[c] = {})
      BY DEF XuiInv, Data, DbOK, RowsInv, Rows
    <3> QED BY <2>1, <3>1 DEF Due, Routes
  <2>5. Due(i)' \subseteq w'[i].tmpl
    BY <2>1, <2>2, <2>4, DueBuilt
  <2> QED BY <2>1, <2>5, LoneWork DEF Ready
<1>6. CASE Push(i)
  <2>1. /\ Moves(i) /\ UNCHANGED <<chain, chan, keyed, hc>> /\ w[i].at = "push"
        /\ w'[i].at \in {"restart", "undo", "commit"}
        /\ left' = left => w'[i].at = "restart" /\ tmpl' = w[i].tmpl
    BY <1>6, PushMoves
  <2>2. mixed' = mixed
    BY <2>1, NoneNew
  <2>3. ASSUME alone, left' = left, Counts(i)' PROVE Due(i)' \subseteq tmpl'
    <3>1. /\ w'[i].op = w[i].op /\ w'[i].chain = w[i].chain /\ w'[i].ch = w[i].ch
          /\ w[i].op \in {"delete", "channel"} => w'[i].todo = w[i].todo
      BY <2>1, <2>3 DEF Moves, Counts, Idle
    <3>2. Counts(i)
      BY <2>1, <2>3, <3>1 DEF Counts
    <3>3. Due(i) \subseteq w[i].tmpl
      BY <2>1, <2>3, <3>2 DEF LoneInv, Ready
    <3> QED BY <2>1, <2>2, <2>3, <3>1, <3>3, DueStill
  <2> QED BY <2>1, <2>3, LoneWork DEF Ready
<1>7. CASE Restart(i)
  <2>1. /\ Moves(i) /\ UNCHANGED <<chain, chan, keyed, hc>> /\ w[i].at = "restart"
        /\ w'[i].at \in {"finish", "undo", "commit"}
        /\ left' = left => w'[i].at \in {"finish", "commit"} /\ conf'.routes = tmpl
    BY <1>7, RestartMoves
  <2>2. mixed' = mixed
    BY <2>1, NoneNew
  <2>3. ASSUME alone, left' = left, Counts(i)' PROVE Due(i)' \subseteq conf'.routes
    <3>1. /\ w'[i].op = w[i].op /\ w'[i].chain = w[i].chain /\ w'[i].ch = w[i].ch
          /\ w[i].op \in {"delete", "channel"} => w'[i].todo = w[i].todo
      BY <2>1, <2>3 DEF Moves, Counts, Idle
    <3>2. Counts(i)
      BY <2>1, <2>3, <3>1 DEF Counts
    <3>3. Due(i) \subseteq tmpl
      BY <2>1, <2>3, <3>2 DEF LoneInv, Ready
    <3> QED BY <2>1, <2>2, <2>3, <3>1, <3>3, DueStill
  <2> QED BY <2>1, <2>3, LoneWork DEF Ready
<1>8. CASE Finish(i) \/ Fail(i)
  BY <1>2, <1>8, FinishKey
<1>9. CASE Undo(i)
  BY <1>1, <1>9, UndoMoves
<1>10. CASE Clear(i)
  <2>1. /\ Moves(i) /\ UNCHANGED <<chain, chan, keyed, hc>> /\ w[i].at = "clear" /\ w'[i].at = "commit"
    BY <1>10, ClearMoves
  <2>2. mixed' = mixed
    BY <2>1, NoneNew
  <2>3. ASSUME alone, Counts(i)' PROVE Due(i)' = {}
    <3>1. /\ w'[i].op = w[i].op /\ w'[i].chain = w[i].chain /\ w'[i].ch = w[i].ch
          /\ w[i].op \in {"delete", "channel"} => w'[i].todo = w[i].todo
      BY <2>1, <2>3 DEF Moves, Counts, Idle
    <3>2. Counts(i)
      BY <2>1, <2>3, <3>1 DEF Counts
    <3> QED BY <2>1, <2>2, <2>3, <3>1, <3>2, DueStill DEF LoneInv, Ready
  <2> QED BY <2>1, <2>3, LoneWork DEF Ready
<1>11. CASE DeleteCommit(i) \/ DropChain(i)
  BY <1>2, <1>11, DeleteKey
<1>12. CASE ChannelCommit(i)
  BY <1>1, <1>12, ChannelCommitKey
<1>13. CASE AddClient(i)
  BY <1>1, <1>13, AddClientMoves
<1>14. CASE ReloadClients(i)
  BY <1>14, ReloadClientsMoves, LoneWork DEF Ready, Counts
<1>15. CASE RemoveClients(i)
  BY <1>1, <1>15, RemoveClientsMoves
<1>16. CASE ClientCommit(i) \/ UnclientCommit(i)
  BY <1>2, <1>16, ClientCommitMoves
<1> QED BY <1>3, <1>4, <1>5, <1>6, <1>7, <1>8, <1>9, <1>10, <1>11, <1>12, <1>13, <1>14,
           <1>15, <1>16 DEF WorkStep

LEMMA LoneBeginStep ==
  ASSUME XuiInv, GhostOK, LoneInv, KeysInv, Mixing, Alone, NEW i \in Workers, Begin(i)
  PROVE  LoneInv'
<1>1. \A c \in Chains : keyed[c] \subseteq chan[c] /\ (c \notin Rows => chan[c] = {}) /\ (chain[c] \in Live => c \in Rows)
  BY DEF XuiInv, Data, DbOK, RowsInv, Rows, Live
<1>2. CASE CreateBegin(i)
  <2>1. w'[i].at = "exit" /\ w[i] = Idle /\ \A j \in Workers \ {i} : w'[j] = w[j]
    BY <1>2, CreateBeginKey
  <2> QED BY <2>1, LoneBegin DEF Ready
<1>3. CASE ClientBegin(i) \/ UnclientBegin(i)
  <2>1. /\ w[i] = Idle /\ (\A j \in Workers \ {i} : w'[j] = w[j])
        /\ w'[i].op \in {"client", "unclient"} /\ w'[i].at \in {"add", "remove"}
    BY <1>3, ClientBeginMoves
  <2> QED BY <2>1, LoneBegin DEF Ready
<1>4. CASE DeleteBegin(i)
  <2>1. PICK c \in Rows :
          /\ w[i] = Idle /\ (\A j \in Workers \ {i} : w'[j] = w[j]) /\ UNCHANGED <<chain, chan, keyed, hc>>
          /\ w'[i].op = "delete" /\ w'[i].chain = c
          /\ w'[i].at = IF Rows = {c} THEN "clear" ELSE "push"
          /\ w'[i].tmpl = RelayTemplate(Rows \ {c}, chan, 0)
    BY <1>4, DeleteBeginMoves
  <2>2. mixed' = mixed
    BY <2>1, NoneNew
  <2>3. \A r \in Due(i)' : r[1] \in Rows \ {c} /\ r[2] \in chan[r[1]] /\ chain[r[1]] \in Live
    BY <1>1, <2>1 DEF Due, Routes
  <2>4. Due(i)' \subseteq w'[i].tmpl
    BY <2>1, <2>2, <2>3, DueBuilt
  <2>5. w'[i].at = "clear" => Due(i)' = {}
    BY <2>1, <2>3
  <2> QED BY <2>1, <2>4, <2>5, LoneBegin DEF Ready
<1>5. CASE ChannelBegin(i)
  <2>1. PICK c \in Rows : \E h \in chan[c] :
          /\ w[i] = Idle /\ (\A j \in Workers \ {i} : w'[j] = w[j]) /\ UNCHANGED <<chain, chan, keyed, hc>>
          /\ w'[i].op = "channel" /\ w'[i].chain = c /\ w'[i].ch = h /\ w'[i].todo = chan[c] \ {h}
          /\ w'[i].at = IF h \notin keyed[c] THEN "commit"
                            ELSE IF chan[c] = {h} THEN "clear" ELSE "push"
          /\ w'[i].tmpl = RelayTemplate(Rows, [chan EXCEPT ![c] = @ \ {h}], c)
    BY <1>5, ChannelBeginMoves
  <2>2. PICK h \in chan[c] :
          /\ w'[i].ch = h /\ w'[i].todo = chan[c] \ {h}
          /\ w'[i].at = IF h \notin keyed[c] THEN "commit"
                            ELSE IF chan[c] = {h} THEN "clear" ELSE "push"
          /\ w'[i].tmpl = RelayTemplate(Rows, [chan EXCEPT ![c] = @ \ {h}], c)
    BY <2>1
  <2>3. /\ w[i] = Idle /\ (\A j \in Workers \ {i} : w'[j] = w[j]) /\ UNCHANGED <<chain, chan, keyed, hc>>
        /\ w'[i].op = "channel" /\ w'[i].chain = c
    BY <2>1
  <2>4. mixed' = mixed
    BY <2>3, NoneNew
  <2> DEFINE less == [chan EXCEPT ![c] = @ \ {h}]
  <2>5. c \in Chains /\ less[c] = chan[c] \ {h} /\ \A d \in Chains \ {c} : less[d] = chan[d]
    BY DEF XuiInv, Data, DbOK, Rows
  <2> HIDE DEF less
  <2>6. \A r \in Due(i)' : r[1] \in Rows /\ r[2] \in less[r[1]] /\ chain[r[1]] \in Live
    BY <1>1, <2>2, <2>3, <2>5 DEF Due, Routes
  <2>7. Due(i)' \subseteq RelayTemplate(Rows, less, c)
    BY <2>3, <2>4, <2>6, DueBuilt
  <2>8. Due(i)' \subseteq w'[i].tmpl
    BY <2>2, <2>7 DEF less
  <2>9. Counts(i)' => w'[i].at = "push"
    BY <2>2, <2>3 DEF Counts
  <2>10. w'[i].at # "idle" /\ Ready(i)'
    BY <2>2, <2>8, <2>9 DEF Ready
  <2> QED BY <2>3, <2>10, LoneBegin
<1> QED BY <1>2, <1>3, <1>4, <1>5 DEF Begin

LEMMA LoneStep ==
  ASSUME XuiInv, GhostOK, KeysInv, LoneInv, [Next]_vars
  PROVE  LoneInv'
<1>1. ASSUME Mixing, Alone, Export PROVE LoneInv'
  <2>1. UNCHANGED w /\ left' # left
    BY <1>1, Kinds DEF Export, Spend, XuiInv, Data, LeftOK
  <2> QED BY <1>1, <2>1 DEF Alone, Working, LoneInv
<1>2. ASSUME Mixing, Alone, CheckStep PROVE LoneInv'
  <2>1. /\ mixed' = mixed /\ UNCHANGED <<chan, keyed, w, tmpl, conf>>
        /\ \A c \in Chains \ mixed : chain'[c] \in Live => chain[c] \in Live
    BY <1>2, CheckKey
  <2>2. ASSUME NEW i \in Workers PROVE Due(i)' \subseteq Due(i) /\ (Counts(i)' <=> Counts(i))
    BY <2>1 DEF Due, Routes, Counts
  <2>3. \A i \in Workers : Ready(i) => Ready(i)'
    BY <2>1, <2>2 DEF Ready
  <2> QED BY <1>2, <2>1, <2>3 DEF Alone, Working, LoneInv
<1>3. ASSUME alone' = (Working' = {}) PROVE LoneInv'
  BY <1>3 DEF Working, LoneInv
<1>4. ASSUME UNCHANGED vars PROVE LoneInv'
  <2>1. UNCHANGED <<chain, chan, keyed, tmpl, conf, w, alone, mixed>>
    BY <1>4 DEF vars, db, panel, ghost
  <2>2. \A i \in Workers : Ready(i) => Ready(i)'
    BY <2>1 DEF Ready, Due, Counts
  <2> QED BY <2>1, <2>2 DEF LoneInv
<1> QED BY <1>1, <1>2, <1>3, <1>4, LoneWorkStep, LoneBeginStep DEF Next, Step, Event, Alone

LEMMA LoneInit ==
  ASSUME Init
  PROVE  KeysInv /\ LoneInv /\ GhostOK
<1>1. \A c \in Chains : chain[c] = "none" /\ c # 0
  BY IdsAssumption DEF Init
<1>2. hc.chain = 0 /\ \A i \in Workers : w[i] = Idle
  BY DEF Init
<1> QED BY <1>1, <1>2 DEF KeysInv, KeyInv, Creator, LoneInv, GhostOK, Init, Idle, Live

LEMMA WorkMoves ==
  ASSUME XuiInv, GhostOK, KeysInv, Mixing, NEW i \in Workers, WorkStep(i)
  PROVE  Moves(i)
<1>1. ASSUME NEW s \in Sides, AddInbound(i, s) PROVE Moves(i)
  BY <1>1, AddInboundMoves
<1> QED BY <1>1, SaveKeysKey, BuildMoves, PushMoves, RestartMoves, FinishKey, UndoMoves, ClearMoves,
           DeleteKey, ChannelCommitKey, AddClientMoves, ReloadClientsMoves, RemoveClientsMoves,
           ClientCommitMoves DEF WorkStep

\* The orchestrations that LoneChangeServesAll speaks of complete in three steps.
LEMMA CompletesBy ==
  ASSUME XuiInv, GhostOK, KeysInv, [Next]_vars, NEW i \in Workers,
         w[i].op \in {"create", "delete", "channel"}, w[i].at = (IF w[i].op = "create" THEN "finish" ELSE "commit"),
         w'[i].at # w[i].at, left' = left
  PROVE  Mixing /\ (Finish(i) \/ DeleteCommit(i) \/ ChannelCommit(i))
<1>1. ASSUME Mixing, NEW j \in Workers, WorkStep(j)
      PROVE  Finish(i) \/ DeleteCommit(i) \/ ChannelCommit(i)
  <2>1. j = i
    BY <1>1, WorkMoves DEF Moves
  <2> QED BY <1>1, <2>1 DEF WorkStep, AddInbound, Sides, SaveKeys, Build, Push, Restart, Fail, Undo, Clear,
             DropChain, AddClient, ReloadClients, RemoveClients, ClientCommit, UnclientCommit
<1>2. ASSUME Mixing, NEW j \in Workers, Begin(j) PROVE FALSE
  <2>1. w[j] = Idle /\ \A k \in Workers \ {j} : w'[k] = w[k]
    BY <1>2, CreateBeginKey, DeleteBeginMoves, ChannelBeginMoves, ClientBeginMoves DEF Begin
  <2> QED BY <2>1 DEF Idle
<1>3. ~(Export \/ Drift \/ CheckStep \/ UNCHANGED vars)
  BY DEF Export, Drift, CheckStep, CheckBegin, CheckProbe, CheckWrite, vars
<1>4. ~Crash
  BY Kinds DEF Crash, Spend, XuiInv, Data, LeftOK
<1> QED BY <1>1, <1>2, <1>3, <1>4 DEF Next, Step, Event

\* What such a step leaves of the rows: nothing of what was deleted, and of the rest what was due.
LEMMA Serves ==
  ASSUME XuiInv, GhostOK, KeysInv, LoneInv, KeysInv', [Next]_vars, alone, NEW i \in Workers, Counts(i),
         w[i].at = (IF w[i].op = "create" THEN "finish" ELSE "commit"), w'[i].at # w[i].at, left' = left,
         NEW c \in Chains \ mixed', chain'[c] \in Live
  PROVE  Served(c)'
<1>1. Mixing /\ (Finish(i) \/ DeleteCommit(i) \/ ChannelCommit(i)) /\ w[i].op \in {"create", "delete", "channel"}
  BY CompletesBy DEF Counts
<1>2. mixed' = mixed /\ conf' = conf
  BY <1>1, FinishKey, DeleteKey, ChannelCommitKey
<1>3. Due(i) \subseteq conf.routes
  BY <1>1 DEF LoneInv, Ready
<1>4. DbOK /\ w[i].chain \in Chains /\ c \notin mixed /\ keyed[c] \subseteq Chs
  BY <1>1, <1>2 DEF XuiInv, Data, Own, WorkOK, DbOK, Finish, DeleteCommit, ChannelCommit
<1>5. keyed'[c] = chan'[c]
  BY DEF KeysInv, KeyInv
<1>6. ASSUME Finish(i), NEW h \in chan'[c] PROVE <<c, h, TRUE>> \in Due(i)
  <2>1. UNCHANGED <<chan, keyed>> /\ w[i].op = "create" /\ (chain'[c] # chain[c] => c = w[i].chain)
    BY <1>4, <1>6 DEF Finish, XuiInv, Own, WorkOK, Course, DbOK
  <2> QED BY <1>4, <1>5, <1>6, <2>1 DEF Due, Routes
<1>7. ASSUME DeleteCommit(i), NEW h \in chan'[c] PROVE <<c, h, TRUE>> \in Due(i)
  <2>1. c # w[i].chain /\ chain'[c] = chain[c] /\ keyed'[c] = keyed[c] /\ w[i].op = "delete"
    BY <1>4, <1>7 DEF DeleteCommit, DbOK, Live
  <2> QED BY <1>4, <1>5, <1>7, <2>1 DEF Due, Routes
<1>8. ASSUME ChannelCommit(i), NEW h \in chan'[c] PROVE <<c, h, TRUE>> \in Due(i)
  <2>1. chain' = chain /\ keyed'[c] = (IF c = w[i].chain THEN keyed[c] \ {w[i].ch} ELSE keyed[c])
        /\ w[i].op = "channel"
    BY <1>4, <1>8 DEF ChannelCommit, DbOK
  <2> QED BY <1>4, <1>5, <1>8, <2>1 DEF Due, Routes
<1> QED BY <1>1, <1>2, <1>3, <1>6, <1>7, <1>8 DEF Served

-----------------------------------------------------------------------------
(* The theorems.                                                            *)

\* Every variable keeps its type, the history of interference with it.
THEOREM XuiTyped == Spec => []TypeOK
<1>1. Init => GhostOK
  BY DEF Init, GhostOK
<1>2. GhostOK /\ [Next]_vars => GhostOK'
  BY DEF Next, Step, Event, Mixing, vars, ghost, GhostOK
<1>3. XuiInv /\ GhostOK => TypeOK
  BY DEF XuiInv, Data, DbOK, PanelOK, WorkersOK, CheckOK, LeftOK, AstrayOK, GhostOK, TypeOK
<1> QED BY <1>1, <1>2, <1>3, SpecInv, PTL DEF Spec

\* NothingStray: of the inbounds and clients on the panels PiTun has the row, a request that is
\* still working on them, or the fault, the undo or the deleted row that led them astray.
THEOREM PanelsAccounted == Spec => []NothingStray
<1>1. XuiInv => NothingStray
  BY DEF XuiInv
<1> QED BY <1>1, SpecInv, PTL

\* ClientsLive: a client the operator was given is one the relay's xray runs with, unless its
\* deletion has begun or its inbound went.
THEOREM GivenClientsWork == Spec => []ClientsLive
<1>1. XuiInv => ClientsLive
  BY DEF XuiInv, LiveInv, ClientsLive
<1> QED BY <1>1, SpecInv, PTL

\* NodesHaveClients: the nodes exported from a client go with it, with its channel and with its
\* chain, unless they came while it was being deleted.
THEOREM NodesGoWithClients == Spec => []NodesHaveClients
<1>1. XuiInv => NodesHaveClients
  BY DEF XuiInv
<1> QED BY <1>1, SpecInv, PTL

\* LoneChangeServesAll: a creation or a deletion that met nobody and no fault leaves every live
\* chain with its routes in the relay's running xray: the template it pushed was built from all
\* rows, and the chains whose status is live have the material of all their channels.
THEOREM LoneChangesServe == Spec => LoneChangeServesAll
<1> DEFINE I == XuiInv /\ GhostOK /\ KeysInv /\ LoneInv
           Change == alone /\ \E i \in Workers :
                       \/ Completes(i, "create") \/ Completes(i, "delete")
                       \/ Completes(i, "channel") /\ w[i].todo # {} /\ w[i].ch \in keyed[w[i].chain]
           After == \A c \in Chains \ mixed' : chain'[c] \in {"deployed", "degraded"} => Served(c)'
<1>1. Init => I
  BY InitInv, LoneInit
<1>2. I /\ [Next]_vars => I'
  <2>1. GhostOK /\ [Next]_vars => GhostOK'
    BY DEF Next, Step, Event, Mixing, vars, ghost, GhostOK
  <2> QED BY <2>1, NextInv, KeysStep, LoneStep
<1>3. I /\ I' /\ [Next]_vars => [Change => After]_vars
  <2> SUFFICES ASSUME I, I', [Next]_vars, Change PROVE After
    OBVIOUS
  <2>1. PICK i \in Workers : \/ Completes(i, "create") \/ Completes(i, "delete")
                             \/ Completes(i, "channel") /\ w[i].todo # {} /\ w[i].ch \in keyed[w[i].chain]
    OBVIOUS
  <2>2. /\ Counts(i) /\ w'[i].at # w[i].at /\ left' = left
        /\ w[i].at = (IF w[i].op = "create" THEN "finish" ELSE "commit")
    BY <2>1 DEF Completes, Counts
  <2> QED BY <2>2, Serves DEF Live
<1> QED BY <1>1, <1>2, <1>3, PTL DEF Spec, LoneChangeServesAll
===============================================================================
