---------------------------- MODULE WgClientsProofs ----------------------------
(***************************************************************************)
(* Proofs about WgClients, for any names, requests, nodes and bounds: for  *)
(* a name that one activity at a time has touched the rows are the peers,  *)
(* and a node that is not flagged has the key of a peer.                   *)
(***************************************************************************)
EXTENDS WgClients, FiniteSetTheorems, FunctionTheorems, WellFoundedInduction, TLAPS

Naming == {"add", "insert", "remove", "delete", "export"}
Carrying == {"remove", "delete", "export"}

ServerOK == vps \in {None} \cup [Names -> 0..MaxKeys] /\ keys \in 0..MaxKeys
DepOK == dep \in {None, "deployed", "failed"}
RowsOK ==
  /\ dc \in [Names -> Client \cup {None}]
  /\ dep = None => \A n \in Names : dc[n] = None
  /\ \A m, n \in Names : m # n /\ dc[m] # None /\ dc[n] # None => dc[m].id # dc[n].id
NodesOK == node \in [Slots -> Node \cup {None}]

\* What a request or a job carries from one of its steps to the next.
RequestsOK ==
  /\ req \in [Requests -> Request]
  /\ \A r \in Requests :
       /\ req[r].at \in Naming => req[r].n \in Names
       /\ req[r].at \in Carrying => req[r].row \in Client
       /\ req[r].at = "insert" => req[r].seen[req[r].n] \in Key
JobOK ==
  /\ job \in Job /\ adrift \in {None, "install", "uninstall"}
  /\ job.at \in {"install", "client"} => job.n \in Names
  /\ job.at = "client" => job.key \in Key
HistoryOK == left \in 0..MaxMishaps /\ alone \in [Requests -> BOOLEAN] /\ drift \subseteq Names

Typed == ServerOK /\ DepOK /\ RowsOK /\ NodesOK /\ RequestsOK /\ JobOK /\ HistoryOK

\* A name that has not drifted is in the hands of one request, or of the job, or of nobody.
OneActor ==
  /\ adrift # None => Names \subseteq drift
  /\ \A n \in Names \ drift, r \in Requests : n \in Scope(r) =>
       job.at = "idle" /\ \A q \in Requests \ {r} : n \notin Scope(q)

\* A request that has met nobody has the server to itself, and what it has seen is true.
AloneOK ==
  \A r \in Requests : alone[r] /\ req[r].at # "idle" =>
    /\ job.at = "idle" /\ adrift = None /\ \A q \in Requests \ {r} : req[q].at = "idle"
    /\ dep # None
    /\ req[r].at = "reconcile" => vps = req[r].seen

Match(n) == IF dc[n] # None THEN Peer(n) = dc[n].key ELSE Peer(n) = 0

\* The peer is changed and the row is not yet.
Mid(n) == \/ \E r \in Requests : n \in Scope(r) /\ req[r].at \in {"insert", "delete"}
          \/ job.at = "client" /\ job.n = n
          \/ job.at = "drop"

\* What a request that has the name n to itself still knows of it.
Serves(r, n) ==
  /\ dep # None
  /\ req[r].at \in {"add", "insert"} => dc[n] = None
  /\ req[r].at = "insert" => Peer(n) = req[r].seen[n]
  /\ req[r].at \in Carrying => dc[n] = req[r].row
  /\ req[r].at = "delete" => Peer(n) = 0
  /\ req[r].at = "reconcile" => req[r].seen[n] = Peer(n)

Live(i, n) == node[i] # None /\ ~node[i].orphan /\ node[i].n = n
NodesMatch(n) ==
  \A i \in Slots : Live(i, n) => dc[n] # None /\ node[i].from = dc[n].id /\ node[i].key = dc[n].key

NameOK(n) ==
  /\ dc[n] # None => dc[n].status # "orphan"
  /\ NodesMatch(n)
  /\ \A r \in Requests : n \in Scope(r) => Serves(r, n)
  /\ job.at = "client" /\ job.n = n => dc[n] = None /\ Peer(n) = job.key
  /\ job.at = "drop" => Peer(n) = 0
  /\ Mid(n) \/ Match(n)

WgInv == Typed /\ OneActor /\ AloneOK /\ \A n \in Names \ drift : NameOK(n)

-----------------------------------------------------------------------------
(* Types, and who has a name.                                              *)

LEMMA TypedOK == ASSUME Typed PROVE TypeOK
BY DEF Typed, ServerOK, DepOK, RowsOK, NodesOK, RequestsOK, JobOK, HistoryOK, TypeOK

LEMMA Zero == 0 \in 0..MaxKeys /\ MaxKeys \in Nat /\ NoPeers \in [Names -> 0..MaxKeys]
              /\ Key \subseteq 0..MaxKeys /\ 0 \notin Key
<1>1. MaxKeys \in Nat
  BY WgAssumption
<1> QED BY <1>1 DEF NoPeers, Key

LEMMA IdleTypes == /\ Idle \in Request /\ Idle.at = "idle" /\ Idle.n = None /\ Idle.row = None
                   /\ NoJob \in Job /\ NoJob.at = "idle"
BY Zero DEF Idle, Request, NoJob, Job

LEMMA ScopeFacts ==
  ASSUME RequestsOK, NEW r \in Requests
  PROVE  /\ Scope(r) \subseteq Names
         /\ req[r].at = "idle" => Scope(r) = {}
         /\ req[r].at \in {"list", "reconcile"} => Scope(r) = Names
         /\ req[r].at \in Naming => Scope(r) = {req[r].n}
         /\ req[r].at # "idle" => Scope(r) # {}
<1>1. req[r].at \in {"idle", "list", "reconcile"} \cup Naming
  BY DEF RequestsOK, Request, Naming
<1>2. Names # {}
  BY WgAssumption
<1> QED BY <1>1, <1>2 DEF Scope, Naming, RequestsOK

LEMMA OthersFacts ==
  ASSUME RequestsOK, NEW r
  PROVE  /\ \A n \in Names : n \notin Others(r) =>
              job.at = "idle" /\ adrift = None /\ \A q \in Requests \ {r} : n \notin Scope(q)
         /\ Others(r) = {} =>
              job.at = "idle" /\ adrift = None /\ \A q \in Requests \ {r} : req[q].at = "idle"
<1>1. \A n \in Names : n \notin Others(r) =>
        job.at = "idle" /\ adrift = None /\ \A q \in Requests \ {r} : n \notin Scope(q)
  BY DEF Others
<1>2. ASSUME Others(r) = {}
      PROVE  job.at = "idle" /\ adrift = None /\ \A q \in Requests \ {r} : req[q].at = "idle"
  <2>1. PICK n \in Names : TRUE
    BY WgAssumption
  <2>2. job.at = "idle" /\ adrift = None
    BY <1>1, <1>2, <2>1
  <2>3. \A q \in Requests \ {r} : Scope(q) = {}
    <3>1. ASSUME NEW q \in Requests \ {r}, NEW m \in Scope(q) PROVE FALSE
      <4>1. m \in Names
        BY ScopeFacts
      <4> QED BY <1>1, <1>2, <3>1, <4>1
    <3> QED BY <3>1
  <2> QED BY <2>2, <2>3, ScopeFacts
<1> QED BY <1>1, <1>2

LEMMA BeginFacts ==
  ASSUME HistoryOK, NEW r, NEW S \in SUBSET Names, Begin(r, S)
  PROVE  /\ HistoryOK' /\ drift \subseteq drift'
         /\ \A n \in S : n \notin drift' => n \notin Others(r)
         /\ \A q \in Requests : alone'[q] => q = r /\ Others(r) = {}
<1>1. left' \in 0..MaxMishaps
  <2>1. left \in Nat /\ left <= MaxMishaps /\ MaxMishaps \in Nat
    BY WgAssumption DEF HistoryOK
  <2>2. left' = left \/ (left > 0 /\ left' = left - 1)
    BY DEF Begin
  <2>3. left' \in Nat /\ left' <= MaxMishaps
    BY <2>1, <2>2
  <2> QED BY <2>3
<1>2. drift' = drift \cup (S \cap Others(r)) /\ alone' = [q \in Requests |-> q = r /\ Others(r) = {}]
  BY DEF Begin
<1> QED BY <1>1, <1>2 DEF HistoryOK

LEMMA MishapFacts ==
  ASSUME HistoryOK, NEW S \in SUBSET Names, Mishap(S)
  PROVE  /\ HistoryOK' /\ drift \subseteq drift' /\ S \subseteq drift'
         /\ \A q \in Requests : ~alone'[q]
<1>1. left' \in 0..MaxMishaps
  <2>1. left \in Nat /\ left <= MaxMishaps /\ MaxMishaps \in Nat
    BY WgAssumption DEF HistoryOK
  <2>2. left > 0 /\ left' = left - 1
    BY DEF Mishap
  <2>3. left' \in Nat /\ left' <= MaxMishaps
    BY <2>1, <2>2
  <2> QED BY <2>3
<1> QED BY <1>1 DEF HistoryOK, Mishap

LEMMA GoFacts ==
  ASSUME RequestsOK, NEW r \in Requests, NEW x \in Request, Go(r, x),
         x.at \in Naming => x.n \in Names, x.at \in Carrying => x.row \in Client,
         x.at = "insert" => x.seen[x.n] \in Key
  PROVE  RequestsOK' /\ req'[r] = x /\ \A q \in Requests \ {r} : req'[q] = req[q]
<1>1. /\ req'[r] = x /\ req' \in [Requests -> Request]
      /\ \A q \in Requests \ {r} : req'[q] = req[q]
  BY DEF Go, RequestsOK
<1> QED BY <1>1 DEF RequestsOK

\* A request that is done, or names what it named before, has no name that it had not.
LEMMA ScopeOf ==
  ASSUME NEW r \in Requests
  PROVE  /\ req[r].at = "idle" => Scope(r) = {}
         /\ \A x : req[r] = x => Scope(r) = CASE x.at = "idle" -> {}
                                              [] x.at \in {"list", "reconcile"} -> Names
                                              [] OTHER -> {x.n}
BY DEF Scope

-----------------------------------------------------------------------------
(* The peers.                                                              *)

LEMMA AddFacts ==
  ASSUME ServerOK, NEW m \in Names, AddPeer(m)
  PROVE  /\ ServerOK' /\ keys + 1 \in Key /\ Peer(m) = 0 /\ Peer(m)' = keys + 1
         /\ \A n \in Names \ {m} : Peer(n)' = Peer(n)
<1>1. vps \in [Names -> 0..MaxKeys] /\ vps # None /\ vps[m] = 0
      /\ vps' = [vps EXCEPT ![m] = keys + 1] /\ keys' = keys + 1
  BY DEF AddPeer, ServerOK
<1>2. keys + 1 \in Key /\ keys + 1 \in 0..MaxKeys
  <2>1. keys \in Nat /\ MaxKeys \in Nat /\ keys < MaxKeys
    BY WgAssumption DEF ServerOK, AddPeer
  <2> QED BY <2>1 DEF Key
<1>3. vps' \in [Names -> 0..MaxKeys] /\ vps'[m] = keys + 1 /\ \A n \in Names \ {m} : vps'[n] = vps[n]
  BY <1>1, <1>2
<1>4. vps' # None
  BY <1>3, NoneAssumption
<1> QED BY <1>1, <1>2, <1>3, <1>4 DEF ServerOK, Peer

LEMMA RemoveFacts ==
  ASSUME ServerOK, NEW m \in Names, RemovePeer(m)
  PROVE  /\ ServerOK' /\ Peer(m)' = 0 /\ \A n \in Names \ {m} : Peer(n)' = Peer(n)
<1>1. vps \in [Names -> 0..MaxKeys] /\ vps # None
      /\ vps' = [vps EXCEPT ![m] = 0] /\ keys' = keys
  BY DEF RemovePeer, ServerOK
<1>2. vps' \in [Names -> 0..MaxKeys] /\ vps'[m] = 0 /\ \A n \in Names \ {m} : vps'[n] = vps[n]
  BY <1>1, Zero
<1>3. vps' # None
  BY <1>2, NoneAssumption
<1> QED BY <1>1, <1>2, <1>3 DEF ServerOK, Peer

LEMMA SamePeers ==
  ASSUME ServerOK, UNCHANGED <<vps, keys>>
  PROVE  ServerOK' /\ \A n \in Names : Peer(n)' = Peer(n)
BY DEF ServerOK, Peer

-----------------------------------------------------------------------------
(* The rows and the nodes.                                                 *)

LEMMA LeastNat ==
  ASSUME NEW T \in SUBSET Nat, T # {}
  PROVE  \E m \in T : \A k \in T : m <= k
<1> DEFINE B == {0..n : n \in T}
<1>1. B \subseteq FiniteSubsetsOf(Nat) /\ B # {}
  <2>1. \A n \in T : IsFiniteSet(0..n) /\ 0..n \subseteq Nat
    BY FS_Interval
  <2> QED BY <2>1 DEF FiniteSubsetsOf
<1>2. IsWellFoundedOn(StrictSubsetOrdering(Nat), FiniteSubsetsOf(Nat))
  BY FS_StrictSubsetOrderingWellFounded
<1> HIDE DEF B
<1>3. PICK x \in B : \A y \in B : ~(<<y, x>> \in StrictSubsetOrdering(Nat))
  BY <1>1, <1>2, WFMin
<1>4. PICK m \in T : x = 0..m
  BY DEF B
<1>5. ASSUME NEW k \in T PROVE m <= k
  <2> SUFFICES ASSUME k < m PROVE FALSE
    OBVIOUS
  <2>1. ~(<<0..k, 0..m>> \in StrictSubsetOrdering(Nat))
    BY <1>3, <1>4 DEF B
  <2>2. 0..k \subseteq 0..m /\ 0..k # 0..m /\ 0..k \in SUBSET Nat /\ 0..m \in SUBSET Nat
    OBVIOUS
  <2> QED BY <2>1, <2>2 DEF StrictSubsetOrdering
<1> QED BY <1>5

\* A finite set of numbers has a greatest one: the one that leaves the fewest above it.
LEMMA MaxFacts ==
  ASSUME NEW S \in SUBSET Nat, IsFiniteSet(S), S # {}
  PROVE  Max(S) \in S /\ \A k \in S : k <= Max(S)
<1> DEFINE Above(m) == {j \in S : j > m}
           T == {Cardinality(Above(m)) : m \in S}
<1>1. \A m \in S : IsFiniteSet(Above(m)) /\ Cardinality(Above(m)) \in Nat
  <2>1. \A m \in S : Above(m) \in SUBSET S
    OBVIOUS
  <2> QED BY <2>1, FS_Subset, FS_CardinalityType
<1>2. PICK c \in T : \A d \in T : c <= d
  <2>1. T \in SUBSET Nat /\ T # {}
    BY <1>1
  <2> QED BY <2>1, LeastNat
<1>3. PICK m \in S : c = Cardinality(Above(m))
  BY <1>2
<1>4. ASSUME NEW k \in S PROVE m >= k
  <2> SUFFICES ASSUME ~(m >= k) PROVE FALSE
    OBVIOUS
  <2>1. k \in Nat /\ m \in Nat /\ k > m
    OBVIOUS
  <2>2. Above(k) \subseteq Above(m) \ {k}
    <3>1. ASSUME NEW j \in Above(k) PROVE j \in Above(m) /\ j # k
      <4>1. j \in Nat /\ j \in S /\ j > k
        OBVIOUS
      <4>2. j > m /\ j # k
        BY <2>1, <4>1
      <4> QED BY <4>1, <4>2
    <3> QED BY <3>1
  <2>3. k \in Above(m)
    BY <2>1
  <2> HIDE DEF Above, T
  <2>4. IsFiniteSet(Above(m) \ {k}) /\ Cardinality(Above(m) \ {k}) = Cardinality(Above(m)) - 1
    BY <1>1, <2>3, FS_RemoveElement
  <2>5. Cardinality(Above(k)) <= Cardinality(Above(m) \ {k})
    BY <2>2, <2>4, FS_Subset
  <2>6. c <= Cardinality(Above(k))
    BY <1>2 DEF T
  <2>7. Cardinality(Above(k)) \in Nat /\ Cardinality(Above(m)) \in Nat
    BY <1>1
  <2> QED BY <1>3, <2>4, <2>5, <2>6, <2>7
<1>5. \E x \in S : \A y \in S : x >= y
  BY <1>4
<1>6. Max(S) \in S /\ \A y \in S : Max(S) >= y
  BY <1>5 DEF Max
<1> QED BY <1>6

LEMMA NewIdFacts ==
  ASSUME RowsOK
  PROVE  NewId \in Nat \ {0} /\ \A n \in Names : dc[n] # None => dc[n].id < NewId
<1> DEFINE R == {n \in Names : dc[n] # None}
           I == {dc[n].id : n \in R}
<1>1. \A n \in R : dc[n].id \in Nat
  BY DEF RowsOK, Client
<1>2. IsFiniteSet(I)
  <2>1. IsFiniteSet(R)
    BY WgAssumption, FS_Subset
  <2>2. PICK f : f = [n \in R |-> dc[n].id]
    OBVIOUS
  <2>3. f \in Surjection(R, I)
    BY <2>2 DEF Surjection
  <2> QED BY <2>1, <2>3, FS_Surjection
<1>3. IsFiniteSet({0} \cup I)
  <2>1. {0} \cup I = I \cup {0}
    OBVIOUS
  <2> QED BY <1>2, <2>1, FS_AddElement
<1>4. {0} \cup I \in SUBSET Nat
  BY <1>1
<1>5. PICK S : S = {0} \cup I
  OBVIOUS
<1>6. Max(S) \in Nat /\ \A k \in S : k <= Max(S)
  BY <1>3, <1>4, <1>5, MaxFacts
<1>7. NewId = Max(S) + 1
  BY <1>5 DEF NewId
<1>8. \A n \in R : dc[n].id \in S
  BY <1>5
<1>9. ASSUME NEW n \in Names, dc[n] # None PROVE dc[n].id < NewId
  <2>1. dc[n].id \in Nat /\ dc[n].id <= Max(S)
    BY <1>1, <1>6, <1>8, <1>9
  <2> QED BY <1>6, <1>7, <2>1
<1> QED BY <1>6, <1>7, <1>9

\* A new row has an id of its own.
LEMMA InsertFacts ==
  ASSUME RowsOK, NEW m \in Names, NEW key \in Key, NEW own \in BOOLEAN, dep' # None,
         dc' = [dc EXCEPT ![m] = Row(key, own)]
  PROVE  /\ RowsOK' /\ dc'[m] \in Client /\ dc'[m] # None /\ dc'[m].key = key
         /\ dc'[m].status = "available" /\ \A n \in Names \ {m} : dc'[n] = dc[n]
<1>1. PICK x : x = Row(key, own)
  OBVIOUS
<1>2. NewId \in Nat \ {0} /\ \A n \in Names : dc[n] # None => dc[n].id < NewId
  BY NewIdFacts
<1>3. x \in Client /\ x # None /\ x.id = NewId /\ x.key = key /\ x.status = "available"
  BY <1>1, <1>2, NoneAssumption DEF Row, Client
<1>4. dc'[m] = x /\ dc' \in [Names -> Client \cup {None}] /\ \A n \in Names \ {m} : dc'[n] = dc[n]
  BY <1>1, <1>3 DEF RowsOK
<1>5. \A n \in Names : dc[n] # None => dc[n].id \in Nat
  BY DEF RowsOK, Client
<1>6. \A n \in Names \ {m} : dc'[n] # None => dc'[n].id # x.id
  BY <1>2, <1>3, <1>4, <1>5
<1>7. \A k, n \in Names : k # n /\ dc'[k] # None /\ dc'[n] # None => dc'[k].id # dc'[n].id
  BY <1>4, <1>6 DEF RowsOK
<1> QED BY <1>3, <1>4, <1>7 DEF RowsOK

\* A row may go, or change but for its id.
LEMMA ChangeFacts ==
  ASSUME RowsOK, dep = None \/ dep' # None, dc' \in [Names -> Client \cup {None}],
         \A n \in Names : dc'[n] # None => dc[n] # None /\ dc'[n].id = dc[n].id
  PROVE  RowsOK'
BY DEF RowsOK

\* The live nodes of a name are nodes that were.
Keeps(n) == \A i \in Slots : Live(i, n)' => /\ Live(i, n)
                                            /\ node'[i].from = node[i].from
                                            /\ node'[i].key = node[i].key

LEMMA FlagFacts ==
  ASSUME NodesOK, NEW ids, node' = Flagged(ids)
  PROVE  /\ NodesOK' /\ \A n : Keeps(n)
         /\ \A i \in Slots : node'[i] # None => /\ node[i] # None /\ node'[i].n = node[i].n
                                                /\ node[i].from \in ids => node'[i].orphan
<1>1. ASSUME NEW i \in Slots
      PROVE  /\ node'[i] \in Node \cup {None}
             /\ node'[i] = None <=> node[i] = None
             /\ node[i] # None => /\ node'[i].n = node[i].n /\ node'[i].from = node[i].from
                                  /\ node'[i].key = node[i].key
                                  /\ node'[i].orphan = (node[i].orphan \/ node[i].from \in ids)
  <2>1. node'[i] = IF node[i] # None /\ node[i].from \in ids THEN [node[i] EXCEPT !.orphan = TRUE]
                   ELSE node[i]
    BY DEF Flagged
  <2>2. node[i] \in Node \cup {None}
    BY DEF NodesOK
  <2>3. CASE node[i] # None /\ node[i].from \in ids
    <3>1. PICK x : x = [node[i] EXCEPT !.orphan = TRUE]
      OBVIOUS
    <3>2. x \in Node /\ x.n = node[i].n /\ x.from = node[i].from /\ x.key = node[i].key /\ x.orphan = TRUE
      BY <2>2, <2>3, <3>1 DEF Node
    <3> QED BY <2>1, <2>3, <3>1, <3>2, NoneAssumption
  <2>4. CASE ~(node[i] # None /\ node[i].from \in ids)
    BY <2>1, <2>2, <2>4 DEF Node
  <2> QED BY <2>3, <2>4
<1>2. NodesOK'
  <2>1. node' = [i \in Slots |-> node'[i]]
    BY DEF Flagged
  <2> QED BY <1>1, <2>1 DEF NodesOK
<1> QED BY <1>1, <1>2 DEF Keeps, Live

-----------------------------------------------------------------------------
(* What a step leaves alone.                                               *)

LEMMA NameFrame ==
  ASSUME NEW n \in Names, NameOK(n), dc'[n] = dc[n], Peer(n)' = Peer(n), Keeps(n),
         dep # None => dep' # None,
         \/ job' = job
         \/ job.at \notin {"client", "drop"} /\ job'.at \notin {"client", "drop"},
         \A r \in Requests : n \in Scope(r)' => req'[r] = req[r] \/ Serves(r, n)',
         \A r \in Requests : n \in Scope(r) /\ req[r].at \in {"insert", "delete"} => req'[r] = req[r]
  PROVE  NameOK(n)'
<1>1. NodesMatch(n)'
  BY DEF NameOK, NodesMatch, Keeps
<1>2. \A r \in Requests : req'[r] = req[r] => Scope(r)' = Scope(r)
  BY DEF Scope
<1>3. \A r \in Requests : n \in Scope(r)' => Serves(r, n)'
  BY <1>2 DEF NameOK, Serves
<1>4. Mid(n) => Mid(n)'
  BY <1>2 DEF Mid
<1>5. Match(n) => Match(n)'
  BY DEF Match
<1> QED BY <1>1, <1>3, <1>4, <1>5 DEF NameOK

LEMMA ActorFrame ==
  ASSUME OneActor, drift \subseteq drift', adrift' # None => Names \subseteq drift',
         job'.at # "idle" => job.at # "idle", \A r \in Requests : Scope(r)' \subseteq Scope(r)
  PROVE  OneActor'
BY DEF OneActor

\* A request begins: it has its names to itself, or they drift.
LEMMA BeginStep ==
  ASSUME WgInv, NEW r \in Requests, NEW S \in SUBSET Names, NEW x \in Request,
         req[r].at = "idle", dep # None, Go(r, x), Begin(r, S),
         x.at \in {"add", "remove", "list", "export"},
         x.at \in Naming => x.n \in Names /\ S = {x.n}, x.at = "list" => S = Names,
         x.at \in Carrying => x.row \in Client /\ dc[x.n] = x.row, x.at = "add" => dc[x.n] = None,
         UNCHANGED <<vps, keys, dep, dc, node, job, adrift>>
  PROVE  WgInv'
<1>1. Typed /\ OneActor /\ AloneOK /\ RequestsOK /\ HistoryOK /\ ServerOK
  BY DEF WgInv, Typed
<1>2. RequestsOK' /\ req'[r] = x /\ \A q \in Requests \ {r} : req'[q] = req[q]
  BY <1>1, GoFacts
<1>3. /\ HistoryOK' /\ drift \subseteq drift'
      /\ \A n \in S : n \notin drift' => n \notin Others(r)
      /\ \A q \in Requests : alone'[q] => q = r /\ Others(r) = {}
  BY <1>1, BeginFacts
<1>4. Scope(r)' = S /\ \A q \in Requests \ {r} : Scope(q)' = Scope(q)
  BY <1>2 DEF Scope, Naming
<1>5. Typed'
  BY <1>1, <1>2, <1>3 DEF Typed, ServerOK, DepOK, RowsOK, NodesOK, JobOK
<1>6. \A n \in S : n \notin drift' =>
        job.at = "idle" /\ adrift = None /\ \A q \in Requests \ {r} : n \notin Scope(q)
  BY <1>1, <1>3, OthersFacts
<1>7. OneActor'
  <2>1. adrift' # None => Names \subseteq drift'
    BY <1>1, <1>3 DEF OneActor
  <2>2. ASSUME NEW n \in Names \ drift', NEW p \in Requests, n \in Scope(p)'
        PROVE  job'.at = "idle" /\ \A q \in Requests \ {p} : n \notin Scope(q)'
    <3>1. CASE n \in S
      BY <1>4, <1>6, <2>2, <3>1
    <3>2. CASE n \notin S
      BY <1>1, <1>3, <1>4, <2>2, <3>2 DEF OneActor
    <3> QED BY <3>1, <3>2
  <2> QED BY <2>1, <2>2 DEF OneActor
<1>8. AloneOK'
  <2>1. ASSUME NEW p \in Requests, alone'[p], req'[p].at # "idle"
        PROVE  /\ job'.at = "idle" /\ adrift' = None /\ dep' # None
               /\ \A q \in Requests \ {p} : req'[q].at = "idle"
               /\ req'[p].at = "reconcile" => vps' = req'[p].seen
    <3>1. p = r /\ Others(r) = {}
      BY <1>3, <2>1
    <3>2. job.at = "idle" /\ adrift = None /\ \A q \in Requests \ {r} : req[q].at = "idle"
      BY <1>1, <3>1, OthersFacts
    <3> QED BY <1>2, <3>1, <3>2
  <2> QED BY <2>1 DEF AloneOK
<1>9. ASSUME NEW n \in Names \ drift' PROVE NameOK(n)'
  <2>1. NameOK(n) /\ Peer(n)' = Peer(n) /\ Keeps(n)
    BY <1>3 DEF WgInv, Peer, Keeps, Live
  <2>2. n \in Scope(r)' => Serves(r, n)'
    BY <1>2, <1>4 DEF Serves, Naming, Carrying
  <2>3. \A q \in Requests : n \in Scope(q)' => req'[q] = req[q] \/ Serves(q, n)'
    BY <1>2, <2>2
  <2>4. \A q \in Requests : n \in Scope(q) /\ req[q].at \in {"insert", "delete"} => req'[q] = req[q]
    BY <1>2
  <2> QED BY <2>1, <2>3, <2>4, NameFrame
<1> QED BY <1>5, <1>7, <1>8, <1>9 DEF WgInv

\* A request goes on, or is done: nobody else notices.
LEMMA ServeRest ==
  ASSUME WgInv, NEW r \in Requests, NEW x \in Request, req[r].at # "idle", Go(r, x),
         \/ x.at = "idle"
         \/ x.at \in Naming /\ req[r].at \in Naming /\ x.n = req[r].n
         \/ x.at = "reconcile" /\ req[r].at = "list" /\ vps' = x.seen,
         x.at \in Carrying => x.row \in Client, x.at = "insert" => x.seen[x.n] \in Key,
         HistoryOK', drift \subseteq drift', \A q \in Requests : alone'[q] => alone[q],
         UNCHANGED <<dep, job, adrift>>
  PROVE  /\ RequestsOK' /\ JobOK' /\ DepOK' /\ OneActor' /\ AloneOK'
         /\ req'[r] = x /\ \A q \in Requests \ {r} : req'[q] = req[q] /\ Scope(q)' = Scope(q)
         /\ Scope(r)' \subseteq Scope(r)
<1>1. OneActor /\ AloneOK /\ RequestsOK /\ JobOK /\ DepOK
  BY DEF WgInv, Typed
<1>2. RequestsOK' /\ req'[r] = x /\ \A q \in Requests \ {r} : req'[q] = req[q]
  <2>1. x.at \in Naming => x.n \in Names
    BY <1>1 DEF RequestsOK, Naming
  <2> QED BY <1>1, <2>1, GoFacts
<1>3. Scope(r)' \subseteq Scope(r) /\ \A q \in Requests \ {r} : Scope(q)' = Scope(q)
  BY <1>2 DEF Scope, Naming
<1>4. OneActor'
  <2>1. adrift' # None => Names \subseteq drift'
    BY <1>1 DEF OneActor
  <2> QED BY <1>1, <1>3, <2>1, ActorFrame
<1>5. AloneOK'
  <2>1. \A q \in Requests \ {r} : ~(alone[q] /\ req[q].at # "idle")
    BY <1>1 DEF AloneOK
  <2>2. \A q \in Requests : alone'[q] /\ req'[q].at # "idle" => q = r
    BY <1>2, <2>1
  <2>3. alone[r] => /\ job.at = "idle" /\ adrift = None /\ dep # None
                    /\ \A q \in Requests \ {r} : req[q].at = "idle"
    BY <1>1 DEF AloneOK
  <2>4. req'[r].at = "reconcile" => vps' = req'[r].seen
    BY <1>2 DEF Naming
  <2> QED BY <1>2, <2>2, <2>3, <2>4 DEF AloneOK
<1>6. JobOK' /\ DepOK'
  BY <1>1 DEF JobOK, DepOK
<1> QED BY <1>2, <1>3, <1>4, <1>5, <1>6

\* The names that the step is not about.
LEMMA ServeOthers ==
  ASSUME WgInv, NEW r \in Requests, NEW n \in Names \ drift', n \notin Scope(r),
         drift \subseteq drift', dc'[n] = dc[n], Peer(n)' = Peer(n), Keeps(n),
         UNCHANGED <<dep, job>>, Scope(r)' \subseteq Scope(r),
         \A q \in Requests \ {r} : req'[q] = req[q] /\ Scope(q)' = Scope(q)
  PROVE  NameOK(n)'
<1>1. NameOK(n)
  BY DEF WgInv
<1>2. \A q \in Requests : n \in Scope(q)' => req'[q] = req[q] \/ Serves(q, n)'
  OBVIOUS
<1>3. \A q \in Requests : n \in Scope(q) /\ req[q].at \in {"insert", "delete"} => req'[q] = req[q]
  OBVIOUS
<1> QED BY <1>1, <1>2, <1>3, NameFrame

\* The names that it is about.
LEMMA ServeOwn ==
  ASSUME WgInv, NEW r \in Requests, NEW n \in Names \ drift, n \in Scope(r), UNCHANGED job,
         \A q \in Requests \ {r} : req'[q] = req[q] /\ Scope(q)' = Scope(q),
         dc'[n] # None => dc'[n].status # "orphan", NodesMatch(n)',
         n \in Scope(r)' => Serves(r, n)',
         (n \in Scope(r)' /\ req'[r].at \in {"insert", "delete"}) \/ Match(n)'
  PROVE  NameOK(n)'
<1>1. job.at = "idle" /\ \A q \in Requests \ {r} : n \notin Scope(q)
  BY DEF WgInv, OneActor
<1>2. \A q \in Requests : n \in Scope(q)' => Serves(q, n)'
  BY <1>1
<1>3. Mid(n)' \/ Match(n)'
  BY DEF Mid
<1> QED BY <1>1, <1>2, <1>3 DEF NameOK

\* What is known of a name in the hands of a request.
LEMMA OwnFacts ==
  ASSUME WgInv, NEW r \in Requests, NEW n \in Names \ drift, n \in Scope(r)
  PROVE  /\ Serves(r, n) /\ NodesMatch(n) /\ (dc[n] # None => dc[n].status # "orphan")
         /\ req[r].at \notin {"insert", "delete"} => Match(n)
<1>1. NameOK(n) /\ job.at = "idle" /\ \A q \in Requests \ {r} : n \notin Scope(q)
  BY DEF WgInv, OneActor
<1> QED BY <1>1 DEF NameOK, Mid

LEMMA JobRest ==
  ASSUME WgInv, job.at # "idle", JobOK', UNCHANGED <<req, adrift, left, alone, drift>>
  PROVE  /\ RequestsOK' /\ HistoryOK' /\ OneActor' /\ AloneOK'
         /\ \A n \in Names \ drift, r \in Requests : n \notin Scope(r) /\ n \notin Scope(r)'
<1>1. OneActor /\ AloneOK /\ RequestsOK /\ HistoryOK
  BY DEF WgInv, Typed
<1>2. RequestsOK' /\ HistoryOK' /\ \A r \in Requests : Scope(r)' = Scope(r)
  BY <1>1 DEF RequestsOK, HistoryOK, Scope
<1>3. \A n \in Names \ drift, r \in Requests : n \notin Scope(r)
  BY <1>1 DEF OneActor
<1>4. OneActor'
  BY <1>1, <1>2, <1>3 DEF OneActor
<1>5. AloneOK'
  BY <1>1 DEF AloneOK
<1> QED BY <1>2, <1>3, <1>4, <1>5

LEMMA JobOwn ==
  ASSUME NEW n \in Names, \A r \in Requests : n \notin Scope(r)',
         dc'[n] # None => dc'[n].status # "orphan", NodesMatch(n)',
         job'.at = "client" /\ job'.n = n => dc'[n] = None /\ Peer(n)' = job'.key,
         job'.at = "drop" => Peer(n)' = 0,
         (job'.at = "client" /\ job'.n = n) \/ job'.at = "drop" \/ Match(n)'
  PROVE  NameOK(n)'
BY DEF NameOK, Mid

-----------------------------------------------------------------------------
(* The requests.                                                           *)

LEMMA AddClientStep ==
  ASSUME WgInv, NEW r \in Requests, NEW n \in Names, AddClient(r, n)
  PROVE  WgInv'
<1> DEFINE x == [Idle EXCEPT !.at = "add", !.n = n]
<1>1. x \in Request /\ x.at = "add" /\ x.n = n
  BY IdleTypes DEF Request
<1>2. Go(r, x) /\ Begin(r, {n}) /\ req[r].at = "idle" /\ dep # None /\ dc[n] = None
      /\ UNCHANGED <<vps, keys, dep, dc, node, job, adrift>>
  BY DEF AddClient
<1> HIDE DEF x
<1> QED BY <1>1, <1>2, BeginStep DEF Naming, Carrying

LEMMA RemoveClientStep ==
  ASSUME WgInv, NEW r \in Requests, NEW n \in Names,
         RemoveClient(r, n) \/ ExportClient(r, n)
  PROVE  WgInv'
<1>1. dc[n] \in Client /\ dc[n] # None
  BY DEF RemoveClient, ExportClient, WgInv, Typed, RowsOK
<1>2. PICK at \in {"remove", "export"} :
        Go(r, [Idle EXCEPT !.at = at, !.n = n, !.row = dc[n]])
  BY DEF RemoveClient, ExportClient
<1> DEFINE x == [Idle EXCEPT !.at = at, !.n = n, !.row = dc[n]]
<1>3. x \in Request /\ x.at = at /\ x.n = n /\ x.row = dc[n]
  BY <1>1, IdleTypes DEF Request
<1>4. Begin(r, {n}) /\ req[r].at = "idle" /\ dep # None
      /\ UNCHANGED <<vps, keys, dep, dc, node, job, adrift>>
  BY DEF RemoveClient, ExportClient
<1> HIDE DEF x
<1>5. Go(r, x)
  BY <1>2 DEF x
<1> QED BY <1>1, <1>3, <1>4, <1>5, BeginStep DEF Naming, Carrying

LEMMA SyncClientsStep ==
  ASSUME WgInv, NEW r \in Requests, SyncClients(r)
  PROVE  WgInv'
<1> DEFINE x == [Idle EXCEPT !.at = "list"]
<1>1. x \in Request /\ x.at = "list"
  BY IdleTypes DEF Request
<1>2. Go(r, x) /\ Begin(r, Names) /\ req[r].at = "idle" /\ dep # None
      /\ UNCHANGED <<vps, keys, dep, dc, node, job, adrift>>
  BY DEF SyncClients
<1> HIDE DEF x
<1> QED BY <1>1, <1>2, BeginStep DEF Naming, Carrying

\* The call over SSH of an add or a removal: its answer, a refusal, or neither.
LEMMA ExecStep ==
  ASSUME WgInv, NEW r \in Requests, AddExec(r) \/ RemoveExec(r)
  PROVE  WgInv'
<1>1. Typed /\ RequestsOK /\ HistoryOK /\ ServerOK
  BY DEF WgInv, Typed
<1>a. req[r].n \in Names
  BY <1>1 DEF AddExec, RemoveExec, RequestsOK, Naming
<1>m. PICK m \in Names : m = req[r].n
  BY <1>a
<1>2. /\ req[r].at \in {"add", "remove"} /\ req[r] \in Request /\ m \in Names /\ Scope(r) = {m}
      /\ req[r].at = "remove" => req[r].row \in Client
      /\ UNCHANGED <<dep, dc, node, job, adrift>>
  BY <1>1, <1>m, ScopeFacts DEF AddExec, RemoveExec, RequestsOK, Naming, Carrying
\* What it does on the server, and what is left of the request.
<1>3. PICK x \in Request :
        /\ Go(r, x) /\ (x.at = "idle" \/ (x.n = m /\ x.at \in {"insert", "delete"}))
        /\ \/ /\ AddPeer(m) /\ Calm /\ req[r].at = "add" /\ x.at = "insert" /\ x.seen[m] = keys + 1
           \/ /\ RemovePeer(m) /\ Calm /\ req[r].at = "remove" /\ x.at = "delete" /\ x.row = req[r].row
           \/ /\ UNCHANGED <<vps, keys>> /\ Calm /\ x.at = "idle"
           \/ /\ AddPeer(m) \/ RemovePeer(m) \/ UNCHANGED <<vps, keys>>
              /\ Mishap({m}) /\ x.at = "idle"
  <2> DEFINE y == [req[r] EXCEPT !.at = "insert", !.seen[m] = keys + 1]
             z == [req[r] EXCEPT !.at = "delete"]
  <2>1. CASE AddPeer(m) /\ Go(r, y) /\ Calm /\ req[r].at = "add"
    <3>1. keys + 1 \in 0..MaxKeys
      BY <1>1, <1>2, <2>1, AddFacts, Zero
    <3>2. y \in Request /\ y.at = "insert" /\ y.n = m /\ y.seen[m] = keys + 1
      BY <1>2, <1>m, <3>1 DEF Request
    <3> HIDE DEF y
    <3> QED BY <2>1, <3>2
  <2>2. CASE RemovePeer(m) /\ Go(r, z) /\ Calm /\ req[r].at = "remove"
    <3>1. z \in Request /\ z.at = "delete" /\ z.n = m /\ z.row = req[r].row
      BY <1>2, <1>m DEF Request
    <3> HIDE DEF z
    <3> QED BY <2>2, <3>1
  <2>3. CASE UNCHANGED <<vps, keys>> /\ Go(r, Idle) /\ Calm
    <3>1. Idle \in Request /\ Idle.at = "idle"
      BY IdleTypes
    <3> QED BY <2>3, <3>1, Zenon
  <2>4. CASE (AddPeer(m) \/ RemovePeer(m) \/ UNCHANGED <<vps, keys>>) /\ Go(r, Idle) /\ Mishap({m})
    <3>1. Idle \in Request /\ Idle.at = "idle"
      BY IdleTypes
    <3> QED BY <2>4, <3>1, Zenon
  <2> QED BY <1>m, <2>1, <2>2, <2>3, <2>4 DEF AddExec, RemoveExec, CannotAdd, CannotRemove, Done
<1>4. /\ ServerOK' /\ \A n \in Names \ {m} : Peer(n)' = Peer(n)
      /\ AddPeer(m) => keys + 1 \in Key /\ Peer(m)' = keys + 1
      /\ RemovePeer(m) => Peer(m)' = 0
      /\ UNCHANGED <<vps, keys>> => Peer(m)' = Peer(m)
  <2>1. AddPeer(m) \/ RemovePeer(m) \/ UNCHANGED <<vps, keys>>
    BY <1>3
  <2>2. UNCHANGED <<vps, keys>> => Peer(m)' = Peer(m)
    BY DEF Peer
  <2> QED BY <1>1, <1>2, <2>1, <2>2, AddFacts, RemoveFacts, SamePeers
<1>5. /\ HistoryOK' /\ drift \subseteq drift' /\ (Mishap({m}) => m \in drift')
      /\ \A q \in Requests : alone'[q] => alone[q]
  <2>1. CASE Calm
    BY <1>1, <2>1 DEF Calm, HistoryOK, Mishap
  <2>2. CASE Mishap({m})
    BY <1>1, <1>2, <2>2, MishapFacts
  <2> QED BY <1>3, <2>1, <2>2
<1>6. /\ RequestsOK' /\ JobOK' /\ DepOK' /\ OneActor' /\ AloneOK'
      /\ req'[r] = x /\ \A q \in Requests \ {r} : req'[q] = req[q] /\ Scope(q)' = Scope(q)
      /\ Scope(r)' \subseteq Scope(r)
  <2>1. x.at = "idle" \/ (x.at \in Naming /\ req[r].at \in Naming /\ x.n = req[r].n)
    BY <1>2, <1>3, <1>m DEF Naming
  <2>2. x.at \in Carrying => x.row \in Client
    BY <1>2, <1>3 DEF Carrying
  <2>3. x.at = "insert" => x.seen[x.n] \in Key
    BY <1>2, <1>3, <1>4
  <2>4. req[r].at # "idle" /\ Go(r, x)
    BY <1>2, <1>3
  <2> QED BY <1>2, <1>5, <2>1, <2>2, <2>3, <2>4, ServeRest
<1>7. Typed'
  BY <1>1, <1>2, <1>4, <1>5, <1>6 DEF Typed, RowsOK, NodesOK
<1>8. ASSUME NEW n \in Names \ drift' PROVE NameOK(n)'
  <2>1. Keeps(n) /\ dc'[n] = dc[n]
    BY <1>2 DEF Keeps, Live
  <2>2. CASE n # m
    BY <1>2, <1>4, <1>5, <1>6, <2>1, <2>2, ServeOthers
  <2>3. CASE n = m
    <3>1. n \in Scope(r) /\ n \notin drift /\ n \in Names \ drift /\ ~Mishap({m})
      BY <1>2, <1>5, <2>3
    <3>2. Serves(r, n) /\ NodesMatch(n) /\ (dc[n] # None => dc[n].status # "orphan") /\ Match(n)
      BY <1>2, <3>1, OwnFacts
    <3>3. NodesMatch(n)'
      BY <2>1, <3>2 DEF NodesMatch, Keeps
    <3>4. /\ n \in Scope(r)' => Serves(r, n)'
          /\ (n \in Scope(r)' /\ req'[r].at \in {"insert", "delete"}) \/ Match(n)'
      <4>1. Scope(r)' = IF x.at = "idle" THEN {} ELSE {m}
        BY <1>3, <1>6 DEF Scope
      <4>2. CASE x.at = "insert"
        <5>1. Peer(m)' = x.seen[m] /\ dc[m] = None /\ dep # None
          BY <1>3, <1>4, <2>3, <3>1, <3>2, <4>2 DEF Serves
        <5> QED BY <1>2, <1>6, <2>3, <4>1, <4>2, <5>1 DEF Serves, Carrying
      <4>3. CASE x.at = "delete"
        <5>1. Peer(m)' = 0 /\ dc[m] = x.row /\ dep # None
          BY <1>3, <1>4, <2>3, <3>1, <3>2, <4>3 DEF Serves, Carrying
        <5> QED BY <1>2, <1>6, <2>3, <4>1, <4>3, <5>1 DEF Serves, Carrying
      <4>4. CASE x.at = "idle"
        <5>1. UNCHANGED <<vps, keys>>
          BY <1>3, <3>1, <4>4
        <5> QED BY <1>2, <1>4, <2>3, <3>2, <4>1, <4>4, <5>1 DEF Match
      <4> QED BY <1>3, <4>2, <4>3, <4>4
    <3> QED BY <1>2, <1>6, <2>1, <3>1, <3>2, <3>3, <3>4, ServeOwn
  <2> QED BY <2>2, <2>3
<1> QED BY <1>6, <1>7, <1>8 DEF WgInv


\* A request is done: what it has written suits the names in its hands.
LEMMA ServeDone ==
  ASSUME WgInv, NEW r \in Requests, req[r].at # "idle", Done(r),
         UNCHANGED <<vps, keys, dep, job, adrift, left, alone, drift>>, RowsOK', NodesOK',
         \A n \in Names \ drift : n \notin Scope(r) => dc'[n] = dc[n] /\ Keeps(n),
         \A n \in Names \ drift : n \in Scope(r) =>
           (dc'[n] # None => dc'[n].status # "orphan") /\ NodesMatch(n)' /\ Match(n)'
  PROVE  WgInv'
<1>1. Typed /\ HistoryOK /\ ServerOK
  BY DEF WgInv, Typed
<1>2. HistoryOK' /\ drift' = drift /\ (\A q \in Requests : alone'[q] => alone[q])
  BY <1>1 DEF HistoryOK
<1>3. Idle \in Request /\ Idle.at = "idle" /\ Go(r, Idle)
  BY IdleTypes DEF Done
<1>4. Idle.at \notin Naming /\ Idle.at \notin Carrying /\ Idle.at # "insert"
  BY <1>3 DEF Naming, Carrying
<1>5. /\ RequestsOK' /\ JobOK' /\ DepOK' /\ OneActor' /\ AloneOK'
      /\ req'[r] = Idle /\ \A q \in Requests \ {r} : req'[q] = req[q] /\ Scope(q)' = Scope(q)
      /\ Scope(r)' \subseteq Scope(r)
  BY <1>2, <1>3, <1>4, ServeRest
<1>6. Scope(r)' = {}
  BY <1>3, <1>5 DEF Scope
<1>7. Typed'
  BY <1>1, <1>2, <1>5, SamePeers DEF Typed
<1>8. ASSUME NEW n \in Names \ drift' PROVE NameOK(n)'
  <2>1. Peer(n)' = Peer(n) /\ n \in Names \ drift /\ drift \subseteq drift'
    BY <1>1, <1>2, SamePeers
  <2>2. CASE n \notin Scope(r)
    BY <1>5, <2>1, <2>2, ServeOthers
  <2>3. CASE n \in Scope(r)
    <3>1. Match(n)' /\ NodesMatch(n)' /\ (dc'[n] # None => dc'[n].status # "orphan")
      BY <2>1, <2>3
    <3>2. n \notin Scope(r)'
      BY <1>6
    <3> QED BY <1>5, <2>1, <2>3, <3>1, <3>2, ServeOwn
  <2> QED BY <2>2, <2>3
<1> QED BY <1>5, <1>7, <1>8 DEF WgInv

LEMMA AddInsertStep ==
  ASSUME WgInv, NEW r \in Requests, AddInsert(r)
  PROVE  WgInv'
<1>1. RowsOK /\ NodesOK /\ RequestsOK
  BY DEF WgInv, Typed
<1>2. req[r].at = "insert" /\ req[r].n \in Names /\ req[r].seen[req[r].n] \in Key
      /\ Scope(r) = {req[r].n}
  BY <1>1, ScopeFacts DEF AddInsert, RequestsOK, Naming
<1>3. PICK m \in Names, key \in Key : m = req[r].n /\ key = req[r].seen[m]
  BY <1>2
<1>4. /\ Done(r) /\ UNCHANGED <<vps, keys, dep, node, job, adrift, left, alone, drift>>
      /\ dc' = IF dep = None \/ dc[m] # None THEN dc ELSE [dc EXCEPT ![m] = Row(key, TRUE)]
  BY <1>3 DEF AddInsert
<1>5. NodesOK' /\ \A n : Keeps(n)
  BY <1>1, <1>4 DEF NodesOK, Keeps, Live
<1>6. CASE dep = None \/ dc[m] # None
  <2>1. dc' = dc /\ RowsOK'
    BY <1>1, <1>4, <1>6 DEF RowsOK
  <2>2. m \in drift
    BY <1>2, <1>3, <1>6, OwnFacts DEF Serves
  <2> QED BY <1>2, <1>3, <1>4, <1>5, <2>1, <2>2, ServeDone
<1>7. CASE ~(dep = None \/ dc[m] # None)
  <2>1. dc' = [dc EXCEPT ![m] = Row(key, TRUE)] /\ dep' # None /\ dc[m] = None
    BY <1>4, <1>7
  <2>2. /\ RowsOK' /\ dc'[m] # None /\ dc'[m].key = key
        /\ dc'[m].status = "available" /\ \A n \in Names \ {m} : dc'[n] = dc[n]
    BY <1>1, <2>1, InsertFacts
  <2>3. ASSUME m \notin drift PROVE NodesMatch(m)' /\ Match(m)'
    <3>1. NodesMatch(m) /\ Peer(m) = key
      BY <1>2, <1>3, <2>3, OwnFacts DEF Serves
    <3>2. Peer(m)' = key
      BY <1>4, <3>1 DEF Peer
    <3>3. NodesMatch(m)'
      BY <1>5, <2>1, <3>1 DEF NodesMatch, Keeps
    <3> QED BY <2>2, <3>2, <3>3 DEF Match
  <2> QED BY <1>2, <1>3, <1>4, <1>5, <2>2, <2>3, ServeDone
<1> QED BY <1>6, <1>7

\* The row goes, and what was exported from it is flagged.
LEMMA RemoveDeleteStep ==
  ASSUME WgInv, NEW r \in Requests, RemoveDelete(r)
  PROVE  WgInv'
<1>1. RowsOK /\ NodesOK /\ RequestsOK
  BY DEF WgInv, Typed
<1>2. req[r].at = "delete" /\ req[r].n \in Names /\ Scope(r) = {req[r].n}
  BY <1>1, ScopeFacts DEF RemoveDelete, RequestsOK, Naming
<1>3. PICK m \in Names : m = req[r].n
  BY <1>2
<1>i. PICK id : id = req[r].row.id
  OBVIOUS
<1>4. /\ Done(r) /\ UNCHANGED <<vps, keys, dep, job, adrift, left, alone, drift>>
      /\ IF dc[m] # None /\ dc[m].id = id
           THEN dc' = [dc EXCEPT ![m] = None] /\ node' = Flagged({id})
           ELSE UNCHANGED <<dc, node>>
  BY <1>3, <1>i DEF RemoveDelete
<1>5. m \notin drift => /\ NodesMatch(m) /\ Peer(m) = 0
                        /\ dc[m] # None => dc[m].id = id
  BY <1>2, <1>3, <1>i, OwnFacts DEF Serves, Carrying
<1>6. m \notin drift => dc[m] # None /\ Peer(m)' = 0
  <2>1. req[r].row \in Client
    BY <1>1, <1>2 DEF RequestsOK, Carrying
  <2>2. m \notin drift => dc[m] = req[r].row
    BY <1>2, <1>3, OwnFacts DEF Serves, Carrying
  <2> QED BY <1>4, <1>5, <2>1, <2>2, NoneAssumption DEF Peer
<1>7. CASE dc[m] # None /\ dc[m].id = id
  <2>1. dc' = [dc EXCEPT ![m] = None] /\ node' = Flagged({id})
    BY <1>4, <1>7
  <2>2. /\ NodesOK' /\ \A n : Keeps(n)
        /\ \A i \in Slots : node'[i] # None => /\ node[i] # None /\ node'[i].n = node[i].n
                                               /\ node[i].from \in {id} => node'[i].orphan
    BY <1>1, <2>1, FlagFacts
  <2>3. dc' \in [Names -> Client \cup {None}] /\ dc'[m] = None
        /\ \A n \in Names \ {m} : dc'[n] = dc[n]
    BY <1>1, <2>1 DEF RowsOK
  <2>4. RowsOK'
    <3>1. \A n \in Names : dc'[n] # None => dc[n] # None /\ dc'[n].id = dc[n].id
      BY <2>3
    <3>2. dep = None \/ dep' # None
      BY <1>4
    <3> QED BY <1>1, <2>3, <3>1, <3>2, ChangeFacts
  <2>5. ASSUME m \notin drift PROVE NodesMatch(m)' /\ Match(m)'
    <3>1. \A i \in Slots : ~Live(i, m)'
      BY <1>5, <1>7, <2>2, <2>5 DEF NodesMatch, Keeps, Live
    <3> QED BY <1>6, <2>3, <2>5, <3>1 DEF NodesMatch, Match
  <2> QED BY <1>2, <1>3, <1>4, <2>2, <2>3, <2>4, <2>5, ServeDone
<1>8. CASE ~(dc[m] # None /\ dc[m].id = id)
  <2>1. dc' = dc /\ node' = node /\ m \in drift
    BY <1>4, <1>5, <1>6, <1>8
  <2>2. RowsOK' /\ NodesOK' /\ \A n : Keeps(n)
    BY <1>1, <1>4, <2>1 DEF RowsOK, NodesOK, Keeps, Live
  <2> QED BY <1>2, <1>3, <1>4, <2>1, <2>2, ServeDone
<1> QED BY <1>7, <1>8

LEMMA ListPeersStep ==
  ASSUME WgInv, NEW r \in Requests, ListPeers(r)
  PROVE  WgInv'
<1>1. Typed /\ RowsOK /\ NodesOK /\ RequestsOK /\ HistoryOK /\ ServerOK
  BY DEF WgInv, Typed
<1>2. req[r].at = "list" /\ req[r] \in Request /\ Scope(r) = Names
      /\ UNCHANGED <<vps, keys, dep, dc, node, job, adrift, left, alone, drift>>
  BY <1>1, ScopeFacts DEF ListPeers, RequestsOK
<1>3. /\ RowsOK' /\ NodesOK' /\ HistoryOK' /\ ServerOK'
      /\ \A n : Keeps(n) /\ (NodesMatch(n) => NodesMatch(n)') /\ (Match(n) => Match(n)')
  BY <1>1, <1>2 DEF RowsOK, NodesOK, HistoryOK, ServerOK, Keeps, Live, NodesMatch, Match, Peer
<1>4. \A n \in Names \ drift : Match(n) /\ NodesMatch(n) /\ dep # None
                               /\ (dc[n] # None => dc[n].status # "orphan")
  BY <1>2, OwnFacts DEF Serves
<1>5. ASSUME vps = None PROVE WgInv'
  <2>1. Done(r)
    BY <1>5 DEF ListPeers
  <2> QED BY <1>2, <1>3, <1>4, <2>1, ServeDone
<1>6. ASSUME vps # None PROVE WgInv'
  <2> DEFINE x == [req[r] EXCEPT !.at = "reconcile", !.seen = vps]
  <2>1. vps \in [Names -> 0..MaxKeys]
    BY <1>1, <1>6 DEF ServerOK
  <2>2. x \in Request /\ x.at = "reconcile" /\ x.seen = vps
    BY <1>2, <2>1 DEF Request
  <2>3. Go(r, x)
    BY <1>6 DEF ListPeers
  <2> HIDE DEF x
  <2>4. /\ RequestsOK' /\ JobOK' /\ DepOK' /\ OneActor' /\ AloneOK'
        /\ req'[r] = x /\ \A q \in Requests \ {r} : req'[q] = req[q] /\ Scope(q)' = Scope(q)
        /\ Scope(r)' \subseteq Scope(r)
    <3>1. x.at \notin Carrying /\ x.at # "insert" /\ vps' = x.seen /\ req[r].at # "idle"
      BY <1>2, <2>2 DEF Carrying
    <3>2. drift \subseteq drift' /\ \A q \in Requests : alone'[q] => alone[q]
      BY <1>2
    <3> QED BY <1>2, <1>3, <2>2, <2>3, <3>1, <3>2, ServeRest
  <2>5. Typed'
    BY <1>3, <2>4 DEF Typed
  <2>6. ASSUME NEW n \in Names \ drift' PROVE NameOK(n)'
    <3>1. n \in Names \ drift /\ n \in Scope(r)
      BY <1>2
    <3>2. Match(n)' /\ NodesMatch(n)' /\ (dc'[n] # None => dc'[n].status # "orphan")
      BY <1>2, <1>3, <1>4, <3>1
    <3>3. Serves(r, n)'
      <4>1. Peer(n)' = vps[n] /\ dep' # None
        BY <1>2, <1>4, <1>6, <3>1 DEF Peer
      <4> QED BY <2>2, <2>4, <4>1 DEF Serves, Carrying
    <3> QED BY <1>2, <2>4, <3>1, <3>2, <3>3, ServeOwn
  <2> QED BY <2>4, <2>5, <2>6 DEF WgInv
<1> QED BY <1>5, <1>6

\* A node more, of a row that is there, or that has gone after the request has read it.
LEMMA ExportInsertStep ==
  ASSUME WgInv, NEW r \in Requests, ExportInsert(r)
  PROVE  WgInv'
<1>1. Typed /\ RowsOK /\ NodesOK /\ RequestsOK
  BY DEF WgInv, Typed
<1>2. req[r].at = "export" /\ req[r].n \in Names /\ Scope(r) = {req[r].n} /\ req[r].row \in Client
  BY <1>1, ScopeFacts DEF ExportInsert, RequestsOK, Naming, Carrying
<1>3. PICK m \in Names, row \in Client, still \in BOOLEAN :
        m = req[r].n /\ row = req[r].row /\ (still <=> dc[m] # None /\ dc[m].id = row.id)
  BY <1>2
<1>4. /\ Done(r) /\ UNCHANGED <<vps, keys, dep, job, adrift, left, alone, drift>>
      /\ \/ UNCHANGED <<dc, node>>
         \/ \E i \in Slots :
              /\ node[i] = None
              /\ node' = [node EXCEPT ![i] = [n |-> m, key |-> row.key, from |-> row.id, orphan |-> FALSE]]
              /\ dc' = IF still /\ row.status = "available"
                         THEN [dc EXCEPT ![m].status = "exported"] ELSE dc
  BY <1>3 DEF ExportInsert
<1>5. m \notin drift => /\ NodesMatch(m) /\ Match(m) /\ dc[m] = row /\ dc[m] # None
                        /\ dc[m].status # "orphan"
  BY <1>2, <1>3, OwnFacts, NoneAssumption DEF Serves, Carrying
<1>6. ASSUME UNCHANGED <<dc, node>> PROVE WgInv'
  <2>1. /\ RowsOK' /\ NodesOK'
        /\ \A n : Keeps(n) /\ (NodesMatch(n) => NodesMatch(n)') /\ (Match(n) => Match(n)')
    BY <1>1, <1>4, <1>6 DEF RowsOK, NodesOK, Keeps, Live, NodesMatch, Match, Peer
  <2> QED BY <1>2, <1>3, <1>4, <1>5, <1>6, <2>1, ServeDone
<1>7. ASSUME NEW i \in Slots, node[i] = None,
             node' = [node EXCEPT ![i] = [n |-> m, key |-> row.key, from |-> row.id, orphan |-> FALSE]],
             dc' = IF still /\ row.status = "available"
                     THEN [dc EXCEPT ![m].status = "exported"] ELSE dc
      PROVE  WgInv'
  <2>1. PICK new \in Node : new = [n |-> m, key |-> row.key, from |-> row.id, orphan |-> FALSE]
    BY <1>3 DEF Node, Client
  <2>2. node'[i] = new /\ (\A j \in Slots \ {i} : node'[j] = node[j]) /\ NodesOK'
    BY <1>1, <1>7, <2>1 DEF NodesOK
  <2>3. new.n = m /\ new.key = row.key /\ new.from = row.id
    BY <2>1
  <2>4. \A n \in Names \ {m} : Keeps(n)
    BY <2>2, <2>3 DEF Keeps, Live
  <2>5. /\ dc' \in [Names -> Client \cup {None}] /\ \A n \in Names \ {m} : dc'[n] = dc[n]
        /\ (dc'[m] = None <=> dc[m] = None)
        /\ dc[m] # None => dc'[m].id = dc[m].id /\ dc'[m].key = dc[m].key
                           /\ (dc[m].status # "orphan" => dc'[m].status # "orphan")
    <3>1. ASSUME still, row.status = "available"
          PROVE  /\ dc' \in [Names -> Client \cup {None}] /\ \A n \in Names \ {m} : dc'[n] = dc[n]
                 /\ dc'[m].id = dc[m].id /\ dc'[m].key = dc[m].key /\ dc'[m].status = "exported"
                 /\ dc[m] # None /\ dc'[m] # None
      <4>1. dc[m] \in Client /\ dc[m] # None
        BY <1>1, <1>3, <3>1 DEF RowsOK
      <4>2. PICK y : y = [dc[m] EXCEPT !.status = "exported"]
        OBVIOUS
      <4>3. y \in Client /\ y.id = dc[m].id /\ y.key = dc[m].key /\ y.status = "exported"
        BY <4>1, <4>2 DEF Client
      <4>4. dc' = [dc EXCEPT ![m] = y]
        BY <1>7, <3>1, <4>2
      <4> QED BY <1>1, <4>1, <4>3, <4>4, NoneAssumption DEF RowsOK
    <3>2. ASSUME ~(still /\ row.status = "available") PROVE dc' = dc
      BY <1>7, <3>2
    <3> QED BY <1>1, <3>1, <3>2 DEF RowsOK
  <2>6. RowsOK'
    <3>1. \A n \in Names : dc'[n] # None => dc[n] # None /\ dc'[n].id = dc[n].id
      BY <2>5
    <3>2. dep = None \/ dep' # None
      BY <1>4
    <3> QED BY <1>1, <2>5, <3>1, <3>2, ChangeFacts
  <2>7. ASSUME m \notin drift
        PROVE  NodesMatch(m)' /\ Match(m)' /\ (dc'[m] # None => dc'[m].status # "orphan")
    <3>1. dc'[m] # None /\ dc'[m].id = row.id /\ dc'[m].key = row.key
      BY <1>5, <2>5, <2>7
    <3>2. NodesMatch(m)'
      BY <1>5, <2>2, <2>3, <2>7, <3>1 DEF NodesMatch, Live
    <3>3. Match(m)'
      BY <1>4, <1>5, <2>7, <3>1 DEF Match, Peer
    <3> QED BY <1>5, <2>5, <2>7, <3>2, <3>3
  <2> QED BY <1>2, <1>3, <1>4, <2>2, <2>4, <2>5, <2>6, <2>7, ServeDone
<1> QED BY <1>4, <1>6, <1>7

\* A node goes: what is left was there.
LEMMA DeleteNodeStep ==
  ASSUME WgInv, NEW i \in Slots, DeleteNode(i)
  PROVE  WgInv'
<1>1. Typed /\ OneActor /\ AloneOK /\ NodesOK
  BY DEF WgInv, Typed
<1>2. node' = [node EXCEPT ![i] = None]
      /\ UNCHANGED <<vps, keys, dep, dc, req, job, adrift, left, alone, drift>>
  BY DEF DeleteNode
<1>3. NodesOK' /\ \A j \in Slots : node'[j] # None => node'[j] = node[j]
  BY <1>1, <1>2 DEF NodesOK
<1>4. Typed' /\ OneActor' /\ AloneOK'
  BY <1>1, <1>2, <1>3 DEF Typed, ServerOK, DepOK, RowsOK, RequestsOK, JobOK, HistoryOK, OneActor,
                          AloneOK, Scope
<1>5. ASSUME NEW n \in Names \ drift' PROVE NameOK(n)'
  <2>1. NameOK(n) /\ dc'[n] = dc[n] /\ Peer(n)' = Peer(n)
    BY <1>2 DEF WgInv, Peer
  <2>2. Keeps(n)
    BY <1>3 DEF Keeps, Live
  <2>3. \A r \in Requests : req'[r] = req[r]
    BY <1>2
  <2> QED BY <1>2, <2>1, <2>2, <2>3, NameFrame
<1> QED BY <1>4, <1>5 DEF WgInv

\* A row for each peer that has none: ids of their own, and the keys that were seen.
LEMMA ImportFacts ==
  ASSUME RowsOK, NEW seen \in [Names -> 0..MaxKeys]
  PROVE  LET new == {n \in Names : seen[n] # 0 /\ dc[n] = None}
         IN /\ \A n \in new : /\ Imported(seen, n) \in Client
                              /\ Imported(seen, n).status = "available"
                              /\ Imported(seen, n).id >= NewId
            /\ \A m, n \in new : m # n => Imported(seen, m).id # Imported(seen, n).id
<1> DEFINE new == {n \in Names : seen[n] # 0 /\ dc[n] = None}
           D == 1..Cardinality(new)
           at == CHOOSE f \in [new -> D] : \A a, b \in new : a # b => f[a] # f[b]
<1>1. IsFiniteSet(new)
  BY WgAssumption, FS_Subset
<1>2. Cardinality(new) \in Nat /\ ExistsBijection(D, new)
  BY <1>1, FS_CardinalityType
<1>3. ExistsBijection(new, D)
  BY <1>2, Fun_ExistsBijSymmetric
<1>5. \E g \in [new -> D] : \A a, b \in new : a # b => g[a] # g[b]
  <2> HIDE DEF new, D
  <2>1. PICK g : g \in Bijection(new, D)
    BY <1>3 DEF ExistsBijection
  <2>2. g \in [new -> D] /\ \A a, b \in new : g[a] = g[b] => a = b
    BY <2>1, Fun_BijectionProperties
  <2> QED BY <2>2
<1>6. at \in [new -> D] /\ \A a, b \in new : a # b => at[a] # at[b]
  BY <1>5
<1>7. \A n \in new : Imported(seen, n)
        = [id |-> NewId - 1 + at[n], key |-> seen[n], own |-> FALSE, status |-> "available"]
  BY DEF Imported
<1>8. NewId \in Nat \ {0}
  BY NewIdFacts
<1>9. \A n \in new : seen[n] \in Key
  <2>1. \A n \in new : seen[n] \in 0..MaxKeys /\ seen[n] # 0
    OBVIOUS
  <2> QED BY <2>1, Zero DEF Key
<1> HIDE DEF at
<1>10. \A n \in new : at[n] \in Nat /\ at[n] >= 1
  BY <1>2, <1>6
<1> HIDE DEF new, D
<1>11. ASSUME NEW n \in new
       PROVE  /\ Imported(seen, n) \in Client /\ Imported(seen, n).status = "available"
              /\ Imported(seen, n).id = NewId - 1 + at[n] /\ Imported(seen, n).id >= NewId
  <2>1. PICK i : i = NewId - 1 + at[n]
    OBVIOUS
  <2>2. i \in Nat \ {0} /\ i >= NewId
    BY <1>8, <1>10, <2>1
  <2>3. Imported(seen, n) = [id |-> i, key |-> seen[n], own |-> FALSE, status |-> "available"]
    BY <1>7, <2>1
  <2> QED BY <1>9, <2>1, <2>2, <2>3 DEF Client
<1>12. ASSUME NEW m \in new, NEW n \in new, m # n
       PROVE  Imported(seen, m).id # Imported(seen, n).id
  <2>1. at[m] # at[n] /\ at[m] \in Nat /\ at[n] \in Nat
    BY <1>6, <1>10, <1>12
  <2> QED BY <1>8, <1>11, <2>1
<1> QED BY <1>11, <1>12 DEF new

\* The rows after a sync.
LEMMA SyncFacts ==
  ASSUME RowsOK, dep # None, dep' # None, NEW seen \in [Names -> 0..MaxKeys],
         dc' = [n \in Names |->
                  CASE seen[n] # 0 /\ dc[n] # None -> Known(n)
                    [] seen[n] # 0 /\ dc[n] = None -> Imported(seen, n)
                    [] seen[n] = 0 /\ dc[n] # None -> [dc[n] EXCEPT !.status = "orphan"]
                    [] OTHER -> None]
  PROVE  /\ RowsOK'
         /\ \A n \in Names : seen[n] # 0 <=> dc'[n] # None /\ dc'[n].status # "orphan"
         /\ \A n \in Names : seen[n] # 0 /\ dc[n] # None /\ dc[n].status # "orphan" => dc'[n] = dc[n]
         /\ \A n \in Names : seen[n] = 0 /\ dc[n] = None => dc'[n] = dc[n]
<1>1. \A n \in Names : dc[n] \in Client \cup {None}
  BY DEF RowsOK
\* Known: the row, and not an orphan.
<1>2. ASSUME NEW n \in Names, seen[n] # 0, dc[n] # None
      PROVE  /\ dc'[n] \in Client /\ dc'[n] # None /\ dc'[n].id = dc[n].id
             /\ dc'[n].status # "orphan" /\ (dc[n].status # "orphan" => dc'[n] = dc[n])
  <2>1. dc'[n] = Known(n) /\ dc[n] \in Client
    BY <1>1, <1>2
  <2>2. PICK y : y = [dc[n] EXCEPT !.status = "available"]
    OBVIOUS
  <2>3. y \in Client /\ y.id = dc[n].id /\ y.status = "available"
    BY <2>1, <2>2 DEF Client
  <2>4. dc'[n] = IF dc[n].status = "orphan" THEN y ELSE dc[n]
    BY <2>1, <2>2 DEF Known
  <2> QED BY <2>1, <2>3, <2>4, NoneAssumption
<1>3. ASSUME NEW n \in Names, seen[n] # 0, dc[n] = None PROVE dc'[n] = Imported(seen, n)
  BY <1>3
<1>4. ASSUME NEW n \in Names, seen[n] = 0, dc[n] # None
      PROVE  dc'[n] \in Client /\ dc'[n] # None /\ dc'[n].id = dc[n].id /\ dc'[n].status = "orphan"
  <2>1. PICK y : y = [dc[n] EXCEPT !.status = "orphan"]
    OBVIOUS
  <2>2. y \in Client /\ y.id = dc[n].id /\ y.status = "orphan"
    BY <1>1, <1>4, <2>1 DEF Client
  <2>3. dc'[n] = y
    BY <1>4, <2>1
  <2> QED BY <2>2, <2>3, NoneAssumption
<1>5. ASSUME NEW n \in Names, seen[n] = 0, dc[n] = None PROVE dc'[n] = None
  BY <1>5
<1>6. \A n \in Names : seen[n] # 0 /\ dc[n] = None =>
        /\ dc'[n] \in Client /\ dc'[n] # None /\ dc'[n].status # "orphan" /\ dc'[n].id >= NewId
        /\ \A m \in Names : m # n /\ seen[m] # 0 /\ dc[m] = None => dc'[m].id # dc'[n].id
  BY <1>3, ImportFacts, NoneAssumption
<1>7. NewId \in Nat \ {0} /\ \A n \in Names : dc[n] # None => dc[n].id \in Nat /\ dc[n].id < NewId
  BY <1>1, NewIdFacts DEF Client
<1>8. dc' \in [Names -> Client \cup {None}]
  <2>1. \A n \in Names : dc'[n] \in Client \cup {None}
    BY <1>2, <1>4, <1>5, <1>6
  <2>2. dc' = [n \in Names |-> dc'[n]]
    OBVIOUS
  <2> QED BY <2>1, <2>2
<1>9. \A n \in Names : dc'[n] # None => dc'[n].id \in Nat
  BY <1>8 DEF Client
<1>10. \A n \in Names : dc'[n] # None => (dc[n] # None /\ dc'[n].id = dc[n].id)
                                         \/ (dc[n] = None /\ seen[n] # 0 /\ dc'[n].id >= NewId)
  BY <1>2, <1>4, <1>5, <1>6
<1>11. ASSUME NEW m \in Names, NEW n \in Names, m # n, dc'[m] # None, dc'[n] # None
       PROVE  dc'[m].id # dc'[n].id
  <2>1. CASE dc[m] # None /\ dc[n] # None
    BY <1>10, <1>11, <2>1 DEF RowsOK
  <2>2. CASE dc[m] = None /\ dc[n] = None
    BY <1>6, <1>10, <1>11, <2>2
  <2>3. CASE ~(dc[m] # None <=> dc[n] # None)
    BY <1>7, <1>9, <1>10, <1>11, <2>3
  <2> QED BY <2>1, <2>2, <2>3
<1>12. RowsOK'
  BY <1>8, <1>11 DEF RowsOK
<1> QED BY <1>2, <1>4, <1>5, <1>6, <1>12

LEMMA ReconcileFacts ==
  ASSUME RequestsOK, NEW r \in Requests, Reconcile(r)
  PROVE  /\ req[r].at = "reconcile" /\ Scope(r) = Names /\ Done(r)
         /\ UNCHANGED <<vps, keys, dep, job, adrift, left, alone, drift>>
         /\ dep = None => UNCHANGED <<dc, node>>
         /\ \E seen \in [Names -> 0..MaxKeys] : \E ids :
              /\ seen = req[r].seen /\ (dep # None => node' = Flagged(ids))
              /\ dep # None => dc' = [n \in Names |->
                   CASE seen[n] # 0 /\ dc[n] # None -> Known(n)
                     [] seen[n] # 0 /\ dc[n] = None -> Imported(seen, n)
                     [] seen[n] = 0 /\ dc[n] # None -> [dc[n] EXCEPT !.status = "orphan"]
                     [] OTHER -> None]
<1>1. req[r].at = "reconcile" /\ Scope(r) = Names /\ Done(r)
      /\ UNCHANGED <<vps, keys, dep, job, adrift, left, alone, drift>>
      /\ (dep = None => UNCHANGED <<dc, node>>)
  BY ScopeFacts DEF Reconcile
<1>2. req[r].seen \in [Names -> 0..MaxKeys]
  BY DEF RequestsOK, Request
<1>3. PICK seen \in [Names -> 0..MaxKeys] : seen = req[r].seen
  BY <1>2
<1> DEFINE gone == {n \in Names : seen[n] = 0 /\ dc[n] # None}
<1>4. PICK ids : ids = {dc[n].id : n \in {n \in gone : dc[n].status # "orphan"}}
  OBVIOUS
<1>5. dep # None => node' = Flagged(ids)
  BY <1>3, <1>4 DEF Reconcile
<1>6. dep # None => dc' = [n \in Names |->
        CASE seen[n] # 0 /\ dc[n] # None -> Known(n)
          [] seen[n] # 0 /\ dc[n] = None -> Imported(seen, n)
          [] n \in gone -> [dc[n] EXCEPT !.status = "orphan"]
          [] OTHER -> None]
  BY <1>3 DEF Reconcile
<1>7. \A n \in Names : n \in gone <=> seen[n] = 0 /\ dc[n] # None
  OBVIOUS
<1> HIDE DEF gone
<1>8. dep # None => dc' = [n \in Names |->
        CASE seen[n] # 0 /\ dc[n] # None -> Known(n)
          [] seen[n] # 0 /\ dc[n] = None -> Imported(seen, n)
          [] seen[n] = 0 /\ dc[n] # None -> [dc[n] EXCEPT !.status = "orphan"]
          [] OTHER -> None]
  BY <1>6, <1>7
<1> QED BY <1>1, <1>3, <1>5, <1>8

LEMMA ReconcileStep ==
  ASSUME WgInv, NEW r \in Requests, Reconcile(r)
  PROVE  WgInv'
<1>1. Typed /\ RowsOK /\ NodesOK /\ RequestsOK
  BY DEF WgInv, Typed
<1>2. /\ req[r].at = "reconcile" /\ Scope(r) = Names /\ Done(r)
      /\ UNCHANGED <<vps, keys, dep, job, adrift, left, alone, drift>>
      /\ dep = None => UNCHANGED <<dc, node>>
  BY <1>1, ReconcileFacts
<1>3. \A n \in Names \ drift : /\ Match(n) /\ NodesMatch(n) /\ dep # None
                               /\ req[r].seen[n] = Peer(n)
                               /\ (dc[n] # None => dc[n].status # "orphan")
  BY <1>2, OwnFacts DEF Serves
<1>4. ASSUME dep = None PROVE WgInv'
  <2>1. UNCHANGED <<dc, node>> /\ Names \subseteq drift
    BY <1>2, <1>3, <1>4
  <2>2. RowsOK' /\ NodesOK'
    BY <1>1, <1>2, <2>1 DEF RowsOK, NodesOK
  <2> QED BY <1>2, <2>1, <2>2, ServeDone
<1>5. ASSUME dep # None PROVE WgInv'
  <2>a. PICK seen \in [Names -> 0..MaxKeys] : \E ids :
          /\ seen = req[r].seen /\ node' = Flagged(ids)
          /\ dc' = [n \in Names |->
               CASE seen[n] # 0 /\ dc[n] # None -> Known(n)
                 [] seen[n] # 0 /\ dc[n] = None -> Imported(seen, n)
                 [] seen[n] = 0 /\ dc[n] # None -> [dc[n] EXCEPT !.status = "orphan"]
                 [] OTHER -> None]
    BY <1>1, <1>5, ReconcileFacts
  <2>1. PICK ids :
          /\ seen = req[r].seen /\ node' = Flagged(ids)
          /\ dc' = [n \in Names |->
               CASE seen[n] # 0 /\ dc[n] # None -> Known(n)
                 [] seen[n] # 0 /\ dc[n] = None -> Imported(seen, n)
                 [] seen[n] = 0 /\ dc[n] # None -> [dc[n] EXCEPT !.status = "orphan"]
                 [] OTHER -> None]
    BY <2>a
  <2>2. NodesOK' /\ \A n : Keeps(n)
    BY <1>1, <2>1, FlagFacts
  <2>3. /\ RowsOK'
        /\ \A n \in Names : seen[n] # 0 /\ dc[n] # None /\ dc[n].status # "orphan" => dc'[n] = dc[n]
        /\ \A n \in Names : seen[n] = 0 /\ dc[n] = None => dc'[n] = dc[n]
    BY <1>1, <1>2, <1>5, <2>1, SyncFacts
  <2>4. ASSUME NEW n \in Names \ drift
        PROVE  dc'[n] = dc[n] /\ NodesMatch(n)' /\ Match(n)'
               /\ (dc'[n] # None => dc'[n].status # "orphan")
    <3>1. dc[n] # None => dc[n].key \in Key
      BY <1>1 DEF RowsOK, Client
    <3>2. seen[n] # 0 <=> dc[n] # None
      BY <1>3, <2>1, <3>1, Zero DEF Match
    <3>3. dc'[n] = dc[n]
      BY <1>3, <2>3, <3>2
    <3>4. Peer(n)' = Peer(n)
      BY <1>2 DEF Peer
    <3>5. NodesMatch(n)' /\ Match(n)'
      BY <1>3, <2>2, <3>3, <3>4 DEF NodesMatch, Match, Keeps
    <3> QED BY <1>3, <3>3, <3>5
  <2> QED BY <1>2, <2>2, <2>3, <2>4, ServeDone
<1> QED BY <1>4, <1>5

-----------------------------------------------------------------------------
(* The jobs, and what nobody waits for.                                    *)

LEMMA StartJobStep ==
  ASSUME WgInv, NEW at \in {"install", "uninstall"}, NEW m \in Names \cup {None},
         at = "install" => m \in Names, StartJob(at, m)
  PROVE  WgInv'
<1>1. Typed /\ OneActor /\ RequestsOK /\ HistoryOK /\ JobOK
  BY DEF WgInv, Typed
<1>2. job.at = "idle" /\ job' = [NoJob EXCEPT !.at = at, !.n = m] /\ Begin(None, Names)
      /\ UNCHANGED <<vps, keys, dep, dc, node, req, adrift>>
  BY DEF StartJob
<1>3. job' \in Job /\ job'.at = at /\ job'.n = m
  BY <1>2, IdleTypes DEF Job
<1>4. /\ HistoryOK' /\ drift \subseteq drift'
      /\ \A n \in Names : n \notin drift' => n \notin Others(None)
      /\ \A q \in Requests : ~alone'[q]
  <2>1. \A q \in Requests : q # None
    BY NoneAssumption
  <2> QED BY <1>1, <1>2, <2>1, BeginFacts
<1>5. \A n \in Names : n \notin drift' => adrift = None /\ \A q \in Requests : n \notin Scope(q)
  <2>1. \A q \in Requests : q \in Requests \ {None}
    BY NoneAssumption
  <2> QED BY <1>1, <1>4, <2>1, OthersFacts
<1>6. RequestsOK' /\ \A q \in Requests : Scope(q)' = Scope(q)
  BY <1>1, <1>2 DEF RequestsOK, Scope
<1>7. Typed'
  BY <1>1, <1>2, <1>3, <1>4, <1>6 DEF Typed, ServerOK, DepOK, RowsOK, NodesOK, JobOK
<1>8. OneActor' /\ AloneOK'
  <2>1. OneActor'
    BY <1>2, <1>5, <1>6 DEF OneActor
  <2>2. AloneOK'
    BY <1>4 DEF AloneOK
  <2> QED BY <2>1, <2>2
<1>9. ASSUME NEW n \in Names \ drift' PROVE NameOK(n)'
  <2>1. NameOK(n) /\ dc'[n] = dc[n] /\ Peer(n)' = Peer(n) /\ Keeps(n)
    BY <1>2, <1>4 DEF WgInv, Peer, Keeps, Live
  <2>2. job.at \notin {"client", "drop"} /\ job'.at \notin {"client", "drop"}
    BY <1>2, <1>3
  <2>3. \A r \in Requests : req'[r] = req[r]
    BY <1>2
  <2> QED BY <1>2, <2>1, <2>2, <2>3, NameFrame
<1> QED BY <1>7, <1>8, <1>9 DEF WgInv

\* What is known of a name while a job runs.
LEMMA JobFacts ==
  ASSUME WgInv, job.at # "idle", NEW n \in Names \ drift
  PROVE  /\ NodesMatch(n) /\ (dc[n] # None => dc[n].status # "orphan")
         /\ job.at = "client" /\ job.n = n => dc[n] = None /\ Peer(n) = job.key
         /\ job.at = "drop" => Peer(n) = 0
         /\ (job.at = "client" /\ job.n = n) \/ job.at = "drop" \/ Match(n)
<1>1. NameOK(n) /\ \A r \in Requests : n \notin Scope(r)
  BY DEF WgInv, OneActor
<1> QED BY <1>1 DEF NameOK, Mid

LEMMA JobStep ==
  ASSUME WgInv, job.at # "idle", ServerOK', DepOK', RowsOK', NodesOK', JobOK',
         UNCHANGED <<req, adrift, left, alone, drift>>,
         \A n \in Names \ drift :
           /\ dc'[n] # None => dc'[n].status # "orphan"
           /\ NodesMatch(n)'
           /\ job'.at = "client" /\ job'.n = n => dc'[n] = None /\ Peer(n)' = job'.key
           /\ job'.at = "drop" => Peer(n)' = 0
           /\ (job'.at = "client" /\ job'.n = n) \/ job'.at = "drop" \/ Match(n)'
  PROVE  WgInv'
<1>1. /\ RequestsOK' /\ HistoryOK' /\ OneActor' /\ AloneOK'
      /\ \A n \in Names \ drift, r \in Requests : n \notin Scope(r) /\ n \notin Scope(r)'
  BY JobRest
<1>2. Typed'
  BY <1>1 DEF Typed
<1>3. ASSUME NEW n \in Names \ drift' PROVE NameOK(n)'
  <2>1. n \in Names \ drift
    OBVIOUS
  <2> QED BY <1>1, <2>1, JobOwn
<1> QED BY <1>1, <1>2, <1>3 DEF WgInv

\* The peers are gone where there is nothing to match.
LEMMA NoPeer ==
  ASSUME RowsOK, NEW n \in Names, Match(n), Peer(n) = 0
  PROVE  dc[n] = None
<1>1. dc[n] # None => dc[n].key \in Key
  BY DEF RowsOK, Client
<1> QED BY <1>1, Zero DEF Match

LEMMA InstallFacts ==
  ASSUME ServerOK, NEW m \in Names, Install(m)
  PROVE  /\ ServerOK'
         /\ vps = None /\ keys < MaxKeys =>
              keys + 1 \in Key /\ Peer(m)' = keys + 1 /\ \A n \in Names \ {m} : Peer(n)' = 0
         /\ ~(vps = None /\ keys < MaxKeys) => UNCHANGED <<vps, keys>>
<1>1. keys \in Nat /\ MaxKeys \in Nat /\ keys <= MaxKeys
  BY WgAssumption DEF ServerOK
<1>2. ASSUME vps = None, keys < MaxKeys
      PROVE  /\ ServerOK' /\ keys + 1 \in Key /\ Peer(m)' = keys + 1
             /\ \A n \in Names \ {m} : Peer(n)' = 0
  <2>1. keys + 1 \in 0..MaxKeys /\ keys + 1 \in Key
    BY <1>1, <1>2 DEF Key
  <2>2. vps' = [NoPeers EXCEPT ![m] = keys + 1] /\ keys' = keys + 1
    BY <1>1, <1>2 DEF Install
  <2>3. vps' \in [Names -> 0..MaxKeys] /\ vps'[m] = keys + 1 /\ \A n \in Names \ {m} : vps'[n] = 0
    BY <2>1, <2>2, Zero DEF NoPeers
  <2>4. vps' # None
    BY <2>3, NoneAssumption
  <2> QED BY <2>1, <2>2, <2>3, <2>4 DEF ServerOK, Peer
<1>3. ~(vps = None /\ keys < MaxKeys) => UNCHANGED <<vps, keys>>
  BY <1>1 DEF Install
<1> QED BY <1>2, <1>3, SamePeers

LEMMA InstallExecStep ==
  ASSUME WgInv, InstallExec
  PROVE  WgInv'
<1>1. ServerOK /\ DepOK /\ RowsOK /\ NodesOK /\ JobOK
  BY DEF WgInv, Typed
<1>2. /\ job.at = "install" /\ job.n \in Names /\ job \in Job
      /\ UNCHANGED <<dep, dc, node, req, adrift, left, alone, drift>>
  BY <1>1 DEF InstallExec, JobOK
<1>3. PICK m \in Names : m = job.n
  BY <1>2
<1>4. /\ ServerOK'
      /\ vps = None /\ keys < MaxKeys =>
           keys + 1 \in Key /\ Peer(m)' = keys + 1 /\ \A n \in Names \ {m} : Peer(n)' = 0
      /\ ~(vps = None /\ keys < MaxKeys) => UNCHANGED <<vps, keys>>
  BY <1>1, <1>3, InstallFacts DEF InstallExec
<1>5. /\ DepOK' /\ RowsOK' /\ NodesOK' /\ \A n : NodesMatch(n) => NodesMatch(n)'
  BY <1>1, <1>2 DEF DepOK, RowsOK, NodesOK, NodesMatch, Live
<1>6. \A n \in Names \ drift : NodesMatch(n) /\ Match(n) /\ (dc[n] # None => dc[n].status # "orphan")
  BY <1>2, JobFacts
<1>7. ASSUME vps = None, keys < MaxKeys PROVE WgInv'
  <2> DEFINE x == [job EXCEPT !.at = "client", !.key = keys + 1, !.ok = TRUE]
  <2>1. job' = x
    BY <1>7 DEF InstallExec
  <2>2. x \in Job /\ x.at = "client" /\ x.key = keys + 1 /\ x.n = m
    BY <1>2, <1>3, <1>4, <1>7, Zero DEF Job
  <2> HIDE DEF x
  <2>3. JobOK'
    BY <1>1, <1>2, <1>4, <1>7, <2>1, <2>2 DEF JobOK
  <2>4. ASSUME NEW n \in Names \ drift PROVE dc[n] = None
    <3>1. Peer(n) = 0
      BY <1>7 DEF Peer
    <3> QED BY <1>1, <1>6, <3>1, NoPeer
  <2>5. ASSUME NEW n \in Names \ drift, n # m PROVE Match(n)'
    BY <1>2, <1>4, <1>7, <2>4, <2>5 DEF Match
  <2> QED BY <1>2, <1>4, <1>5, <1>6, <1>7, <2>1, <2>2, <2>3, <2>4, <2>5, JobStep
<1>8. ASSUME ~(vps = None /\ keys < MaxKeys) PROVE WgInv'
  <2> DEFINE x == [job EXCEPT !.at = "status"]
  <2>1. job' = x /\ UNCHANGED <<vps, keys>>
    BY <1>4, <1>8 DEF InstallExec
  <2>2. x \in Job /\ x.at = "status"
    BY <1>2 DEF Job
  <2> HIDE DEF x
  <2>3. JobOK'
    BY <1>1, <1>2, <2>1, <2>2 DEF JobOK
  <2>4. \A n \in Names \ drift : Match(n)'
    BY <1>2, <1>6, <2>1 DEF Match, Peer
  <2> QED BY <1>2, <1>4, <1>5, <1>6, <2>1, <2>2, <2>3, <2>4, JobStep
<1> QED BY <1>7, <1>8

LEMMA RecordClientStep ==
  ASSUME WgInv, RecordClient
  PROVE  WgInv'
<1>1. ServerOK /\ DepOK /\ RowsOK /\ NodesOK /\ JobOK
  BY DEF WgInv, Typed
<1>2. /\ job.at = "client" /\ job.n \in Names /\ job.key \in Key /\ job \in Job
      /\ UNCHANGED <<vps, keys, node, req, adrift, left, alone, drift>>
  BY <1>1 DEF RecordClient, JobOK
<1>3. PICK m \in Names, key \in Key : m = job.n /\ key = job.key
  BY <1>2
<1>4. ServerOK' /\ NodesOK' /\ \A n : Peer(n)' = Peer(n)
  BY <1>1, <1>2 DEF ServerOK, NodesOK, Peer
<1>5. /\ \A n \in Names \ drift : NodesMatch(n) /\ (dc[n] # None => dc[n].status # "orphan")
      /\ m \notin drift => dc[m] = None /\ Peer(m) = key
      /\ \A n \in Names \ drift : n # m => Match(n)
  BY <1>2, <1>3, JobFacts
<1>6. ASSUME dc[m] # None PROVE WgInv'
  <2>1. job' = NoJob /\ UNCHANGED <<dep, dc>> /\ m \in drift
    BY <1>3, <1>5, <1>6 DEF RecordClient
  <2>2. JobOK' /\ DepOK' /\ RowsOK'
    BY <1>1, <1>2, <2>1, IdleTypes DEF JobOK, DepOK, RowsOK
  <2>3. \A n \in Names \ drift : NodesMatch(n)' /\ Match(n)'
    BY <1>2, <1>4, <1>5, <2>1 DEF NodesMatch, Live, Match
  <2> QED BY <1>2, <1>4, <1>5, <2>1, <2>2, <2>3, IdleTypes, JobStep
<1>7. ASSUME dc[m] = None PROVE WgInv'
  <2>1. /\ dep' = IF dep = None THEN "deployed" ELSE dep
        /\ dc' = [dc EXCEPT ![m] = Row(key, TRUE)] /\ job' = [job EXCEPT !.at = "status"]
    BY <1>3, <1>7 DEF RecordClient
  <2>2. dep' # None /\ DepOK'
    BY <1>1, <2>1, NoneAssumption DEF DepOK
  <2>3. job' \in Job /\ job'.at = "status"
    BY <1>2, <2>1 DEF Job
  <2>4. JobOK'
    BY <1>1, <1>2, <2>3 DEF JobOK
  <2>5. /\ RowsOK' /\ dc'[m] # None /\ dc'[m].key = key
        /\ dc'[m].status = "available" /\ \A n \in Names \ {m} : dc'[n] = dc[n]
    BY <1>1, <2>1, <2>2, InsertFacts
  <2>6. ASSUME NEW n \in Names \ drift
        PROVE  NodesMatch(n)' /\ Match(n)' /\ (dc'[n] # None => dc'[n].status # "orphan")
    <3>1. CASE n = m
      BY <1>2, <1>4, <1>5, <1>7, <2>5, <3>1 DEF NodesMatch, Live, Match
    <3>2. CASE n # m
      BY <1>2, <1>4, <1>5, <2>5, <3>2 DEF NodesMatch, Live, Match
    <3> QED BY <3>1, <3>2
  <2> QED BY <1>2, <1>4, <2>2, <2>3, <2>4, <2>5, <2>6, JobStep
<1> QED BY <1>6, <1>7

LEMMA RecordStatusStep ==
  ASSUME WgInv, RecordStatus
  PROVE  WgInv'
<1>1. ServerOK /\ DepOK /\ RowsOK /\ NodesOK /\ JobOK
  BY DEF WgInv, Typed
<1>2. /\ job.at = "status" /\ job' = NoJob
      /\ UNCHANGED <<vps, keys, dc, node, req, adrift, left, alone, drift>>
  BY DEF RecordStatus
<1>3. dep' \in {"deployed", "failed"} /\ dep' # None
  BY <1>1, NoneAssumption DEF RecordStatus, DepOK
<1>4. ServerOK' /\ DepOK' /\ RowsOK' /\ NodesOK' /\ JobOK'
  BY <1>1, <1>2, <1>3, IdleTypes DEF ServerOK, DepOK, RowsOK, NodesOK, JobOK
<1>5. \A n \in Names \ drift : NodesMatch(n) /\ Match(n) /\ (dc[n] # None => dc[n].status # "orphan")
  BY <1>2, JobFacts
<1>6. \A n \in Names \ drift : NodesMatch(n)' /\ Match(n)'
  BY <1>2, <1>5 DEF NodesMatch, Live, Match, Peer
<1> QED BY <1>2, <1>4, <1>5, <1>6, IdleTypes, JobStep

LEMMA UninstallExecStep ==
  ASSUME WgInv, UninstallExec
  PROVE  WgInv'
<1>1. ServerOK /\ DepOK /\ RowsOK /\ NodesOK /\ JobOK
  BY DEF WgInv, Typed
<1>2. /\ job.at = "uninstall" /\ vps' = None /\ job' = [job EXCEPT !.at = "drop"] /\ job \in Job
      /\ UNCHANGED <<keys, dep, dc, node, req, adrift, left, alone, drift>>
  BY <1>1 DEF UninstallExec, JobOK
<1>3. job' \in Job /\ job'.at = "drop"
  BY <1>2 DEF Job
<1>4. ServerOK' /\ DepOK' /\ RowsOK' /\ NodesOK' /\ JobOK'
  BY <1>1, <1>2, <1>3 DEF ServerOK, DepOK, RowsOK, NodesOK, JobOK
<1>5. \A n \in Names \ drift : NodesMatch(n) /\ (dc[n] # None => dc[n].status # "orphan")
  BY <1>2, JobFacts
<1>6. \A n \in Names \ drift : NodesMatch(n)' /\ Peer(n)' = 0
  BY <1>2, <1>5 DEF NodesMatch, Live, Peer
<1> QED BY <1>2, <1>3, <1>4, <1>5, <1>6, JobStep

\* Each live node named a row, and each row's nodes are flagged.
LEMMA DropDeploymentStep ==
  ASSUME WgInv, DropDeployment
  PROVE  WgInv'
<1>1. ServerOK /\ DepOK /\ RowsOK /\ NodesOK /\ JobOK
  BY DEF WgInv, Typed
<1>2. PICK ids : ids = {dc[n].id : n \in {n \in Names : dc[n] # None}}
  OBVIOUS
<1>3. /\ job.at = "drop" /\ job' = NoJob /\ node' = Flagged(ids)
      /\ dep' = None /\ dc' = [n \in Names |-> None]
      /\ UNCHANGED <<vps, keys, req, adrift, left, alone, drift>>
  BY <1>2 DEF DropDeployment
<1>4. /\ NodesOK' /\ \A n : Keeps(n)
      /\ \A i \in Slots : node'[i] # None => /\ node[i] # None /\ node'[i].n = node[i].n
                                             /\ node[i].from \in ids => node'[i].orphan
  BY <1>1, <1>3, FlagFacts
<1>5. ServerOK' /\ DepOK' /\ RowsOK' /\ JobOK'
  BY <1>1, <1>3, IdleTypes DEF ServerOK, DepOK, RowsOK, JobOK
<1>6. ASSUME NEW n \in Names \ drift PROVE NodesMatch(n)' /\ Match(n)'
  <2>1. NodesMatch(n) /\ Peer(n) = 0
    BY <1>3, JobFacts
  <2>2. \A i \in Slots : ~Live(i, n)'
    BY <1>2, <1>4, <2>1 DEF NodesMatch, Keeps, Live
  <2>3. Match(n)'
    BY <1>3, <2>1 DEF Match, Peer
  <2> QED BY <2>2, <2>3 DEF NodesMatch
<1> QED BY <1>3, <1>4, <1>5, <1>6, IdleTypes, JobStep

\* Once every name has drifted there is nothing left to say of them.
LEMMA AllDrift ==
  ASSUME Typed', Names \subseteq drift', \A q \in Requests : ~(alone'[q] /\ req'[q].at # "idle")
  PROVE  WgInv'
BY DEF WgInv, OneActor, AloneOK

LEMMA CancelStep ==
  ASSUME WgInv, Cancel
  PROVE  WgInv'
<1>1. Typed /\ HistoryOK /\ JobOK /\ RequestsOK
  BY DEF WgInv, Typed
<1>2. /\ Mishap(Names) /\ job' = NoJob /\ UNCHANGED <<vps, keys, dep, dc, node, req>>
      /\ adrift' \in {None, "install", "uninstall"}
  BY DEF Cancel
<1>3. HistoryOK' /\ Names \subseteq drift' /\ \A q \in Requests : ~alone'[q]
  BY <1>1, <1>2, MishapFacts
<1>4. Typed'
  BY <1>1, <1>2, <1>3, IdleTypes DEF Typed, ServerOK, DepOK, RowsOK, NodesOK, RequestsOK, JobOK
<1> QED BY <1>3, <1>4, AllDrift

LEMMA RunsOnStep ==
  ASSUME WgInv, RunsOn
  PROVE  WgInv'
<1>1. Typed /\ OneActor /\ AloneOK /\ ServerOK
  BY DEF WgInv, Typed
<1>2. /\ adrift # None /\ adrift' = None /\ UNCHANGED <<dep, dc, node, req, job, left, alone, drift>>
      /\ (\E n \in Names : Install(n)) \/ (vps' = None /\ UNCHANGED keys)
  BY DEF RunsOn
<1>3. ServerOK'
  <2>1. ASSUME NEW n \in Names, Install(n) PROVE ServerOK'
    BY <1>1, <2>1, InstallFacts
  <2>2. ASSUME vps' = None, UNCHANGED keys PROVE ServerOK'
    BY <1>1, <2>2 DEF ServerOK
  <2> QED BY <1>2, <2>1, <2>2
<1>4. Typed'
  BY <1>1, <1>2, <1>3 DEF Typed, DepOK, RowsOK, NodesOK, RequestsOK, JobOK, HistoryOK
<1>5. Names \subseteq drift' /\ \A q \in Requests : ~(alone'[q] /\ req'[q].at # "idle")
  BY <1>1, <1>2 DEF OneActor, AloneOK
<1> QED BY <1>4, <1>5, AllDrift

LEMMA DeleteDeploymentStep ==
  ASSUME WgInv, DeleteDeployment
  PROVE  WgInv'
<1>1. Typed /\ HistoryOK
  BY DEF WgInv, Typed
<1>2. /\ dep' = None /\ dc' = [n \in Names |-> None] /\ Mishap(Names)
      /\ UNCHANGED <<vps, keys, node, req, job, adrift>>
  BY DEF DeleteDeployment
<1>3. HistoryOK' /\ Names \subseteq drift' /\ \A q \in Requests : ~alone'[q]
  BY <1>1, <1>2, MishapFacts
<1>4. Typed'
  BY <1>1, <1>2, <1>3 DEF Typed, ServerOK, DepOK, RowsOK, NodesOK, RequestsOK, JobOK
<1> QED BY <1>3, <1>4, AllDrift

LEMMA ByHandStep ==
  ASSUME WgInv, NEW m \in Names, ByHand(m)
  PROVE  WgInv'
<1>1. Typed /\ HistoryOK /\ ServerOK /\ OneActor
  BY DEF WgInv, Typed
<1>2. Mishap({m}) /\ (AddPeer(m) \/ RemovePeer(m)) /\ UNCHANGED <<dep, dc, node, req, job, adrift>>
  BY DEF ByHand
<1>3. /\ HistoryOK' /\ drift \subseteq drift' /\ m \in drift'
      /\ \A q \in Requests : ~alone'[q]
  BY <1>1, <1>2, MishapFacts
<1>4. ServerOK' /\ \A n \in Names \ {m} : Peer(n)' = Peer(n)
  BY <1>1, <1>2, AddFacts, RemoveFacts
<1>5. Typed'
  BY <1>1, <1>2, <1>3, <1>4 DEF Typed, DepOK, RowsOK, NodesOK, RequestsOK, JobOK
<1>6. OneActor' /\ AloneOK'
  <2>1. \A r \in Requests : Scope(r)' = Scope(r)
    BY <1>2 DEF Scope
  <2>2. OneActor'
    BY <1>1, <1>2, <1>3, <2>1 DEF OneActor
  <2> QED BY <1>3, <2>2 DEF AloneOK
<1>7. ASSUME NEW n \in Names \ drift' PROVE NameOK(n)'
  <2>1. NameOK(n) /\ dc'[n] = dc[n] /\ Peer(n)' = Peer(n) /\ Keeps(n)
    BY <1>2, <1>3, <1>4 DEF WgInv, Keeps, Live
  <2>2. \A r \in Requests : req'[r] = req[r]
    BY <1>2
  <2> QED BY <1>2, <2>1, <2>2, NameFrame
<1> QED BY <1>5, <1>6, <1>7 DEF WgInv

-----------------------------------------------------------------------------
(* The invariant, and what follows.                                        *)

LEMMA InitInv == Init => WgInv
<1> SUFFICES ASSUME Init PROVE WgInv
  OBVIOUS
<1>1. \A r \in Requests : req[r] = Idle /\ req[r].at = "idle" /\ Scope(r) = {}
  BY IdleTypes DEF Init, Scope
<1>2. job = NoJob /\ job.at = "idle" /\ vps = None /\ adrift = None
      /\ (\A n \in Names : dc[n] = None) /\ \A i \in Slots : node[i] = None
  BY IdleTypes DEF Init
<1>3. Typed
  <2>1. ServerOK /\ HistoryOK
    BY Zero, WgAssumption DEF Init, ServerOK, HistoryOK
  <2>2. DepOK /\ RowsOK /\ NodesOK
    BY DEF Init, DepOK, RowsOK, NodesOK
  <2>3. RequestsOK /\ JobOK
    BY <1>1, <1>2, IdleTypes DEF Init, RequestsOK, JobOK, Naming, Carrying
  <2> QED BY <2>1, <2>2, <2>3 DEF Typed
<1>4. OneActor /\ AloneOK
  BY <1>1, <1>2 DEF OneActor, AloneOK
<1>5. ASSUME NEW n \in Names PROVE NameOK(n)
  BY <1>1, <1>2 DEF NameOK, NodesMatch, Live, Match, Mid, Peer
<1> QED BY <1>3, <1>4, <1>5 DEF WgInv

LEMMA StepInv == WgInv /\ [Next]_vars => WgInv'
<1> SUFFICES ASSUME WgInv, [Next]_vars PROVE WgInv'
  OBVIOUS
<1>1. ASSUME NEW r \in Requests, Serve(r) PROVE WgInv'
  BY <1>1, ExecStep, AddInsertStep, RemoveDeleteStep, ListPeersStep, ReconcileStep, ExportInsertStep
     DEF Serve
<1>2. ASSUME NEW r \in Requests, SyncClients(r) PROVE WgInv'
  BY <1>2, SyncClientsStep
<1>3. ASSUME NEW r \in Requests, NEW n \in Names,
             AddClient(r, n) \/ RemoveClient(r, n) \/ ExportClient(r, n)
      PROVE  WgInv'
  BY <1>3, AddClientStep, RemoveClientStep
<1>4. ASSUME NEW i \in Slots, DeleteNode(i) PROVE WgInv'
  BY <1>4, DeleteNodeStep
<1>5. ASSUME NEW n \in Names, Deploy(n) \/ ByHand(n) PROVE WgInv'
  BY <1>5, StartJobStep, ByHandStep DEF Deploy
<1>6. ASSUME Uninstall PROVE WgInv'
  BY <1>6, StartJobStep DEF Uninstall
<1>7. ASSUME RunJob PROVE WgInv'
  BY <1>7, InstallExecStep, RecordClientStep, RecordStatusStep, UninstallExecStep, DropDeploymentStep
     DEF RunJob
<1>8. ASSUME Cancel \/ RunsOn \/ DeleteDeployment PROVE WgInv'
  BY <1>8, CancelStep, RunsOnStep, DeleteDeploymentStep
<1>9. ASSUME UNCHANGED vars PROVE WgInv'
  BY <1>9 DEF vars, WgInv, Typed, ServerOK, DepOK, RowsOK, NodesOK, RequestsOK, JobOK, HistoryOK,
              OneActor, AloneOK, NameOK, NodesMatch, Live, Serves, Mid, Match, Peer, Scope
<1> QED BY <1>1, <1>2, <1>3, <1>4, <1>5, <1>6, <1>7, <1>8, <1>9 DEF Next

LEMMA Invariance == Spec => []WgInv
BY InitInv, StepInv, PTL DEF Spec

(* Every variable of the deployed clients has its type; the rows have ids  *)
(* of their own and go with the deployment.                                *)
THEOREM WgTyped == Spec => []TypeOK
<1>1. WgInv => TypeOK
  BY TypedOK DEF WgInv
<1> QED BY <1>1, Invariance, PTL

(* Once nobody is at work, a name that one activity at a time has touched, *)
(* its answers received, has a row exactly when the server has its peer,   *)
(* and the row has the peer's key (server_clients and servers, in any      *)
(* order, for any number of names and requests).                           *)
THEOREM RowsAreThePeers == Spec => []RowsMatchPeers
<1>1. ASSUME WgInv PROVE RowsMatchPeers
  <2>1. ASSUME Quiet, NEW n \in Names \ drift
        PROVE  IF dc[n] # None /\ dc[n].status # "orphan" THEN Peer(n) = dc[n].key ELSE Peer(n) = 0
    <3>1. NameOK(n) /\ Typed
      BY <1>1 DEF WgInv
    <3>2. ~Mid(n)
      BY <2>1 DEF Mid, Quiet
    <3> QED BY <3>1, <3>2 DEF NameOK, Match
  <2> QED BY <2>1 DEF RowsMatchPeers
<1> QED BY <1>1, Invariance, PTL

(* A node that is not flagged has the key of a peer the server has:        *)
(* whatever removed the peer has flagged the nodes of its row.             *)
THEOREM UnflaggedLive == Spec => []UnflaggedNodesLive
<1>1. ASSUME WgInv PROVE UnflaggedNodesLive
  <2>1. ASSUME Quiet, NEW i \in Slots, node[i] # None, ~node[i].orphan, node[i].n \notin drift
        PROVE  Peer(node[i].n) = node[i].key
    <3>1. node[i].n \in Names
      BY <1>1, <2>1 DEF WgInv, Typed, NodesOK, Node
    <3>2. PICK n \in Names \ drift : n = node[i].n
      BY <2>1, <3>1
    <3>3. NameOK(n)
      BY <1>1 DEF WgInv
    <3>4. dc[n] # None /\ node[i].key = dc[n].key
      BY <2>1, <3>2, <3>3 DEF NameOK, NodesMatch, Live
    <3>5. Match(n)
      BY <2>1, <3>3 DEF NameOK, Mid, Quiet
    <3> QED BY <3>2, <3>4, <3>5 DEF Match
  <2> QED BY <2>1 DEF UnflaggedNodesLive
<1> QED BY <1>1, Invariance, PTL

(* A sync that meets no other activity leaves a row, not an orphan, for    *)
(* each peer of the server and for no other name, whatever had gone wrong  *)
(* before it.                                                              *)
THEOREM LoneSync == Spec => LoneSyncMirrors
<1> DEFINE Mirrors == \A r \in Requests : Reconcile(r) /\ alone[r] =>
             \A n \in Names : Peer(n) # 0 <=> dc'[n] # None /\ dc'[n].status # "orphan"
<1>1. ASSUME WgInv PROVE Mirrors
  <2>1. ASSUME NEW r \in Requests, Reconcile(r), alone[r]
        PROVE  \A n \in Names : Peer(n) # 0 <=> dc'[n] # None /\ dc'[n].status # "orphan"
    <3>1. RowsOK /\ RequestsOK /\ AloneOK
      BY <1>1 DEF WgInv, Typed
    <3>2. req[r].at = "reconcile" /\ dep' = dep
      BY <2>1, <3>1, ReconcileFacts
    <3>3. dep # None /\ vps = req[r].seen
      BY <2>1, <3>1, <3>2 DEF AloneOK
    <3>4. PICK seen \in [Names -> 0..MaxKeys] :
            /\ seen = req[r].seen
            /\ dc' = [n \in Names |->
                 CASE seen[n] # 0 /\ dc[n] # None -> Known(n)
                   [] seen[n] # 0 /\ dc[n] = None -> Imported(seen, n)
                   [] seen[n] = 0 /\ dc[n] # None -> [dc[n] EXCEPT !.status = "orphan"]
                   [] OTHER -> None]
      BY <2>1, <3>1, <3>3, ReconcileFacts
    <3>5. \A n \in Names : seen[n] # 0 <=> dc'[n] # None /\ dc'[n].status # "orphan"
      BY <3>1, <3>2, <3>3, <3>4, SyncFacts
    <3>6. \A n \in Names : Peer(n) = seen[n]
      BY <3>3, <3>4, NoneAssumption DEF Peer
    <3> QED BY <3>5, <3>6
  <2> QED BY <2>1
<1>2. [][Mirrors]_vars => LoneSyncMirrors
  BY DEF LoneSyncMirrors
<1> HIDE DEF Mirrors
<1>3. []WgInv => [][Mirrors]_vars
  BY <1>1, PTL
<1> QED BY <1>2, <1>3, Invariance, PTL
-----------------------------------------------------------------------------
\* One node of the name at most is not flagged, and none while an export is to make it.
Once(n) ==
  /\ \A i, j \in Slots : Live(i, n) /\ Live(j, n) => i = j
  /\ \A r \in Requests, i \in Slots : req[r].at = "export" /\ req[r].n = n => ~Live(i, n)

OnceInv == WgInv /\ \A n \in Names \ drift : Once(n)

LEMMA OnceFrame ==
  ASSUME NEW n \in Names, Once(n), Keeps(n),
         \A r \in Requests : req'[r] = req[r] \/ ~(req'[r].at = "export" /\ req'[r].n = n)
  PROVE  Once(n)'
BY DEF Once, Keeps

LEMMA DriftGrows == ASSUME [Next]_vars PROVE drift \subseteq drift'
<1>1. \A r, S : Begin(r, S) => drift \subseteq drift'
  BY DEF Begin
<1>2. \A S : Mishap(S) => drift \subseteq drift'
  BY DEF Mishap
<1>3. Calm => drift' = drift
  BY DEF Calm
<1>4. CASE \E r \in Requests : Serve(r)
  BY <1>2, <1>3, <1>4 DEF Serve, AddExec, AddInsert, RemoveExec, RemoveDelete, ListPeers, Reconcile,
                         ExportInsert
<1>5. CASE \E r \in Requests : SyncClients(r) \/ \E n \in Names : \/ AddClient(r, n) \/ RemoveClient(r, n)
                                                                  \/ ExportClient(r, n)
  BY <1>1, <1>5 DEF SyncClients, AddClient, RemoveClient, ExportClient
<1>6. CASE Uninstall \/ \E n \in Names : Deploy(n) \/ ByHand(n)
  BY <1>1, <1>2, <1>6 DEF Uninstall, Deploy, StartJob, ByHand
<1>7. CASE RunJob \/ Cancel \/ RunsOn \/ DeleteDeployment \/ \E i \in Slots : DeleteNode(i)
  BY <1>2, <1>7 DEF RunJob, InstallExec, RecordClient, RecordStatus, UninstallExec, DropDeployment,
                    Cancel, RunsOn, DeleteDeployment, DeleteNode
<1>8. CASE UNCHANGED vars
  BY <1>8 DEF vars
<1> QED BY <1>4, <1>5, <1>6, <1>7, <1>8 DEF Next

\* An export begins where no node names the row, and every live node of the name does.
LEMMA OnceExportBegins ==
  ASSUME WgInv, NEW r \in Requests, NEW m \in Names, ExportClient(r, m),
         NEW n \in Names \ drift, Once(n)
  PROVE  Once(n)'
<1> DEFINE x == [Idle EXCEPT !.at = "export", !.n = m, !.row = dc[m]]
<1>1. /\ NameOK(n) /\ req \in [Requests -> Request] /\ req' = [req EXCEPT ![r] = x]
      /\ node' = node /\ ~Exported(dc[m].id)
  BY DEF WgInv, Typed, RequestsOK, ExportClient, Go
<1>2. x.n = m
  BY DEF Idle
<1> HIDE DEF x
<1>3. (\A i \in Slots : Live(i, n)' <=> Live(i, n)) /\ Keeps(n)
  BY <1>1 DEF Live, Keeps
<1>4. CASE m # n
  BY <1>1, <1>2, <1>3, <1>4, OnceFrame
<1>5. CASE m = n
  <2>1. \A i \in Slots : ~Live(i, n)
    BY <1>1, <1>5 DEF NameOK, NodesMatch, Exported, Live
  <2> QED BY <2>1, <1>3 DEF Once
<1> QED BY <1>4, <1>5

\* The export that has the name to itself makes its one node.
LEMMA OnceExportInserts ==
  ASSUME WgInv, NEW r \in Requests, ExportInsert(r), NEW n \in Names \ drift, Once(n)
  PROVE  Once(n)'
<1>1. /\ RequestsOK /\ NodesOK /\ OneActor /\ req[r].at = "export" /\ req[r].n \in Names
      /\ Done(r) /\ req \in [Requests -> Request] /\ node \in [Slots -> Node \cup {None}]
  BY DEF WgInv, Typed, RequestsOK, NodesOK, ExportInsert, Naming
<1>2. req'[r].at = "idle" /\ \A q \in Requests \ {r} : req'[q] = req[q]
  BY <1>1, IdleTypes DEF Done, Go
<1>3. CASE node' = node
  <2>1. Keeps(n)
    BY <1>3 DEF Keeps, Live
  <2> QED BY <2>1, <1>2, OnceFrame
<1>4. CASE node' # node
  <2>1. PICK k \in Slots : node' = [node EXCEPT ![k] = [n |-> req[r].n, key |-> req[r].row.key,
                                                        from |-> req[r].row.id, orphan |-> FALSE]]
    BY <1>4 DEF ExportInsert
  <2>2. node'[k].n = req[r].n /\ \A i \in Slots : i # k => node'[i] = node[i]
    BY <2>1, <1>1
  <2>3. \A i \in Slots : i # k => (Live(i, n)' <=> Live(i, n))
    BY <2>2 DEF Live
  <2>4. CASE req[r].n # n
    <3>1. ~Live(k, n)'
      BY <2>2, <2>4 DEF Live
    <3>2. Keeps(n)
      BY <2>2, <2>3, <3>1 DEF Keeps
    <3> QED BY <3>2, <1>2, OnceFrame
  <2>5. CASE req[r].n = n
    <3>1. \A i \in Slots : ~Live(i, n)
      BY <1>1, <2>5 DEF Once
    <3>2. n \in Scope(r) /\ \A q \in Requests : req[q].at = "export" /\ req[q].n = n => n \in Scope(q)
      BY <1>1, <2>5, ScopeFacts DEF Naming
    <3>3. \A q \in Requests \ {r} : ~(req[q].at = "export" /\ req[q].n = n)
      BY <1>1, <3>2 DEF OneActor
    <3> QED BY <1>2, <2>3, <3>1, <3>3 DEF Once
  <2> QED BY <2>4, <2>5
<1> QED BY <1>3, <1>4

\* Every other step makes no export and no live node.
LEMMA OnceElse ==
  ASSUME WgInv, [Next]_vars, NEW n \in Names, Once(n),
         \A r \in Requests : ~ExportInsert(r) /\ \A m \in Names : ~ExportClient(r, m)
  PROVE  Once(n)'
<1>1. NodesOK /\ RequestsOK /\ req \in [Requests -> Request] /\ node \in [Slots -> Node \cup {None}]
  BY DEF WgInv, Typed, RequestsOK, NodesOK
<1>2. Keeps(n)
  <2>1. ASSUME UNCHANGED node PROVE Keeps(n)
    BY <2>1 DEF Keeps, Live
  <2>2. ASSUME NEW ids, node' = Flagged(ids) PROVE Keeps(n)
    BY <2>2, <1>1, FlagFacts
  <2>3. ASSUME NEW r \in Requests, Serve(r) PROVE Keeps(n)
    <3>1. CASE Reconcile(r)
      BY <3>1, <2>1, <2>2, <1>1, ReconcileFacts
    <3>2. CASE RemoveDelete(r)
      BY <3>2, <2>1, <2>2 DEF RemoveDelete
    <3>3. CASE AddExec(r) \/ AddInsert(r) \/ RemoveExec(r) \/ ListPeers(r)
      BY <3>3, <2>1 DEF AddExec, AddInsert, RemoveExec, ListPeers
    <3> QED BY <2>3, <3>1, <3>2, <3>3 DEF Serve
  <2>4. ASSUME NEW i \in Slots, DeleteNode(i) PROVE Keeps(n)
    <3>1. \A j \in Slots : node'[j] # None => node'[j] = node[j]
      BY <2>4, <1>1 DEF DeleteNode
    <3> QED BY <3>1 DEF Keeps, Live
  <2>5. CASE DropDeployment
    BY <2>5, <2>2 DEF DropDeployment
  <2>6. CASE \/ \E r \in Requests : SyncClients(r) \/ \E m \in Names : AddClient(r, m) \/ RemoveClient(r, m)
             \/ \E m \in Names : Deploy(m) \/ ByHand(m)
             \/ Uninstall \/ InstallExec \/ RecordClient \/ RecordStatus \/ UninstallExec
             \/ Cancel \/ RunsOn \/ DeleteDeployment \/ UNCHANGED vars
    BY <2>6, <2>1 DEF SyncClients, AddClient, RemoveClient, Deploy, Uninstall, StartJob, ByHand, InstallExec,
       RecordClient, RecordStatus, UninstallExec, Cancel, RunsOn, DeleteDeployment, vars
  <2> QED BY <2>3, <2>4, <2>5, <2>6 DEF Next, RunJob
<1>3. \A r \in Requests : req'[r] = req[r] \/ req'[r].at # "export"
  <2>1. ASSUME NEW r \in Requests, NEW x, Go(r, x), x.at # "export"
        PROVE  \A q \in Requests : req'[q] = req[q] \/ req'[q].at # "export"
    BY <2>1, <1>1 DEF Go
  <2>2. ASSUME NEW r \in Requests, Done(r)
        PROVE  \A q \in Requests : req'[q] = req[q] \/ req'[q].at # "export"
    BY <2>2, <2>1, IdleTypes DEF Done
  <2>3. ASSUME NEW r \in Requests, Serve(r)
        PROVE  \A q \in Requests : req'[q] = req[q] \/ req'[q].at # "export"
    <3>1. CASE AddInsert(r) \/ RemoveDelete(r) \/ Reconcile(r)
      BY <3>1, <2>2 DEF AddInsert, RemoveDelete, Reconcile
    <3>2. CASE AddExec(r)
      <4>1. Done(r) \/ \E y : Go(r, [req[r] EXCEPT !.at = "insert", !.seen[req[r].n] = y])
        BY <3>2 DEF AddExec
      <4>2. \A y : [req[r] EXCEPT !.at = "insert", !.seen[req[r].n] = y].at = "insert"
        BY <1>1 DEF Request
      <4> QED BY <4>1, <4>2, <2>1, <2>2
    <3>3. CASE RemoveExec(r)
      <4>1. Done(r) \/ Go(r, [req[r] EXCEPT !.at = "delete"])
        BY <3>3 DEF RemoveExec
      <4>2. [req[r] EXCEPT !.at = "delete"].at = "delete"
        BY <1>1 DEF Request
      <4> QED BY <4>1, <4>2, <2>1, <2>2
    <3>4. CASE ListPeers(r)
      <4>1. Done(r) \/ Go(r, [req[r] EXCEPT !.at = "reconcile", !.seen = vps])
        BY <3>4 DEF ListPeers
      <4>2. [req[r] EXCEPT !.at = "reconcile", !.seen = vps].at = "reconcile"
        BY <1>1 DEF Request
      <4> QED BY <4>1, <4>2, <2>1, <2>2
    <3> QED BY <2>3, <3>1, <3>2, <3>3, <3>4 DEF Serve
  <2>4. ASSUME NEW r \in Requests, NEW m \in Names, SyncClients(r) \/ AddClient(r, m) \/ RemoveClient(r, m)
        PROVE  \A q \in Requests : req'[q] = req[q] \/ req'[q].at # "export"
    BY <2>4, <2>1 DEF SyncClients, AddClient, RemoveClient, Idle
  <2>5. CASE \/ \E i \in Slots : DeleteNode(i)
             \/ \E m \in Names : Deploy(m) \/ ByHand(m)
             \/ Uninstall \/ RunJob \/ Cancel \/ RunsOn \/ DeleteDeployment \/ UNCHANGED vars
    BY <2>5 DEF DeleteNode, Deploy, Uninstall, StartJob, ByHand, RunJob, InstallExec, RecordClient,
       RecordStatus, UninstallExec, DropDeployment, Cancel, RunsOn, DeleteDeployment, vars
  <2>6. PICK m \in Names : TRUE
    BY WgAssumption
  <2> QED BY <2>3, <2>4, <2>5, <2>6 DEF Next
<1> QED BY <1>2, <1>3, OnceFrame

(* Exports of a client, however many are asked one after the other, leave  *)
(* one node that is not flagged, and no two clients share one: two such    *)
(* nodes that one activity at a time has touched name different rows.      *)
THEOREM OneNodePerClient == Spec => []ExportedOnce
<1>1. Init => OnceInv
  <2>1. ASSUME Init, NEW n \in Names PROVE Once(n)
    BY <2>1 DEF Init, Once, Live
  <2> QED BY <2>1, InitInv DEF OnceInv
<1>2. OnceInv /\ [Next]_vars => OnceInv'
  <2> SUFFICES ASSUME OnceInv, [Next]_vars PROVE OnceInv'
    OBVIOUS
  <2>1. WgInv /\ WgInv' /\ drift \subseteq drift'
    BY StepInv, DriftGrows DEF OnceInv
  <2>2. ASSUME NEW n \in Names \ drift' PROVE Once(n)'
    <3>1. n \in Names \ drift /\ Once(n)
      BY <2>1 DEF OnceInv
    <3> QED BY <2>1, <3>1, OnceExportBegins, OnceExportInserts, OnceElse
  <2> QED BY <2>1, <2>2 DEF OnceInv
<1>3. OnceInv => ExportedOnce
  <2> SUFFICES ASSUME OnceInv, NEW i \in Slots, NEW j \in Slots, i # j,
                      node[i] # None, ~node[i].orphan, node[i].n \notin drift,
                      node[j] # None, ~node[j].orphan, node[j].n \notin drift
               PROVE  node[i].from # node[j].from
    BY DEF ExportedOnce
  <2>1. node[i].n \in Names /\ node[j].n \in Names /\ RowsOK
    BY DEF OnceInv, WgInv, Typed, NodesOK, Node
  <2>2. Live(i, node[i].n) /\ Live(j, node[j].n)
    BY DEF Live
  <2>3. node[i].n # node[j].n
    BY <2>1, <2>2 DEF OnceInv, Once
  <2>4. /\ dc[node[i].n] # None /\ node[i].from = dc[node[i].n].id
        /\ dc[node[j].n] # None /\ node[j].from = dc[node[j].n].id
    BY <2>1, <2>2 DEF OnceInv, WgInv, NameOK, NodesMatch
  <2> QED BY <2>1, <2>3, <2>4 DEF RowsOK
<1> QED BY <1>1, <1>2, <1>3, PTL DEF Spec
===============================================================================
