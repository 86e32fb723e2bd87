------------------------- MODULE NetworkApplyProofs -------------------------
(***************************************************************************)
(* Proofs about NetworkApply, for any kind of host, addresses, requests    *)
(* and bounds: what an apply reported as done stands, the newest backup is *)
(* the last apply's, no more backups are kept than the limit says, and a   *)
(* rollback puts back what its backup holds.                               *)
(***************************************************************************)
EXTENDS NetworkApply, FiniteSetTheorems, WellFoundedInduction, TLAPS

\* A static configuration names a gateway, and not the box itself.
Sound(c) == c \in Conf /\ (c.mode = "static" => c.gw \in Gateways \ {Self})

Managed(p) == IF IsNM THEN Sound(p) ELSE p = None

HostOK ==
  /\ host \in Hosts /\ Sound(conf) /\ Managed(profile)
  /\ route \in Gateways \ {Self} /\ resolv \in Resolv /\ head \in (SUBSET NameServers) \cup {None}
  /\ leased \in BOOLEAN /\ fallback \in Fallbacks /\ mode \in {"gateway", "router"}

Busy == {"file", "route", "resolv", "up"}
OpType == [kind : {"none", "apply", "rollback"}, at : {"idle", "asked"} \cup Busy,
           gw : (Gateways \ {Self}) \cup {None}, dns : (SUBSET NameServers) \cup {None},
           id : Seconds \cup {None}, files : Backup \cup {None}]

\* A request between two of its commands: nothing settled stands, and what it has
\* written so far is what it carries.  A rollback carries its backup as it was read.
OpOK ==
  /\ op \in OpType
  /\ op.at = "idle" => op = Idle
  /\ op.at \in Busy => settled = None /\ op.gw # None /\ op.dns # None /\ op.kind # "none"
  /\ op.at = "up" => op.kind = "apply"

ApplyOK ==
  op.kind = "apply" /\ op.at \in {"route", "resolv", "up"} =>
    /\ conf = [mode |-> "static", gw |-> op.gw, dns |-> op.dns]
    /\ IsNM => profile = conf
    /\ op.at = "up" <=> IsNM
    /\ op.at = "resolv" => route = op.gw

RollbackOK ==
  op.kind = "rollback" /\ op.at \in Busy =>
    /\ op.files \in Backup /\ Sound(op.files.conf)
    /\ op.gw = op.files.gw /\ op.dns = op.files.dns
    /\ op.id \in DOMAIN backups => op.files = backups[op.id]
    /\ op.at \in {"resolv", "route"} => conf = op.files.conf
    /\ op.at = "route" => resolv = op.files.resolv

TakenType == [conf : Conf, route : Gateways, servers : SUBSET NameServers,
              head : (SUBSET NameServers) \cup {None}]

\* A backup holds the host as it was when it was made, and no more are kept than the
\* limit.
StoreOK ==
  /\ backups \in [DOMAIN backups -> Backup] /\ DOMAIN backups \subseteq Seconds
  /\ taken \in [DOMAIN backups -> TakenType]
  /\ Cardinality(DOMAIN backups) <= MaxBackups
  /\ \A id \in DOMAIN backups :
       /\ Sound(backups[id].conf) /\ backups[id].gw # Self
       /\ Listed(backups[id].resolv) = backups[id].dns
       /\ taken[id].conf = backups[id].conf /\ taken[id].route = backups[id].gw
       /\ taken[id].servers = backups[id].dns

ClockOK ==
  /\ clock \in Seconds /\ left \in 0..MaxMishaps
  /\ last \in Seconds \cup {None} /\ skewed \in BOOLEAN

\* As long as the clock only went forward no backup is of the future, and none is newer
\* than the last apply's.
LastInv ==
  ~skewed => /\ \A id \in DOMAIN backups : id <= clock
             /\ last # None => last \in DOMAIN backups /\ \A id \in DOMAIN backups : id <= last

SettledType == [by : {"apply", "rollback", "lease"}, now : Gateways, next : Gateways,
                dns : SUBSET NameServers]

\* What an apply left stands in the file, in the profile, in the running state, among the
\* lines of resolv.conf that no fallback replaces, and in the head file that dhcpcd reads.
StandsInv ==
  settled # None =>
    /\ settled \in SettledType
    /\ settled.by = "apply" =>
         /\ conf.mode = "static" /\ conf.gw = settled.next /\ settled.now = settled.next
         /\ route = settled.now /\ settled.dns \subseteq resolv.own
         /\ IsNM => profile = conf /\ settled.dns \subseteq conf.dns
         /\ ~IsNM /\ host.dhcpcd /\ settled.dns # {} => head # None /\ settled.dns \subseteq head

NetInv == HostOK /\ OpOK /\ ApplyOK /\ RollbackOK /\ StoreOK /\ ClockOK /\ LastInv /\ StandsInv

-----------------------------------------------------------------------------
(* The operators of the model. *)

LEMMA ViaSound == ASSUME NEW c, Sound(c) PROVE Via(c) \in Gateways \ {Self}
BY ConstantsAssumption DEF Via, Sound

LEMMA LeasedType == ASSUME NEW c PROVE Leased(c) \in SUBSET NameServers
BY ConstantsAssumption DEF Leased

LEMMA FreshType ==
  ASSUME NEW s \in SUBSET NameServers
  PROVE  Fresh(s) \in Resolv /\ Listed(Fresh(s)) = s /\ Fresh(s).own = s
BY DEF Fresh, Resolv, Listed

LEMMA ListedType == ASSUME NEW r \in Resolv PROVE Listed(r) \in SUBSET NameServers
BY DEF Resolv, Listed

LEMMA AppendedType ==
  ASSUME NEW r \in Resolv, NEW s \in SUBSET NameServers
  PROVE  Appended(r, s) \in Resolv /\ Appended(r, s).own = r.own
BY DEF Appended, Resolv, Listed

LEMMA ExtendedType ==
  ASSUME NEW c, Sound(c), NEW s \in SUBSET NameServers
  PROVE  /\ Sound(Extended(c, s)) /\ Extended(c, s).mode = c.mode /\ Extended(c, s).gw = c.gw
         /\ Extended(c, s).dns = c.dns \cup s
BY DEF Extended, Sound, Conf

LEMMA ResolvedType ==
  ASSUME HostOK, NEW c \in Conf, NEW r \in Resolv, NEW h \in (SUBSET NameServers) \cup {None}
  PROVE  Resolved(c, r, h) \in Resolv
<1>1. c.dns \in SUBSET NameServers /\ Leased(c) \in SUBSET NameServers
  BY LeasedType DEF Conf
<1>2. Lease.dns \in SUBSET NameServers
  BY ConstantsAssumption
<1>3. (IF h = None THEN {} ELSE h) \cup Leased(c) \in SUBSET NameServers
  BY <1>1
<1>4. host.dhcpcd \in BOOLEAN
  BY ConstantsAssumption DEF HostOK
<1> QED BY <1>1, <1>2, <1>3, <1>4, FreshType DEF Resolved

\* Asking for the fallback servers keeps the file and the profile sound, and alters
\* nothing but the servers.
LEMMA EnsureFacts ==
  ASSUME HostOK, NEW s \in Fallbacks, NEW c, Sound(c), NEW p, Managed(p),
         NEW r \in Resolv, Ensure(s, c, p, r)
  PROVE  /\ Sound(conf') /\ IF IsNM THEN Sound(profile') ELSE profile' = None
         /\ resolv' \in Resolv
         /\ ~IsNM => conf' = c /\ profile' = p /\ resolv'.own = r.own
         /\ IsNM /\ s = {} => conf' = c /\ profile' = p /\ resolv' = r
         /\ IsNM /\ s # {} => /\ conf' = Extended(p, s) /\ profile' = Extended(p, s)
                              /\ p.dns \subseteq resolv'.own
<1>1. s \in SUBSET NameServers
  BY ConstantsAssumption
<1>2. CASE s = {}
  BY <1>2 DEF Ensure, Managed
<1>3. CASE s # {} /\ IsNM
  <2>1. conf' = Extended(p, s) /\ profile' = Extended(p, s)
        /\ resolv' = Fresh(Extended(p, s).dns \cup Leased(Extended(p, s)))
    BY <1>3 DEF Ensure
  <2>2. Sound(p)
    BY <1>3 DEF Managed
  <2>3. Sound(Extended(p, s)) /\ Extended(p, s).dns = p.dns \cup s
    BY <1>1, <2>2, ExtendedType
  <2>4. Extended(p, s).dns \cup Leased(Extended(p, s)) \in SUBSET NameServers
    BY <2>3, LeasedType DEF Sound, Conf
  <2>5. /\ resolv' \in Resolv
        /\ resolv'.own = Extended(p, s).dns \cup Leased(Extended(p, s))
    BY <2>1, <2>4, FreshType
  <2> QED BY <1>3, <2>1, <2>3, <2>5
<1>4. CASE s # {} /\ ~IsNM
  BY <1>1, <1>4, AppendedType DEF Ensure, Managed
<1> QED BY <1>2, <1>3, <1>4

\* Every non-empty set of natural numbers has a least element.
LEMMA LeastNat ==
  ASSUME NEW T \in SUBSET Nat, T # {}
  PROVE  \E m \in T : \A k \in T : m <= k
<1> DEFINE B == {0..n : n \in T}
<1>1. B \subseteq FiniteSubsetsOf(Nat) /\ B # {}
  <2>1. \A n \in T : IsFiniteSet(0..n) /\ 0..n \subseteq Nat
    BY FS_Interval
  <2> QED BY <2>1 DEF FiniteSubsetsOf
<1>2. IsWellFoundedOn(StrictSubsetOrdering(Nat), FiniteSubsetsOf(Nat))
  BY FS_StrictSubsetOrderingWellFounded
<1> HIDE DEF B
<1>3. PICK x \in B : \A y \in B : ~(<<y, x>> \in StrictSubsetOrdering(Nat))
  BY <1>1, <1>2, WFMin
<1>4. PICK m \in T : x = 0..m
  BY DEF B
<1>5. ASSUME NEW k \in T PROVE m <= k
  <2> SUFFICES ASSUME k < m PROVE FALSE
    OBVIOUS
  <2>1. ~(<<0..k, 0..m>> \in StrictSubsetOrdering(Nat))
    BY <1>3, <1>4 DEF B
  <2>2. 0..k \subseteq 0..m /\ 0..k # 0..m /\ 0..k \in SUBSET Nat /\ 0..m \in SUBSET Nat
    OBVIOUS
  <2> QED BY <2>1, <2>2 DEF StrictSubsetOrdering
<1> QED BY <1>5

\* Pruning keeps at most n ids, and the newest of all when n is not zero.
LEMMA NewestBound ==
  ASSUME NEW ids \in SUBSET Nat, IsFiniteSet(ids), NEW n \in Nat
  PROVE  /\ IsFiniteSet(Newest(ids, n)) /\ Newest(ids, n) \subseteq ids
         /\ Cardinality(Newest(ids, n)) <= n
         /\ \A c \in ids : n > 0 /\ (\A j \in ids : j <= c) => c \in Newest(ids, n)
<1>1. Newest(ids, n) \subseteq ids
  BY DEF Newest
<1>2. IsFiniteSet(Newest(ids, n)) /\ Cardinality(Newest(ids, n)) \in Nat
  BY <1>1, FS_Subset, FS_CardinalityType
<1>3. Cardinality(Newest(ids, n)) <= n
  <2>1. CASE Newest(ids, n) = {}
    BY <2>1, FS_EmptySet
  <2>2. CASE Newest(ids, n) # {}
    <3>1. PICK m \in Newest(ids, n) : \A k \in Newest(ids, n) : m <= k
      BY <1>1, <2>2, LeastNat
    <3>2. Newest(ids, n) \ {m} \subseteq {j \in ids : j > m}
      <4>1. ASSUME NEW j \in Newest(ids, n), j # m PROVE j > m
        <5>1. j \in Nat /\ m \in Nat /\ m <= j
          BY <1>1, <3>1
        <5> QED BY <4>1, <5>1
      <4> QED BY <1>1, <4>1
    <3>3. IsFiniteSet({j \in ids : j > m}) /\ Cardinality({j \in ids : j > m}) \in Nat
      BY FS_Subset, FS_CardinalityType
    <3>4. Cardinality(Newest(ids, n) \ {m}) <= Cardinality({j \in ids : j > m})
      BY <3>2, <3>3, FS_Subset
    <3>5. Cardinality(Newest(ids, n) \ {m}) = Cardinality(Newest(ids, n)) - 1
      BY <1>2, <3>1, FS_RemoveElement
    <3>6. Cardinality({j \in ids : j > m}) < n
      BY <3>1 DEF Newest
    <3> QED BY <1>2, <3>3, <3>4, <3>5, <3>6
  <2> QED BY <2>1, <2>2
<1>4. ASSUME NEW c \in ids, n > 0, \A j \in ids : j <= c PROVE c \in Newest(ids, n)
  <2>1. {j \in ids : j > c} = {}
    <3>1. ASSUME NEW j \in ids PROVE ~(j > c)
      <4>1. j \in Nat /\ c \in Nat /\ j <= c
        BY <1>4
      <4> QED BY <4>1
    <3> QED BY <3>1
  <2>2. Cardinality({j \in ids : j > c}) = 0
    BY <2>1, FS_EmptySet
  <2> QED BY <1>4, <2>2 DEF Newest
<1> QED BY <1>1, <1>2, <1>3, <1>4

LEMMA SecondsFinite == ASSUME NEW T \in SUBSET Seconds PROVE IsFiniteSet(T) /\ T \in SUBSET Nat
<1>1. IsFiniteSet(Seconds) /\ Seconds \subseteq Nat
  BY ConstantsAssumption, FS_Interval DEF Seconds
<1> QED BY <1>1, FS_Subset

LEMMA CapturedOK ==
  ASSUME HostOK
  PROVE  /\ Captured \in Backup /\ Now \in TakenType
         /\ Captured.conf = conf /\ Captured.gw = route /\ Captured.dns = Servers
         /\ Captured.resolv = resolv /\ Listed(Captured.resolv) = Captured.dns
         /\ Now.conf = conf /\ Now.route = route /\ Now.servers = Servers
BY ListedType DEF HostOK, Captured, Now, Backup, TakenType, Servers, Sound

\* The store after a backup.
LEMMA BeginStore ==
  ASSUME HostOK, StoreOK, clock \in Seconds,
         backups' = Prune(Stored(backups, clock, Captured)),
         taken' = [id \in DOMAIN backups' |-> IF id = clock THEN Now ELSE taken[id]]
  PROVE  /\ StoreOK' /\ DOMAIN backups' \subseteq DOMAIN backups \cup {clock}
         /\ (\A j \in DOMAIN backups : j <= clock) => clock \in DOMAIN backups'
<1> DEFINE ids == DOMAIN backups \cup {clock}
           new == Newest(ids, MaxBackups)
<1>1. DOMAIN Stored(backups, clock, Captured) = ids
  BY DEF Stored
<1>2. backups' = [id \in new |-> IF id = clock THEN Captured ELSE backups[id]]
  <2>1. new \subseteq ids
    BY DEF Newest
  <2>2. backups' = [id \in new |-> Stored(backups, clock, Captured)[id]]
    BY <1>1 DEF Prune
  <2> QED BY <2>1, <2>2 DEF Stored
<1>3. ids \in SUBSET Seconds /\ ids \in SUBSET Nat /\ IsFiniteSet(ids)
  BY SecondsFinite DEF StoreOK
<1>4. MaxBackups \in Nat /\ MaxBackups > 0
  BY ConstantsAssumption
<1>5. /\ new \subseteq ids /\ Cardinality(new) <= MaxBackups
      /\ \A c \in ids : (\A j \in ids : j <= c) => c \in new
  BY <1>3, <1>4, NewestBound
<1>6. clock <= clock
  BY ConstantsAssumption DEF Seconds
<1> HIDE DEF new
<1>7. DOMAIN backups' = new /\ DOMAIN taken' = new
  BY <1>2
<1>8. ASSUME NEW id \in new
      PROVE  /\ backups'[id] \in Backup /\ taken'[id] \in TakenType
             /\ Sound(backups'[id].conf) /\ backups'[id].gw # Self
             /\ Listed(backups'[id].resolv) = backups'[id].dns
             /\ taken'[id].conf = backups'[id].conf /\ taken'[id].route = backups'[id].gw
             /\ taken'[id].servers = backups'[id].dns
  <2>1. CASE id = clock
    <3>1. backups'[id] = Captured /\ taken'[id] = Now
      BY <1>2, <1>7, <2>1
    <3> QED BY <3>1, CapturedOK DEF HostOK
  <2>2. CASE id # clock
    <3>1. backups'[id] = backups[id] /\ taken'[id] = taken[id] /\ id \in DOMAIN backups
      BY <1>2, <1>5, <1>7, <2>2
    <3> QED BY <3>1 DEF StoreOK
  <2> QED BY <2>1, <2>2
<1>9. StoreOK'
  <2>1. backups' \in [new -> Backup] /\ taken' \in [new -> TakenType]
    BY <1>2, <1>7, <1>8
  <2> QED BY <1>3, <1>5, <1>7, <1>8, <2>1 DEF StoreOK, Sound
<1> QED BY <1>5, <1>6, <1>7, <1>9

LEMMA DeleteStore ==
  ASSUME StoreOK, NEW ids, DeleteBackups(ids)
  PROVE  StoreOK' /\ DOMAIN backups' \subseteq DOMAIN backups
<1> DEFINE new == DOMAIN backups \ ids
<1>1. backups' = [id \in new |-> backups[id]] /\ taken' = [id \in new |-> taken[id]]
  BY DEF DeleteBackups, StoreOK
<1>2. DOMAIN backups' = new /\ DOMAIN taken' = new
  BY <1>1
<1>3. Cardinality(new) <= Cardinality(DOMAIN backups)
  BY SecondsFinite, FS_Subset DEF StoreOK
<1>4. Cardinality(new) \in Nat /\ Cardinality(DOMAIN backups) \in Nat
  BY SecondsFinite, FS_CardinalityType DEF StoreOK
<1>5. Cardinality(new) <= MaxBackups
  BY <1>3, <1>4, ConstantsAssumption DEF StoreOK
<1>6. backups' \in [new -> Backup] /\ taken' \in [new -> TakenType]
  BY <1>1 DEF StoreOK
<1>7. \A id \in new : backups'[id] = backups[id] /\ taken'[id] = taken[id]
  BY <1>1
<1> QED BY <1>2, <1>5, <1>6, <1>7 DEF StoreOK, Sound

-----------------------------------------------------------------------------
(* The steps.                                                              *)

Steps ==
  \/ \E q \in Requests : AskApply(q)
  \/ \E id \in Seconds \cup {None} : AskRollback(id)
  \/ Begin \/ WriteFile \/ ReplaceRoute \/ WriteResolv \/ ConnectionUp \/ Refused
  \/ Load \/ RestoreFile \/ RestoreResolv \/ RestoreRunning
  \/ \E ids \in SUBSET DOMAIN backups : DeleteBackups(ids)
  \/ \E servers \in Fallbacks : SetFallback(servers)
  \/ SwitchMode \/ Tick \/ SetBack \/ Renew \/ Restart \/ Reboot

LEMMA NextSteps == Next => Steps
BY DEF Next, Steps

LEMMA IdleOK == ASSUME op' = Idle PROVE OpOK' /\ ApplyOK' /\ RollbackOK'
BY DEF Idle, OpOK, OpType, ApplyOK, RollbackOK, Busy

\* What the request carries while a reader of its fields is at work.
LEMMA InHand ==
  ASSUME OpOK
  PROVE  /\ op \in OpType
         /\ op.at \in Busy => op.gw \in Gateways \ {Self} /\ op.dns \in SUBSET NameServers
BY DEF OpOK, OpType

LEMMA FinalSound ==
  ASSUME HostOK, OpOK, op.at # "idle"
  PROVE  /\ Final.mode = "static" /\ Final.gw \in Gateways \ {Self} /\ Final.dns \in SUBSET NameServers
         /\ Sound(Final)
<1>1. Servers \in SUBSET NameServers
  BY ListedType DEF HostOK, Servers
<1>2. op.gw \in (Gateways \ {Self}) \cup {None} /\ op.dns \in (SUBSET NameServers) \cup {None}
  BY DEF OpOK, OpType
<1> QED BY <1>1, <1>2 DEF Final, HostOK, Sound, Conf

LEMMA HostStep == ASSUME NetInv, Steps PROVE HostOK'
<1> USE DEF HostOK
<1>1. HostOK /\ OpOK /\ RollbackOK
  BY DEF NetInv
<1>2. ASSUME UNCHANGED <<host, hostVars, fallback>>, mode' \in {"gateway", "router"} PROVE HostOK'
  BY <1>1, <1>2 DEF hostVars, Managed, IsNM, Sound
<1>3. ASSUME \/ \E q \in Requests : AskApply(q)
             \/ \E id \in Seconds \cup {None} : AskRollback(id)
             \/ Begin \/ Refused \/ Load \/ Tick \/ SetBack
             \/ \E ids \in SUBSET DOMAIN backups : DeleteBackups(ids)
      PROVE HostOK'
  BY <1>1, <1>2, <1>3 DEF AskApply, AskRollback, Ask, Begin, Refused, Load, Tick, SetBack, DeleteBackups
<1>4. CASE SwitchMode
  BY <1>1, <1>2, <1>4 DEF SwitchMode
<1>5. CASE WriteFile
  <2>1. /\ Sound(Final) /\ conf' = Final /\ profile' = IF IsNM THEN Final ELSE None
        /\ UNCHANGED <<host, route, resolv, head, leased, mode, fallback>>
    BY <1>1, <1>5, FinalSound DEF WriteFile
  <2> QED BY <1>1, <2>1 DEF Managed, IsNM, Sound
<1>6. CASE ReplaceRoute
  <2>1. route' \in Gateways \ {Self}
    BY <1>1, <1>6, InHand DEF ReplaceRoute, Busy
  <2> QED BY <1>1, <1>6, <2>1 DEF ReplaceRoute, Managed, IsNM, Sound
<1>7. CASE WriteResolv
  <2>1. op.dns \in SUBSET NameServers
    BY <1>1, <1>7, InHand DEF WriteResolv, Busy
  <2>2. resolv' \in Resolv
    BY <1>7, <2>1, FreshType DEF WriteResolv
  <2>3. head' \in (SUBSET NameServers) \cup {None}
    BY <1>1, <1>7, <2>1 DEF WriteResolv
  <2> QED BY <1>1, <1>7, <2>2, <2>3 DEF WriteResolv, Managed, IsNM, Sound
<1>8. CASE ConnectionUp
  <2>1. op.kind = "apply" /\ op.at = "up"
    BY <1>8 DEF ConnectionUp
  <2>2. op.gw \in Gateways \ {Self} /\ op.dns \in SUBSET NameServers
    BY <1>1, <2>1, InHand DEF Busy
  <2>3. profile = [mode |-> "static", gw |-> op.gw, dns |-> op.dns]
    BY <1>1, <2>1 DEF NetInv, ApplyOK
  <2>4. route' \in Gateways \ {Self}
    BY <1>8, <2>2, <2>3 DEF ConnectionUp
  <2>5. resolv' = Fresh(op.dns)
    BY <1>8, <2>3 DEF ConnectionUp
  <2>6. resolv' \in Resolv
    BY <2>2, <2>5, FreshType
  <2> QED BY <1>1, <1>8, <2>4, <2>6 DEF ConnectionUp, Managed, IsNM, Sound
<1>9. CASE RestoreFile
  <2>1. Sound(conf')
    BY <1>1, <1>9 DEF RestoreFile, RollbackOK, Busy, Sound
  <2> QED BY <1>1, <1>9, <2>1 DEF RestoreFile, Managed, IsNM, Sound
<1>10. CASE RestoreResolv
  <2>1. resolv' \in Resolv
    BY <1>1, <1>10 DEF RestoreResolv, RollbackOK, Busy, Backup
  <2> QED BY <1>1, <1>10, <2>1 DEF RestoreResolv, Managed, IsNM, Sound
<1>11. CASE RestoreRunning
  <2>1. op.gw \in Gateways \ {Self} /\ op.dns \in SUBSET NameServers
    BY <1>1, <1>11, InHand DEF RestoreRunning, Busy
  <2>2. resolv' \in Resolv /\ head' \in (SUBSET NameServers) \cup {None}
    BY <1>1, <1>11, <2>1, FreshType DEF RestoreRunning
  <2>3. route' \in Gateways \ {Self}
    BY <1>1, <1>11, <2>1 DEF RestoreRunning
  <2> QED BY <1>1, <1>11, <2>2, <2>3 DEF RestoreRunning, Managed, IsNM, Sound
<1>12. ASSUME NEW servers \in Fallbacks, SetFallback(servers) PROVE HostOK'
  <2>1. CASE UNCHANGED <<conf, profile, resolv, route>>
    BY <1>1, <1>12, <2>1 DEF SetFallback, Managed, IsNM, Sound
  <2>2. CASE Ensure(servers, conf, profile, resolv)
             /\ route' = IF servers # {} /\ IsNM THEN Via(profile) ELSE route
    <3>1. Sound(conf') /\ resolv' \in Resolv /\ IF IsNM THEN Sound(profile') ELSE profile' = None
      BY <1>1, <2>2, EnsureFacts
    <3>2. route' \in Gateways \ {Self}
      BY <1>1, <2>2, ViaSound DEF Managed
    <3> QED BY <1>1, <1>12, <3>1, <3>2 DEF SetFallback, Managed, IsNM, Sound
  <2> QED BY <1>12, <2>1, <2>2 DEF SetFallback
<1>13. CASE Renew
  <2>1. resolv' \in Resolv /\ route' \in Gateways \ {Self}
    BY <1>13, FreshType, ConstantsAssumption DEF Renew
  <2> QED BY <1>1, <1>13, <2>1 DEF Renew, Managed, IsNM, Sound
<1>14. CASE Restart
  <2>1. Sound(conf') /\ resolv' \in Resolv /\ IF IsNM THEN Sound(profile') ELSE profile' = None
    BY <1>1, <1>14, EnsureFacts DEF Restart
  <2>2. route' \in Gateways \ {Self}
    BY <1>1, <1>14, ViaSound DEF Restart, Managed
  <2> QED BY <1>1, <1>14, <2>1, <2>2 DEF Restart, Managed, IsNM, Sound
<1>15. CASE Reboot
  <2> DEFINE p == IF IsNM THEN conf ELSE None
             r == Resolved(conf, resolv, head)
  <2>1. Managed(p) /\ r \in Resolv
    BY <1>1, ResolvedType DEF Managed, Sound
  <2>2. Ensure(fallback, conf, p, r)
    BY <1>15 DEF Reboot
  <2> HIDE DEF p, r
  <2>3. Sound(conf') /\ resolv' \in Resolv /\ IF IsNM THEN Sound(profile') ELSE profile' = None
    BY <1>1, <2>1, <2>2, EnsureFacts
  <2>4. route' \in Gateways \ {Self} /\ leased' \in BOOLEAN
    BY <1>1, <1>15, ViaSound DEF Reboot
  <2> QED BY <1>1, <1>15, <2>3, <2>4 DEF Reboot, Managed, IsNM, Sound
<1> QED BY <1>3, <1>4, <1>5, <1>6, <1>7, <1>8, <1>9, <1>10, <1>11, <1>12, <1>13, <1>14, <1>15 DEF Steps

\* Only a request in hand moves while it is between two commands.
LEMMA OpFrame ==
  ASSUME OpOK, ApplyOK, RollbackOK, UNCHANGED <<host, op>>,
         settled' = None \/ op.at \notin Busy, DOMAIN backups' \subseteq DOMAIN backups,
         \A id \in DOMAIN backups' : backups'[id] = backups[id],
         UNCHANGED hostVars \/ op.at \notin Busy
  PROVE  OpOK' /\ ApplyOK' /\ RollbackOK'
<1>1. OpOK'
  BY DEF OpOK, OpType
<1>2. ApplyOK'
  BY DEF ApplyOK, hostVars, Busy, IsNM
<1>3. RollbackOK'
  BY DEF RollbackOK, hostVars, Sound
<1> QED BY <1>1, <1>2, <1>3

LEMMA OpStep == ASSUME NetInv, Steps PROVE OpOK' /\ ApplyOK' /\ RollbackOK'
<1>1. HostOK /\ OpOK /\ ApplyOK /\ RollbackOK /\ StoreOK /\ op \in OpType
  BY DEF NetInv, OpOK
<1> DEFINE Good == OpOK' /\ ApplyOK' /\ RollbackOK'
<1>2. ASSUME NEW q \in Requests, AskApply(q) PROVE Good
  <2>1. op' = [Idle EXCEPT !.kind = "apply", !.at = "asked", !.gw = q.gw, !.dns = q.dns, !.id = None]
    BY <1>2 DEF AskApply, Ask
  <2>2. q.gw \in (Gateways \ {Self}) \cup {None} /\ q.dns \in (SUBSET NameServers) \cup {None}
    BY <1>2, ConstantsAssumption DEF AskApply, Accepted
  <2> QED BY <2>1, <2>2 DEF Idle, OpOK, ApplyOK, RollbackOK, OpType, Busy
<1>3. ASSUME NEW id \in Seconds \cup {None}, AskRollback(id) PROVE Good
  <2>1. op' = [Idle EXCEPT !.kind = "rollback", !.at = "asked", !.gw = None, !.dns = None, !.id = id]
    BY <1>3 DEF AskRollback, Ask
  <2> QED BY <2>1 DEF Idle, OpOK, ApplyOK, RollbackOK, OpType, Busy
<1>4. CASE Begin
  <2>1. CASE op' = Idle
    BY <2>1, IdleOK
  <2>2. CASE op' = [op EXCEPT !.at = "file", !.gw = Final.gw, !.dns = Final.dns] /\ settled' = None
    <3>1. Final.gw \in Gateways \ {Self} /\ Final.dns \in SUBSET NameServers
      BY <1>1, <1>4, FinalSound DEF Begin
    <3>2. Final.gw # None /\ Final.dns # None
      BY <3>1, ConstantsAssumption
    <3>3. op.kind = "apply"
      BY <1>4 DEF Begin
    <3> HIDE DEF Final
    <3>4. /\ op' \in OpType /\ op'.kind = "apply" /\ op'.at = "file"
          /\ op'.gw = Final.gw /\ op'.dns = Final.dns
      BY <1>1, <2>2, <3>1, <3>3 DEF OpType, Busy
    <3> QED BY <2>2, <3>2, <3>4 DEF OpOK, ApplyOK, RollbackOK, OpType, Busy
  <2> QED BY <1>4, <2>1, <2>2 DEF Begin
<1>5. CASE WriteFile
  <2>1. /\ op.kind = "apply" /\ op.at = "file" /\ op.gw # None /\ op.dns # None /\ settled = None
    BY <1>1, <1>5 DEF WriteFile, OpOK, Busy
  <2>2. Final = [mode |-> "static", gw |-> op.gw, dns |-> op.dns]
    BY <2>1 DEF Final
  <2>3. conf' = Final /\ profile' = (IF IsNM THEN Final ELSE None) /\ UNCHANGED <<host, settled>>
    BY <1>5 DEF WriteFile
  <2>4. /\ op' \in OpType /\ op'.kind = "apply" /\ op'.gw = op.gw /\ op'.dns = op.dns
        /\ op'.at = IF IsNM THEN "up" ELSE "route"
    BY <1>1, <1>5, <2>1 DEF WriteFile, Goto, OpType, Busy
  <2>5. OpOK'
    BY <2>1, <2>3, <2>4 DEF OpOK, OpType, Busy
  <2>6. ApplyOK'
    BY <2>2, <2>3, <2>4 DEF ApplyOK, IsNM
  <2> QED BY <2>4, <2>5, <2>6 DEF RollbackOK
<1>6. CASE ReplaceRoute
  <2>1. CASE op' = Idle
    BY <2>1, IdleOK
  <2>2. CASE Goto("resolv") /\ UNCHANGED settled
    <3>1. /\ op.kind = "apply" /\ op.at = "route" /\ op.gw # None /\ op.dns # None /\ settled = None
      BY <1>1, <1>6 DEF ReplaceRoute, OpOK, Busy
    <3>2. /\ op' \in OpType /\ op'.kind = "apply" /\ op'.gw = op.gw /\ op'.dns = op.dns
          /\ op'.at = "resolv"
      BY <1>1, <2>2, <3>1 DEF Goto, OpType, Busy
    <3>3. OpOK'
      BY <2>2, <3>1, <3>2 DEF OpOK, OpType, Busy
    <3>4. ApplyOK'
      BY <1>1, <1>6, <3>1, <3>2 DEF ApplyOK, IsNM, ReplaceRoute
    <3> QED BY <3>2, <3>3, <3>4 DEF RollbackOK
  <2> QED BY <1>6, <2>1, <2>2 DEF ReplaceRoute, Done
<1>7. ASSUME WriteResolv \/ ConnectionUp \/ Refused \/ RestoreRunning \/ Restart \/ Reboot PROVE Good
  BY <1>7, IdleOK DEF WriteResolv, ConnectionUp, Refused, RestoreRunning, Restart, Reboot, Done
<1>8. CASE Load
  <2>1. CASE op' = Idle
    BY <2>1, IdleOK
  <2>2. CASE /\ DOMAIN backups # {} /\ Chosen \in DOMAIN backups /\ settled' = None
             /\ op' = [op EXCEPT !.at = "file", !.id = Chosen, !.gw = backups[Chosen].gw,
                                 !.dns = backups[Chosen].dns, !.files = backups[Chosen]]
    <3>1. PICK c \in DOMAIN backups : c = Chosen
      BY <2>2
    <3>2. PICK b \in Backup : b = backups[c]
      BY <1>1 DEF StoreOK
    <3>3. /\ Sound(b.conf) /\ b.gw \in Gateways \ {Self} /\ b.dns \in SUBSET NameServers
      BY <1>1, <3>2 DEF StoreOK, Backup
    <3>4. c \in Seconds /\ op.kind = "rollback" /\ b.gw # None /\ b.dns # None
      BY <1>1, <1>8, <3>3, ConstantsAssumption DEF StoreOK, Load
    <3>5. op' = [op EXCEPT !.at = "file", !.id = c, !.gw = b.gw, !.dns = b.dns, !.files = b]
      BY <2>2, <3>1, <3>2
    <3>6. /\ op' \in OpType /\ op'.kind = "rollback" /\ op'.at = "file" /\ op'.id = c
          /\ op'.gw = b.gw /\ op'.dns = b.dns /\ op'.files = b
      BY <1>1, <3>3, <3>4, <3>5 DEF OpType, Busy
    <3>7. OpOK'
      BY <2>2, <3>4, <3>6 DEF OpOK, OpType, Busy
    <3>8. ApplyOK'
      BY <3>6 DEF ApplyOK
    <3>9. backups'[c] = b
      BY <1>8, <3>2 DEF Load
    <3>10. RollbackOK'
      BY <3>3, <3>6, <3>9 DEF RollbackOK, Sound
    <3> QED BY <3>7, <3>8, <3>10
  <2> QED BY <1>8, <2>1, <2>2 DEF Load
<1>9. CASE RestoreFile
  <2>1. /\ op.kind = "rollback" /\ op.at = "file" /\ op.gw # None /\ op.dns # None /\ settled = None
    BY <1>1, <1>9 DEF RestoreFile, OpOK, Busy
  <2>2. /\ op' \in OpType /\ op'.kind = "rollback" /\ op'.at = "resolv" /\ op'.gw = op.gw
        /\ op'.dns = op.dns /\ op'.files = op.files /\ op'.id = op.id
    BY <1>1, <1>9, <2>1 DEF RestoreFile, Goto, OpType, Busy
  <2>3. conf' = op.files.conf /\ UNCHANGED <<backups, settled>>
    BY <1>9 DEF RestoreFile
  <2>4. OpOK'
    BY <2>1, <2>2, <2>3 DEF OpOK, OpType, Busy
  <2>5. RollbackOK'
    BY <1>1, <2>1, <2>2, <2>3 DEF RollbackOK, Busy, Sound
  <2> QED BY <2>2, <2>4, <2>5 DEF ApplyOK
<1>10. CASE RestoreResolv
  <2>1. /\ op.kind = "rollback" /\ op.at = "resolv" /\ op.gw # None /\ op.dns # None /\ settled = None
    BY <1>1, <1>10 DEF RestoreResolv, OpOK, Busy
  <2>2. /\ op' \in OpType /\ op'.kind = "rollback" /\ op'.at = "route" /\ op'.gw = op.gw
        /\ op'.dns = op.dns /\ op'.files = op.files /\ op'.id = op.id
    BY <1>1, <1>10, <2>1 DEF RestoreResolv, Goto, OpType, Busy
  <2>3. resolv' = op.files.resolv /\ UNCHANGED <<conf, backups, settled>>
    BY <1>10 DEF RestoreResolv
  <2>4. OpOK'
    BY <2>1, <2>2, <2>3 DEF OpOK, OpType, Busy
  <2>5. RollbackOK'
    BY <1>1, <2>1, <2>2, <2>3 DEF RollbackOK, Busy, Sound
  <2> QED BY <2>2, <2>4, <2>5 DEF ApplyOK
<1>11. ASSUME NEW ids \in SUBSET DOMAIN backups, DeleteBackups(ids) PROVE Good
  <2>1. backups' = [id \in DOMAIN backups \ ids |-> backups[id]]
    BY <1>11 DEF DeleteBackups
  <2>2. DOMAIN backups' \subseteq DOMAIN backups /\ \A id \in DOMAIN backups' : backups'[id] = backups[id]
    BY <2>1
  <2>3. settled' = None \/ op.at \notin Busy
    BY <1>1, <1>11 DEF OpOK, DeleteBackups
  <2> QED BY <1>1, <1>11, <2>2, <2>3, OpFrame DEF DeleteBackups
<1>12. ASSUME SwitchMode \/ Tick \/ SetBack PROVE Good
  <2>1. settled' = None \/ op.at \notin Busy
    BY <1>1, <1>12 DEF OpOK, SwitchMode, Tick, SetBack
  <2>2. UNCHANGED <<host, op, hostVars, backups>>
    BY <1>12 DEF SwitchMode, Tick, SetBack
  <2> QED BY <1>1, <2>1, <2>2, OpFrame
<1>13. ASSUME Renew \/ \E servers \in Fallbacks : SetFallback(servers) PROVE Good
  <2>1. op.at \notin Busy /\ UNCHANGED <<host, op, backups>>
    BY <1>13 DEF Renew, SetFallback, Busy
  <2> QED BY <1>1, <2>1, OpFrame
<1> QED BY <1>2, <1>3, <1>4, <1>5, <1>6, <1>7, <1>8, <1>9, <1>10, <1>11, <1>12, <1>13 DEF Steps

LEMMA StoreStep == ASSUME NetInv, Steps PROVE StoreOK' /\ ClockOK' /\ LastInv'
<1>1. HostOK /\ StoreOK /\ ClockOK /\ LastInv
  BY DEF NetInv
<1>2. Seconds \subseteq Nat /\ MaxMishaps \in Nat /\ MaxTime \in Nat
  BY ConstantsAssumption DEF Seconds
<1>3. left' \in 0..MaxMishaps
  <2>1. left' = left \/ (left > 0 /\ left' = left - 1)
    BY DEF Steps, AskApply, AskRollback, Ask, Begin, WriteFile, ReplaceRoute, WriteResolv, ConnectionUp,
           Refused, Load, RestoreFile, RestoreResolv, RestoreRunning, DeleteBackups, SetFallback,
           SwitchMode, Tick, SetBack, Renew, Restart, Reboot, Mishap, Smooth
  <2> QED BY <1>1, <1>2, <2>1 DEF ClockOK
<1>4. CASE UNCHANGED <<backups, taken, clock, last, skewed>>
  BY <1>1, <1>3, <1>4 DEF StoreOK, ClockOK, LastInv, Sound
<1>5. CASE Begin
  <2>1. CASE UNCHANGED <<backups, taken, last>>
    BY <1>4, <1>5, <2>1 DEF Begin
  <2>2. CASE /\ backups' = Prune(Stored(backups, clock, Captured)) /\ last' = clock
             /\ taken' = [id \in DOMAIN backups' |-> IF id = clock THEN Now ELSE taken[id]]
    <3>1. clock \in Seconds /\ clock \in Nat
      BY <1>1, <1>2 DEF ClockOK
    <3>2. /\ StoreOK' /\ DOMAIN backups' \subseteq DOMAIN backups \cup {clock}
          /\ (\A j \in DOMAIN backups : j <= clock) => clock \in DOMAIN backups'
      BY <1>1, <2>2, <3>1, BeginStore
    <3>3. UNCHANGED <<clock, skewed>>
      BY <1>5 DEF Begin
    <3>4. LastInv'
      BY <1>1, <2>2, <3>1, <3>2, <3>3 DEF LastInv
    <3> QED BY <1>1, <1>3, <2>2, <3>1, <3>2, <3>3, <3>4 DEF ClockOK
  <2> QED BY <1>5, <2>1, <2>2 DEF Begin
<1>6. ASSUME NEW ids \in SUBSET DOMAIN backups, DeleteBackups(ids) PROVE StoreOK' /\ ClockOK' /\ LastInv'
  <2>1. StoreOK' /\ DOMAIN backups' \subseteq DOMAIN backups
    BY <1>1, <1>6, DeleteStore
  <2>2. /\ DOMAIN backups' = DOMAIN backups \ ids /\ last' = (IF last \in ids THEN None ELSE last)
        /\ UNCHANGED <<clock, skewed>>
    BY <1>6 DEF DeleteBackups
  <2>3. LastInv'
    BY <1>1, <2>2 DEF LastInv
  <2> QED BY <1>1, <1>3, <2>1, <2>2, <2>3 DEF ClockOK
<1>7. CASE Tick
  <2>1. clock' = clock + 1 /\ clock < MaxTime /\ UNCHANGED <<backups, taken, last, skewed>>
    BY <1>7 DEF Tick
  <2>2. clock \in Nat /\ \A id \in DOMAIN backups : id \in Nat
    BY <1>1, <1>2 DEF StoreOK, ClockOK
  <2>3. ClockOK'
    BY <1>1, <1>2, <1>3, <2>1 DEF ClockOK, Seconds
  <2>4. \A id \in DOMAIN backups : id <= clock => id <= clock'
    BY <2>1, <2>2
  <2>5. LastInv'
    BY <1>1, <2>1, <2>4 DEF LastInv
  <2> QED BY <1>1, <2>1, <2>3, <2>5 DEF StoreOK, Sound
<1>8. CASE SetBack
  <2>1. clock' = clock - 1 /\ clock > 0 /\ skewed' = TRUE /\ UNCHANGED <<backups, taken, last>>
    BY <1>8 DEF SetBack
  <2>2. ClockOK'
    BY <1>1, <1>2, <1>3, <2>1 DEF ClockOK, Seconds
  <2> QED BY <1>1, <2>1, <2>2 DEF StoreOK, Sound, LastInv
<1>9. \/ UNCHANGED <<backups, taken, clock, last, skewed>> \/ Begin \/ Tick \/ SetBack
      \/ \E ids \in SUBSET DOMAIN backups : DeleteBackups(ids)
  BY DEF Steps, AskApply, AskRollback, Ask, WriteFile, ReplaceRoute, WriteResolv, ConnectionUp,
         Refused, Load, RestoreFile, RestoreResolv, RestoreRunning, SetFallback,
         SwitchMode, Renew, Restart, Reboot
<1> QED BY <1>4, <1>5, <1>6, <1>7, <1>8, <1>9

\* What keeps an apply's settlement standing when none is made or taken back.
Standing ==
  /\ conf.mode = "static" /\ conf.gw = settled.next /\ settled.now = settled.next
  /\ route = settled.now /\ settled.dns \subseteq resolv.own
  /\ IsNM => profile = conf /\ settled.dns \subseteq conf.dns
  /\ ~IsNM /\ host.dhcpcd /\ settled.dns # {} => head # None /\ settled.dns \subseteq head

LEMMA StandingInv ==
  StandsInv <=> (settled # None => settled \in SettledType /\ (settled.by = "apply" => Standing))
BY DEF StandsInv, Standing

\* What a start of the host ends with still has the applied servers.
LEMMA StandingResolved ==
  ASSUME Standing
  PROVE  settled.dns \subseteq Resolved(conf, resolv, head).own
<1>1. Leased(conf) = {}
  BY DEF Standing, Leased
<1>2. CASE IsNM
  <2>1. Resolved(conf, resolv, head).own = conf.dns \cup Leased(conf)
    BY <1>2 DEF Resolved, Fresh
  <2> QED BY <1>2, <2>1 DEF Standing
<1>3. CASE ~IsNM /\ host.dhcpcd
  <2>1. Resolved(conf, resolv, head) = Fresh((IF head = None THEN {} ELSE head) \cup Leased(conf))
    BY <1>3 DEF Resolved
  <2>2. Resolved(conf, resolv, head).own = (IF head = None THEN {} ELSE head) \cup Leased(conf)
    BY <2>1 DEF Fresh
  <2>3. settled.dns # {} => head # None /\ settled.dns \subseteq head
    BY <1>3 DEF Standing
  <2>4. CASE settled.dns = {}
    BY <2>4
  <2>5. CASE settled.dns # {}
    BY <2>2, <2>3, <2>5
  <2> QED BY <2>4, <2>5
<1>4. CASE ~IsNM /\ ~host.dhcpcd
  <2>1. Resolved(conf, resolv, head) = resolv
    BY <1>4 DEF Resolved, Standing
  <2> QED BY <2>1 DEF Standing
<1> QED BY <1>2, <1>3, <1>4

\* The fallback servers come after what was applied, and take nothing of it away.
LEMMA FallbackStands ==
  ASSUME HostOK, settled \in SettledType, Standing, NEW s \in Fallbacks,
         Ensure(s, conf, profile, resolv),
         route' = IF s # {} /\ IsNM THEN Via(profile) ELSE route,
         UNCHANGED <<host, settled, head>>
  PROVE  Standing'
<1>1. s \in SUBSET NameServers /\ Sound(conf) /\ Managed(profile) /\ resolv \in Resolv
  BY ConstantsAssumption DEF HostOK
<1>2. /\ ~IsNM => conf' = conf /\ profile' = profile /\ resolv'.own = resolv.own
      /\ IsNM /\ s = {} => conf' = conf /\ profile' = profile /\ resolv' = resolv
      /\ IsNM /\ s # {} => /\ conf' = Extended(profile, s) /\ profile' = Extended(profile, s)
                           /\ profile.dns \subseteq resolv'.own
  BY <1>1, EnsureFacts
<1>3. CASE ~IsNM
  BY <1>2, <1>3 DEF Standing, IsNM
<1>4. CASE IsNM /\ s = {}
  BY <1>2, <1>4 DEF Standing, IsNM
<1>5. CASE IsNM /\ s # {}
  <2>1. profile = conf /\ settled.dns \subseteq conf.dns
    BY <1>5 DEF Standing
  <2>2. /\ Extended(conf, s).mode = conf.mode /\ Extended(conf, s).gw = conf.gw
        /\ Extended(conf, s).dns = conf.dns \cup s
    BY <1>1, ExtendedType
  <2>3. Via(conf) = conf.gw
    BY DEF Standing, Via
  <2> QED BY <1>2, <1>5, <2>1, <2>2, <2>3 DEF Standing, IsNM
<1> QED BY <1>3, <1>4, <1>5

LEMMA RebootStands ==
  ASSUME HostOK, settled \in SettledType, Standing, Reboot
  PROVE  Standing'
<1> DEFINE p == IF IsNM THEN conf ELSE None
           r == Resolved(conf, resolv, head)
<1>1. Sound(conf) /\ Managed(p) /\ r \in Resolv
  BY ResolvedType DEF HostOK, Managed, Sound
<1>2. settled.dns \subseteq r.own
  BY StandingResolved
<1>3. Ensure(fallback, conf, p, r) /\ fallback \in Fallbacks /\ route' = Via(conf)
      /\ UNCHANGED <<host, head, settled>>
  BY DEF Reboot, HostOK
<1>4. p = conf \/ ~IsNM
  OBVIOUS
<1> HIDE DEF p, r
<1>5. /\ ~IsNM => conf' = conf /\ profile' = p /\ resolv'.own = r.own
      /\ IsNM /\ fallback = {} => conf' = conf /\ profile' = p /\ resolv' = r
      /\ IsNM /\ fallback # {} => /\ conf' = Extended(p, fallback) /\ profile' = Extended(p, fallback)
                                  /\ p.dns \subseteq resolv'.own
  BY <1>1, <1>3, EnsureFacts
<1>6. route' = settled.now
  BY <1>3 DEF Standing, Via
<1>7. CASE ~IsNM
  BY <1>2, <1>3, <1>5, <1>6, <1>7 DEF Standing, IsNM
<1>8. CASE IsNM /\ fallback = {}
  BY <1>2, <1>3, <1>4, <1>5, <1>6, <1>8 DEF Standing, IsNM
<1>9. CASE IsNM /\ fallback # {}
  <2>1. fallback \in SUBSET NameServers
    BY <1>3, ConstantsAssumption
  <2>2. /\ Extended(conf, fallback).mode = conf.mode /\ Extended(conf, fallback).gw = conf.gw
        /\ Extended(conf, fallback).dns = conf.dns \cup fallback
    BY <1>1, <2>1, ExtendedType
  <2> QED BY <1>3, <1>4, <1>5, <1>6, <1>9, <2>2 DEF Standing, IsNM
<1> QED BY <1>7, <1>8, <1>9

LEMMA StandsStep == ASSUME NetInv, Steps PROVE StandsInv'
<1>1. /\ HostOK /\ OpOK /\ ApplyOK /\ RollbackOK /\ StoreOK
      /\ settled # None => settled \in SettledType /\ (settled.by = "apply" => Standing)
  BY StandingInv DEF NetInv
<1>2. ASSUME settled' = None PROVE StandsInv'
  BY <1>2 DEF StandsInv
<1>3. ASSUME UNCHANGED <<host, conf, profile, route, resolv, head, settled>> PROVE StandsInv'
  BY <1>1, <1>3 DEF StandsInv, Standing, IsNM
<1>4. ASSUME \/ \E q \in Requests : AskApply(q)
             \/ \E id \in Seconds \cup {None} : AskRollback(id)
             \/ Begin \/ Refused \/ Load
             \/ \E ids \in SUBSET DOMAIN backups : DeleteBackups(ids)
             \/ SwitchMode \/ Tick \/ SetBack
      PROVE StandsInv'
  BY <1>2, <1>3, <1>4 DEF AskApply, AskRollback, Ask, Begin, Refused, Load, DeleteBackups, SwitchMode,
                          Tick, SetBack, hostVars
<1>5. op.at \in Busy => settled = None
  BY <1>1 DEF OpOK
<1>6. ASSUME WriteFile \/ RestoreFile \/ RestoreResolv PROVE StandsInv'
  BY <1>2, <1>5, <1>6 DEF WriteFile, RestoreFile, RestoreResolv, Busy
<1>7. CASE ReplaceRoute
  <2>1. op.kind = "apply" /\ op.at = "route" /\ settled = None
    BY <1>5, <1>7 DEF ReplaceRoute, Busy
  <2>2. CASE UNCHANGED settled
    BY <1>2, <2>1, <2>2
  <2>3. CASE Stands(op.gw, op.gw, {})
    <3>1. op.gw \in Gateways /\ conf = [mode |-> "static", gw |-> op.gw, dns |-> op.dns] /\ ~IsNM
      BY <1>1, <2>1, InHand DEF ApplyOK, Busy
    <3>2. settled' = [by |-> "apply", now |-> op.gw, next |-> op.gw, dns |-> {}]
      BY <2>1, <2>3 DEF Stands
    <3>3. UNCHANGED <<host, conf>> /\ route' = op.gw
      BY <1>7 DEF ReplaceRoute
    <3> QED BY <3>1, <3>2, <3>3 DEF StandsInv, SettledType, IsNM
  <2> QED BY <1>7, <2>2, <2>3 DEF ReplaceRoute
<1>8. CASE WriteResolv
  <2>1. op.kind = "apply" /\ op.at = "resolv" /\ settled = None
    BY <1>5, <1>8 DEF WriteResolv, Busy
  <2>2. CASE UNCHANGED settled
    BY <1>2, <2>1, <2>2
  <2>3. CASE head' = op.dns /\ Stands(op.gw, op.gw, op.dns)
    <3>1. /\ op.gw \in Gateways /\ conf = [mode |-> "static", gw |-> op.gw, dns |-> op.dns] /\ ~IsNM
          /\ route = op.gw /\ op.dns \in SUBSET NameServers /\ op.dns # None
      BY <1>1, <2>1, InHand DEF ApplyOK, Busy, OpOK
    <3>2. settled' = [by |-> "apply", now |-> op.gw, next |-> op.gw, dns |-> op.dns]
      BY <2>1, <2>3 DEF Stands
    <3>3. UNCHANGED <<host, conf, route>> /\ resolv'.own = op.dns
      BY <1>8 DEF WriteResolv, Fresh
    <3> QED BY <2>3, <3>1, <3>2, <3>3 DEF StandsInv, SettledType, IsNM
  <2> QED BY <1>8, <2>2, <2>3 DEF WriteResolv
<1>9. CASE ConnectionUp
  <2>1. op.kind = "apply" /\ op.at = "up"
    BY <1>9 DEF ConnectionUp
  <2>2. /\ op.gw \in Gateways /\ conf = [mode |-> "static", gw |-> op.gw, dns |-> op.dns]
        /\ IsNM /\ profile = conf /\ op.dns \in SUBSET NameServers
    BY <1>1, <2>1, InHand DEF ApplyOK, Busy
  <2>3. settled' = [by |-> "apply", now |-> op.gw, next |-> op.gw, dns |-> op.dns]
    BY <1>9, <2>1 DEF ConnectionUp, Stands
  <2>4. UNCHANGED <<host, conf, profile>> /\ route' = op.gw /\ resolv'.own = op.dns
    BY <1>9, <2>2 DEF ConnectionUp, Fresh
  <2> QED BY <2>2, <2>3, <2>4 DEF StandsInv, SettledType, IsNM
<1>10. CASE RestoreRunning
  <2>1. op.kind = "rollback" /\ op.at = "route" /\ settled = None
    BY <1>5, <1>10 DEF RestoreRunning, Busy
  <2>2. CASE UNCHANGED settled
    BY <1>2, <2>1, <2>2
  <2>3. CASE Stands(op.gw, Via(op.files.conf), op.dns)
    <3>1. op.gw \in Gateways /\ op.dns \in SUBSET NameServers /\ Sound(op.files.conf)
      BY <1>1, <2>1, InHand DEF RollbackOK, Busy
    <3>2. Via(op.files.conf) \in Gateways
      BY <3>1, ViaSound
    <3>3. settled' = [by |-> "rollback", now |-> op.gw, next |-> Via(op.files.conf), dns |-> op.dns]
      BY <2>1, <2>3 DEF Stands
    <3> QED BY <3>1, <3>2, <3>3 DEF StandsInv, SettledType
  <2> QED BY <1>10, <2>2, <2>3 DEF RestoreRunning
<1>11. ASSUME NEW servers \in Fallbacks, SetFallback(servers) PROVE StandsInv'
  <2>1. UNCHANGED <<host, head, settled>>
    BY <1>11 DEF SetFallback
  <2>2. CASE UNCHANGED <<conf, profile, resolv, route>>
    BY <1>3, <2>1, <2>2
  <2>3. CASE Ensure(servers, conf, profile, resolv)
             /\ route' = IF servers # {} /\ IsNM THEN Via(profile) ELSE route
    <3>1. ASSUME settled # None, settled.by = "apply" PROVE Standing'
      BY <1>1, <2>1, <2>3, <3>1, FallbackStands
    <3> QED BY <1>1, <2>1, <3>1 DEF StandsInv, Standing
  <2> QED BY <1>11, <2>2, <2>3 DEF SetFallback
<1>12. CASE Renew
  <2>1. settled' = IF settled = None THEN None ELSE [settled EXCEPT !.by = "lease"]
    BY <1>12 DEF Renew
  <2>2. CASE settled = None
    BY <1>2, <2>1, <2>2
  <2>3. CASE settled # None
    <3>1. settled' \in SettledType /\ settled'.by = "lease"
      BY <1>1, <2>1, <2>3 DEF SettledType
    <3> QED BY <3>1 DEF StandsInv
  <2> QED BY <2>2, <2>3
<1>13. CASE Restart
  <2>1. /\ Ensure(fallback, conf, profile, resolv) /\ UNCHANGED <<host, head, settled>>
        /\ route' = IF fallback # {} /\ IsNM THEN Via(profile) ELSE route
        /\ fallback \in Fallbacks
    BY <1>1, <1>13 DEF Restart, HostOK
  <2>2. ASSUME settled # None, settled.by = "apply" PROVE Standing'
    BY <1>1, <2>1, <2>2, FallbackStands
  <2> QED BY <1>1, <2>1, <2>2 DEF StandsInv, Standing
<1>14. CASE Reboot
  <2>1. UNCHANGED settled
    BY <1>14 DEF Reboot
  <2>2. ASSUME settled # None, settled.by = "apply" PROVE Standing'
    BY <1>1, <1>14, <2>2, RebootStands
  <2> QED BY <1>1, <2>1, <2>2 DEF StandsInv, Standing
<1> QED BY <1>4, <1>6, <1>7, <1>8, <1>9, <1>10, <1>11, <1>12, <1>13, <1>14 DEF Steps

-----------------------------------------------------------------------------
(* The theorems.                                                           *)

LEMMA NetInit == ASSUME Init PROVE NetInv
<1>1. Lease.dns \in SUBSET NameServers /\ Lease.gw \in Gateways \ {Self} /\ {} \in Fallbacks
  BY ConstantsAssumption
<1>2. Sound(conf) /\ Managed(profile)
  BY <1>1 DEF Init, Sound, Managed, Conf
<1>3. HostOK
  BY <1>1, <1>2, FreshType DEF Init, HostOK
<1>4. OpOK /\ ApplyOK /\ RollbackOK
  BY DEF Init, Idle, OpOK, OpType, ApplyOK, RollbackOK, Busy
<1>5. StoreOK
  <2>1. DOMAIN backups = {} /\ backups = [id \in {} |-> None] /\ taken = [id \in {} |-> None]
    BY DEF Init
  <2>2. Cardinality(DOMAIN backups) <= MaxBackups
    BY <2>1, FS_EmptySet, ConstantsAssumption
  <2> QED BY <2>1, <2>2 DEF StoreOK
<1>6. ClockOK /\ LastInv /\ StandsInv
  <2>1. 0 \in Seconds /\ MaxMishaps \in 0..MaxMishaps
    BY ConstantsAssumption DEF Seconds
  <2> QED BY <2>1 DEF Init, ClockOK, LastInv, StandsInv
<1> QED BY <1>3, <1>4, <1>5, <1>6 DEF NetInv

LEMMA NetStep == ASSUME NetInv, [Next]_vars PROVE NetInv'
<1>1. CASE UNCHANGED vars
  BY <1>1 DEF vars, NetInv, HostOK, Sound, Managed, IsNM, OpOK, OpType, ApplyOK, RollbackOK, StoreOK,
              ClockOK, LastInv, StandsInv
<1>2. CASE Next
  <2>1. Steps
    BY <1>2, NextSteps
  <2> QED BY <2>1, HostStep, OpStep, StoreStep, StandsStep DEF NetInv
<1> QED BY <1>1, <1>2

\* What an apply answered with ok stands, now and after any reboot, through fallbacks, cut
\* power and dhcpcd, until a lease renewal or the next change.
THEOREM AppliesStand == Spec => []AppliedStands
<1>1. Init => NetInv
  BY NetInit
<1>2. NetInv /\ [Next]_vars => NetInv'
  BY NetStep
<1>3. ASSUME NetInv PROVE AppliedStands
  <2> SUFFICES ASSUME settled # None, settled.by = "apply"
               PROVE  /\ route = settled.now /\ settled.dns \subseteq Servers
                      /\ Via(conf) = settled.next
                      /\ settled.dns \subseteq Listed(Resolved(conf, resolv, head))
    BY DEF AppliedStands
  <2>1. Standing /\ Sound(conf) /\ HostOK
    BY <1>3, StandingInv DEF NetInv, HostOK
  <2>2. Leased(conf) = {} /\ Via(conf) = settled.next
    BY <2>1 DEF Standing, Leased, Via
  <2>3. settled.dns \subseteq Servers
    BY <2>1 DEF Standing, Servers, Listed
  <2>4. settled.dns \subseteq Resolved(conf, resolv, head).own
    BY <2>1, StandingResolved
  <2> QED BY <2>1, <2>2, <2>3, <2>4 DEF Standing, Listed
<1> QED BY <1>1, <1>2, <1>3, PTL DEF Spec

\* A rollback that ran to its end leaves the file, the route and the servers as they were
\* when its backup was made, whatever happened to them, and to the other backups, since.
THEOREM RollbacksReturn == Spec => RollbackReturns
<1>1. Init => NetInv
  BY NetInit
<1>2. NetInv /\ [Next]_vars => NetInv'
  BY NetStep
<1> DEFINE Returns ==
      op.at = "route" /\ op.kind = "rollback" /\ left' = left /\ op' = Idle /\ op.id \in DOMAIN taken
        => /\ conf' = taken[op.id].conf /\ route' = taken[op.id].route
           /\ Listed(resolv') = taken[op.id].servers
<1>3. ASSUME NetInv, Next PROVE Returns
  <2> SUFFICES ASSUME op.at = "route", op.kind = "rollback", left' = left, op' = Idle,
                      op.id \in DOMAIN taken
               PROVE  /\ conf' = taken[op.id].conf /\ route' = taken[op.id].route
                      /\ Listed(resolv') = taken[op.id].servers
    OBVIOUS
  <2>1. /\ op.gw \in Gateways /\ op.dns \in SUBSET NameServers
        /\ op.gw = backups[op.id].gw /\ op.dns = backups[op.id].dns
        /\ conf = backups[op.id].conf /\ resolv = backups[op.id].resolv
        /\ taken[op.id].conf = backups[op.id].conf /\ taken[op.id].route = backups[op.id].gw
        /\ taken[op.id].servers = backups[op.id].dns /\ Listed(resolv) = op.dns
    <3>1. op.id \in DOMAIN backups
      BY <1>3 DEF NetInv, StoreOK
    <3> QED BY <1>3, <3>1, InHand DEF NetInv, StoreOK, RollbackOK, Busy
  <2>2. ASSUME NEW n \in Int, n = left PROVE left - 1 # left
    BY <2>2
  <2>3. left - 1 # left
    BY <1>3, <2>2, ConstantsAssumption DEF NetInv, ClockOK
  <2>4. op' # op
    BY DEF Idle
  <2>5. RestoreRunning
    BY <1>3, <2>3, <2>4, NextSteps
       DEF Steps, AskApply, AskRollback, Ask, Begin, WriteFile, ReplaceRoute, WriteResolv, ConnectionUp,
           Refused, Load, RestoreFile, RestoreResolv, DeleteBackups, SetFallback, SwitchMode, Tick,
           SetBack, Renew, Restart, Reboot, Mishap, Idle
  <2>6. route' = op.gw /\ UNCHANGED conf
    BY <2>3, <2>5 DEF RestoreRunning, Mishap
  <2>7. Listed(resolv') = op.dns
    BY <2>1, <2>5, FreshType DEF RestoreRunning
  <2> QED BY <2>1, <2>6, <2>7
<1>4. NetInv /\ [Next]_vars => [Returns]_vars
  BY <1>3
<1> QED BY <1>1, <1>2, <1>4, PTL DEF Spec, RollbackReturns

\* Every variable keeps its type, no static configuration names the box as its own
\* gateway, and no more backups are kept than the limit.
THEOREM NetworkTyped == Spec => []TypeOK
<1>1. Init => NetInv
  BY NetInit
<1>2. NetInv /\ [Next]_vars => NetInv'
  BY NetStep
<1>3. ASSUME NetInv PROVE TypeOK
  <2>1. conf \in Conf /\ profile \in (IF IsNM THEN Conf ELSE {None})
    BY <1>3 DEF NetInv, HostOK, Sound, Managed
  <2>2. \A c \in {conf, profile} \ {None} : c.mode = "static" => c.gw # None
    BY <1>3, ConstantsAssumption DEF NetInv, HostOK, Sound, Managed
  <2>3. DOMAIN backups = DOMAIN taken /\ \A id \in DOMAIN backups : backups[id] \in Backup
    BY <1>3 DEF NetInv, StoreOK
  <2>4. /\ op.kind \in {"none", "apply", "rollback"}
        /\ op.at \in {"idle", "asked", "file", "route", "resolv", "up"}
    BY <1>3 DEF NetInv, OpOK, OpType, Busy
  <2> QED BY <1>3, <2>1, <2>2, <2>3, <2>4 DEF NetInv, HostOK, StoreOK, ClockOK, TypeOK
<1> QED BY <1>1, <1>2, <1>3, PTL DEF Spec

\* A rollback without an id undoes the last change: the newest backup is the last apply's,
\* pruning never drops it, unless somebody deleted it or set the clock back.
THEOREM NewestKept == Spec => []NewestIsLast
<1>1. Init => NetInv
  BY NetInit
<1>2. NetInv /\ [Next]_vars => NetInv'
  BY NetStep
<1>3. ASSUME NetInv PROVE NewestIsLast
  <2> SUFFICES ASSUME last # None, ~skewed PROVE last \in DOMAIN backups /\ last = Max(DOMAIN backups)
    BY DEF NewestIsLast
  <2>1. /\ last \in DOMAIN backups /\ DOMAIN backups \subseteq Nat
        /\ \A id \in DOMAIN backups : id <= last
    BY <1>3, ConstantsAssumption DEF NetInv, StoreOK, LastInv, Seconds
  <2>2. \A y \in DOMAIN backups : last >= y
    BY <2>1
  <2>3. \A x \in DOMAIN backups : (\A y \in DOMAIN backups : x >= y) => x = last
    BY <2>1
  <2> QED BY <2>1, <2>2, <2>3 DEF Max
<1> QED BY <1>1, <1>2, <1>3, PTL DEF Spec
===============================================================================
