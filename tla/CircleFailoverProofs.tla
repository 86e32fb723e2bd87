-------------------------- MODULE CircleFailoverProofs ------------------------
(***************************************************************************)
(* Proofs about CircleFailover, for any nodes, circles, lists, modes,      *)
(* settings, requests and number of outside events: every variable keeps   *)
(* its type, two rotations of one circle are never past its lock together  *)
(* unless the lock was dropped under one of them, the active node exists   *)
(* once no switch is under way, and a switch nobody interfered with brings *)
(* the traffic to the active node.                                         *)
(*                                                                         *)
(* Then about NodeStore, for any tables, servers and edits: every variable *)
(* keeps its type, outbounds dial as their rows say, deletions leave no    *)
(* reference behind, a refresh keeps what the operator chose, and reaches  *)
(* xray.                                                                   *)
(***************************************************************************)
EXTENDS CircleFailover, NodeStore, FiniteSetTheorems, TLAPS

-------------------------------------------------------------------------------
(* Numbers and sequences.                                                  *)

\* Every non-empty set of natural numbers has a least element: the form in which the
\* proofs below use induction.
LEMMA LeastNat ==
  ASSUME NEW T \in SUBSET Nat, T # {}
  PROVE  \E m \in T : \A k \in T : m <= k
<1> DEFINE B == {0..n : n \in T}
<1>1. B \subseteq FiniteSubsetsOf(Nat) /\ B # {}
  <2>1. \A n \in T : IsFiniteSet(0..n) /\ 0..n \subseteq Nat
    BY FS_Interval
  <2> QED BY <2>1 DEF FiniteSubsetsOf
<1>2. IsWellFoundedOn(StrictSubsetOrdering(Nat), FiniteSubsetsOf(Nat))
  BY FS_StrictSubsetOrderingWellFounded
<1> HIDE DEF B
<1>3. PICK x \in B : \A y \in B : ~(<<y, x>> \in StrictSubsetOrdering(Nat))
  BY <1>1, <1>2, WFMin
<1>4. PICK m \in T : x = 0..m
  BY DEF B
<1>5. ASSUME NEW k \in T PROVE m <= k
  <2> SUFFICES ASSUME k < m PROVE FALSE
    OBVIOUS
  <2>1. ~(<<0..k, 0..m>> \in StrictSubsetOrdering(Nat))
    BY <1>3, <1>4 DEF B
  <2>2. 0..k \subseteq 0..m /\ 0..k # 0..m /\ 0..k \in SUBSET Nat /\ 0..m \in SUBSET Nat
    OBVIOUS
  <2> QED BY <2>1, <2>2 DEF StrictSubsetOrdering
<1> QED BY <1>5

LEMMA LeastIn == ASSUME NEW S \in SUBSET Nat, S # {} PROVE Least(S) \in S
BY LeastNat DEF Least

LEMMA RangeSeq == ASSUME NEW T, NEW s \in Seq(T) PROVE Range(s) \subseteq T
BY DEF Range

LEMMA RangeAppend ==
  ASSUME NEW T, NEW s \in Seq(T), NEW e \in T
  PROVE  Range(Append(s, e)) = Range(s) \cup {e}
<1>1. DOMAIN Append(s, e) = DOMAIN s \cup {Len(s) + 1}
  OBVIOUS
<1>2. Append(s, e)[Len(s) + 1] = e /\ \A i \in DOMAIN s : Append(s, e)[i] = s[i]
  OBVIOUS
<1> QED BY <1>1, <1>2 DEF Range

\* g is what Within computes, up to n.
Computes(g, s, S, n) ==
  g = [i \in 0..n |-> IF i = 0 THEN <<>>
                      ELSE IF s[i] \in S THEN Append(g[i - 1], s[i]) ELSE g[i - 1]]

\* The recursion of Within has a solution.
LEMMA WithinExists ==
  ASSUME NEW T, NEW s \in Seq(T), NEW S
  PROVE  \E g : Computes(g, s, S, Len(s))
<1> USE DEF Computes
<1> DEFINE Grow(g, i) == IF i = 0 THEN <<>>
                         ELSE IF s[i] \in S THEN Append(g[i - 1], s[i]) ELSE g[i - 1]
           Bad == {k \in 0..Len(s) : ~ \E g : Computes(g, s, S, k)}
<1>0. Len(s) \in 0..Len(s)
  OBVIOUS
<1> SUFFICES ASSUME Bad # {} PROVE FALSE
  BY <1>0
<1>1. PICK m \in Bad : \A k \in Bad : m <= k
  <2> HIDE DEF Bad
  <2>1. Bad \in SUBSET Nat
    BY DEF Bad
  <2> QED BY <2>1, LeastNat
<1>2. m # 0
  <2>1. [i \in 0..0 |-> <<>>] = [i \in 0..0 |-> Grow([j \in 0..0 |-> <<>>], i)]
    OBVIOUS
  <2> QED BY <2>1
<1>3. m \in 1..Len(s) /\ m - 1 \in 0..Len(s) /\ m - 1 \notin Bad
  <2>1. m \in 0..Len(s)
    OBVIOUS
  <2> HIDE DEF Bad
  <2> QED BY <1>1, <1>2, <2>1
<1>4. PICK g : g = [i \in 0..(m - 1) |-> Grow(g, i)]
  BY <1>3
<1> DEFINE h == [i \in 0..m |-> IF i = m THEN Grow(g, m) ELSE g[i]]
<1>5. \A i \in 0..m : h[i] = Grow(h, i)
  <2> TAKE i \in 0..m
  <2>1. CASE i = 0
    <3>1. h[0] = g[0] /\ g[0] = <<>>
      BY <1>2, <1>3, <1>4, <2>1
    <3> QED BY <2>1, <3>1
  <2>2. CASE i # 0
    <3>1. i - 1 \in 0..m /\ i - 1 # m /\ h[i - 1] = g[i - 1]
      BY <2>2
    <3>2. h[i] = Grow(g, i)
      <4>1. CASE i = m
        BY <4>1
      <4>2. CASE i # m
        <5>1. i \in 0..(m - 1)
          BY <4>2
        <5>2. g[i] = Grow(g, i)
          BY <1>4, <5>1
        <5> QED BY <4>2, <5>2
      <4> QED BY <4>1, <4>2
    <3> QED BY <2>2, <3>1, <3>2
  <2> QED BY <2>1, <2>2
<1>6. h = [i \in 0..m |-> Grow(h, i)]
  BY <1>5
<1> QED BY <1>1, <1>6

LEMMA WithinFacts ==
  ASSUME NEW T, NEW s \in Seq(T), NEW S
  PROVE  Within(s, S) \in Seq(T) /\ Range(Within(s, S)) = Range(s) \cap S
<1> DEFINE f == CHOOSE g : g = [i \in 0..Len(s) |->
                  IF i = 0 THEN <<>>
                  ELSE IF s[i] \in S THEN Append(g[i - 1], s[i]) ELSE g[i - 1]]
           First(n) == {s[i] : i \in 1..n}
           Bad == {n \in 0..Len(s) : ~(f[n] \in Seq(T) /\ Range(f[n]) = First(n) \cap S)}
<1>0. Len(s) \in 0..Len(s)
  OBVIOUS
<1>1. Within(s, S) = f[Len(s)]
  BY DEF Within
<1>2. \A i \in 0..Len(s) : f[i] = IF i = 0 THEN <<>>
                                  ELSE IF s[i] \in S THEN Append(f[i - 1], s[i]) ELSE f[i - 1]
  <2>1. f = CHOOSE g : Computes(g, s, S, Len(s))
    BY DEF Computes
  <2>2. Computes(f, s, S, Len(s))
    <3> HIDE DEF f
    <3> QED BY <2>1, WithinExists
  <2>3. f = [i \in 0..Len(s) |-> IF i = 0 THEN <<>>
               ELSE IF s[i] \in S THEN Append(f[i - 1], s[i]) ELSE f[i - 1]]
    BY <2>2 DEF Computes
  <2> QED BY <2>3
<1> HIDE DEF f
<1>3. Bad = {}
  <2> SUFFICES ASSUME Bad # {} PROVE FALSE
    OBVIOUS
  <2>1. PICK m \in Bad : \A k \in Bad : m <= k
    <3> HIDE DEF Bad
    <3>1. Bad \in SUBSET Nat
      BY DEF Bad
    <3> QED BY <3>1, LeastNat
  <2>2. m # 0
    <3>1. f[0] = <<>>
      BY <1>2
    <3>2. f[0] \in Seq(T) /\ Range(f[0]) = {} /\ First(0) = {}
      BY <3>1 DEF Range
    <3> QED BY <3>2
  <2>3. m - 1 \in 0..Len(s) /\ m - 1 \notin Bad
    <3>1. m \in 0..Len(s)
      OBVIOUS
    <3> HIDE DEF Bad
    <3> QED BY <2>1, <2>2, <3>1
  <2>4. f[m - 1] \in Seq(T) /\ Range(f[m - 1]) = First(m - 1) \cap S
    BY <2>3
  <2>5. s[m] \in T /\ First(m) = First(m - 1) \cup {s[m]}
    <3>1. m \in 1..Len(s) /\ 1..m = 1..(m - 1) \cup {m}
      BY <2>2
    <3> QED BY <3>1
  <2>6. f[m] = IF s[m] \in S THEN Append(f[m - 1], s[m]) ELSE f[m - 1]
    BY <1>2, <2>2
  <2> HIDE DEF First
  <2>7. f[m] \in Seq(T) /\ Range(f[m]) = First(m) \cap S
    <3>1. CASE s[m] \in S
      <4>1. Range(f[m]) = Range(f[m - 1]) \cup {s[m]}
        BY <2>4, <2>5, <2>6, <3>1, RangeAppend
      <4>2. f[m] \in Seq(T)
        BY <2>4, <2>5, <2>6, <3>1
      <4> QED BY <2>4, <2>5, <3>1, <4>1, <4>2
    <3>2. CASE s[m] \notin S
      BY <2>4, <2>5, <2>6, <3>2
    <3> QED BY <3>1, <3>2
  <2> QED BY <2>7
<1>4. f[Len(s)] \in Seq(T) /\ Range(f[Len(s)]) = First(Len(s)) \cap S
  BY <1>0, <1>3
<1>5. First(Len(s)) = Range(s)
  BY DEF Range
<1> QED BY <1>1, <1>4, <1>5

-------------------------------------------------------------------------------
(* Types.                                                                  *)

\* Where a coroutine stands tells what it has in hand.
CandsInv ==
  /\ \A r \in Rotators :
       /\ rot[r].at # "idle" => rot[r].circle \in Circles /\ rot[r].lock \in Locks
       /\ rot[r].at \in Inside => rot[r].cands # <<>>
  /\ hc.at # "idle" => hc.node \in Nodes
  /\ hc.at = "commit" => hc.cands # <<>>

TypeInv == TypeOK /\ CandsInv

HcAt == {"idle", "probe", "tier", "rotating", "list", "commit", "apply"}
OpAt == {"unsent", "heal", "regen", "reload", "pin", "done"}
HcType == [at : HcAt, node : Nodes \cup {0}, cands : Seq(Nodes)]
RotType == [at : RotAt, circle : Circles \cup {0}, cands : Seq(Nodes),
            lock : Locks \cup {0}, pin : BOOLEAN, ok : BOOLEAN]
OpType == [at : OpAt, node : Nodes \cup {0}]
LiveType == [up : BOOLEAN, api : BOOLEAN, conf : Configs, pin : Nodes \cup {0}]
CircleType == [st : States, ids : Seq(Nodes), idx : Nat]
LeftOK(l) == l \in [DOMAIN Limits -> Nat] /\ \A k \in DOMAIN Limits : l[k] <= Limits[k]

\* What one rotation has in hand.
RotOK(x) == /\ x \in RotType
            /\ x.at # "idle" => x.circle \in Circles /\ x.lock \in Locks
            /\ x.at \in Inside => x.cands # <<>>
HcOK(x) == /\ x \in HcType
           /\ x.at # "idle" => x.node \in Nodes
           /\ x.at = "commit" => x.cands # <<>>

\* The types by variable.
RowsOK == /\ node \in [Nodes -> States] /\ seen \subseteq Nodes
          /\ circle \in [Circles -> CircleType] /\ active \in Nodes \cup {0}
RotsOK == rot \in [Rotators -> RotType] /\ \A r \in Rotators : RotOK(rot[r])
TypeParts ==
  /\ RowsOK /\ alive \subseteq Nodes /\ fails \in [Nodes -> 0..Threshold] /\ HcOK(hc)
  /\ RotsOK /\ lockOf \in [Circles -> Locks \cup {0}] /\ op \in [Ops -> OpType]
  /\ file \in Configs /\ live \in LiveType /\ LeftOK(left)
  /\ alone \in BOOLEAN /\ dropped \subseteq Circles

LEMMA ByParts == TypeInv <=> TypeParts
BY DEF TypeInv, TypeOK, CandsInv, TypeParts, RowsOK, RotsOK, RotOK, HcOK, HcType, HcAt, RotType,
       OpType, OpAt, LiveType, CircleType, LeftOK

LEMMA LimitsDomain ==
  /\ DOMAIN Limits = {"all", "edit", "toggle", "flip", "restart", "reboot", "deadline", "rotate"}
  /\ \A k \in DOMAIN Limits : Limits[k] \in Nat
BY LimitsAssumption

LEMMA SpendType ==
  ASSUME LeftOK(left), NEW k \in DOMAIN Limits \ {"all"}, Spend(k) PROVE LeftOK(left')
<1>1. "all" \in DOMAIN Limits /\ \A j \in DOMAIN Limits : Limits[j] \in Nat
  BY LimitsDomain
<1>2. /\ left' \in [DOMAIN Limits -> Int]
      /\ \A j \in DOMAIN Limits : left'[j] = IF j \in {k, "all"} THEN left[j] - 1 ELSE left[j]
  BY <1>1 DEF LeftOK, Spend
<1>3. left[k] > 0 /\ left["all"] > 0
  BY DEF Spend
<1> QED BY <1>1, <1>2, <1>3 DEF LeftOK

LEMMA CircleOfType ==
  ASSUME RowsOK, NEW n PROVE CircleOf(n) \in Circles \cup {0}
<1> DEFINE cs == {c \in Circles : circle[c].st = "on" /\ n \in Members(c)}
<1>1. cs \in SUBSET Nat
  BY NodesAssumption
<1>2. cs # {} => Least(cs) \in cs
  BY <1>1, LeastIn
<1> QED BY <1>2 DEF CircleOf

LEMMA ConfigType ==
  ASSUME RowsOK, NEW n \in Nodes \cup {0}
  PROVE  Config(n) \in Configs /\ PlainConfig(n) \in Configs
<1> DEFINE here == n # 0 /\ node[n] # "gone"
           c    == IF here THEN CircleOf(n) ELSE 0
           ms   == IF c = 0 THEN {} ELSE {m \in Members(c) : m = n \/ Enabled(m)}
<1>1. c \in Circles \cup {0}
  BY CircleOfType
<1>2. c # 0 => Members(c) \subseteq Nodes
  BY <1>1, RangeSeq DEF RowsOK, CircleType, Members
<1>3. ms \in SUBSET Nodes
  BY <1>2
<1>4. Config(n) = [node |-> IF here THEN n ELSE 0, bal |-> c, members |-> ms]
  BY DEF Config
<1> HIDE DEF here, c, ms
<1>5. Config(n) \in Configs
  BY <1>1, <1>3, <1>4 DEF Configs
<1>6. PlainConfig(n) \in Configs
  BY <1>5 DEF PlainConfig, Configs
<1> QED BY <1>5, <1>6

\* Where a rotation goes next, and that the others stay where they are.
LEMMA RotStays ==
  ASSUME RotsOK, NEW r \in Rotators, NEW x, RotOK(x), rot' = [rot EXCEPT ![r] = x]
  PROVE  /\ RotsOK' /\ rot'[r] = x
         /\ \A q \in Rotators : q # r => rot'[q] = rot[q]
<1>1. /\ rot' \in [Rotators -> RotType] /\ rot'[r] = x
      /\ \A q \in Rotators : q # r => rot'[q] = rot[q]
  BY DEF RotsOK, RotOK
<1> QED BY <1>1 DEF RotsOK, RotOK

LEMMA NoRotOK == ASSUME NEW b \in BOOLEAN PROVE RotOK([NoRot EXCEPT !.ok = b]) /\ RotOK(NoRot)
<1>1. "idle" \in RotAt /\ "idle" \notin Inside /\ <<>> \in Seq(Nodes)
  BY DEF RotAt, Inside
<1>2. NoRot \in RotType /\ NoRot.at = "idle"
  BY <1>1 DEF NoRot, RotType
<1>3. [NoRot EXCEPT !.ok = b] \in RotType /\ [NoRot EXCEPT !.ok = b].at = "idle"
  BY <1>2 DEF RotType
<1> QED BY <1>1, <1>2, <1>3 DEF RotOK

LEMMA DoneType ==
  ASSUME RotsOK, NEW r \in Rotators, NEW b \in BOOLEAN, Done(r, b)
  PROVE  /\ RotsOK' /\ rot'[r].at = "idle"
         /\ \A q \in Rotators : q # r => rot'[q] = rot[q]
<1>1. RotOK([NoRot EXCEPT !.ok = b]) /\ [NoRot EXCEPT !.ok = b].at = "idle"
  BY NoRotOK DEF NoRot
<1> QED BY <1>1, RotStays DEF Done

LEMMA GoType ==
  ASSUME RotsOK, NEW r \in Rotators, rot[r].at \in Inside, NEW l \in Inside, Go(r, l)
  PROVE  /\ RotsOK' /\ rot'[r] = [rot[r] EXCEPT !.at = l]
         /\ \A q \in Rotators : q # r => rot'[q] = rot[q]
<1> DEFINE x == [rot[r] EXCEPT !.at = l]
<1>1. RotOK(rot[r]) /\ rot[r].at # "idle" /\ l \in RotAt
  BY DEF RotsOK, Inside
<1>2. x \in RotType /\ x.circle = rot[r].circle /\ x.lock = rot[r].lock /\ x.cands = rot[r].cands
  BY <1>1 DEF RotOK, RotType
<1>3. RotOK(x)
  BY <1>1, <1>2 DEF RotOK
<1>4. rot' = [rot EXCEPT ![r] = x]
  BY DEF Go, RotsOK
<1> HIDE DEF x
<1>5. /\ RotsOK' /\ rot'[r] = x /\ \A q \in Rotators : q # r => rot'[q] = rot[q]
  BY <1>3, <1>4, RotStays
<1> QED BY <1>5 DEF x

-------------------------------------------------------------------------------
(* The lock objects.                                                       *)

LEMMA ImageFinite ==
  ASSUME NEW S, IsFiniteSet(S), NEW V, NEW f \in [S -> V]
  PROVE  IsFiniteSet(Range(f)) /\ Cardinality(Range(f)) <= Cardinality(S)
         /\ Cardinality(Range(f)) \in Nat
<1>1. f \in Surjection(S, Range(f))
  <2>1. f \in [S -> Range(f)]
    BY DEF Range
  <2> QED BY <2>1 DEF Surjection, Range
<1> QED BY <1>1, FS_Surjection, FS_CardinalityType

LEMMA RotatorsFinite == IsFiniteSet(Rotators)
<1>1. IsFiniteSet({"tick"})
  BY FS_Singleton
<1>2. IsFiniteSet({"tick"} \cup {"manual"})
  BY <1>1, FS_AddElement
<1>3. IsFiniteSet(({"tick"} \cup {"manual"}) \cup {"failover"})
  BY <1>2, FS_AddElement
<1> QED BY <1>3 DEF Rotators

\* There is a lock object left for a circle that has none.
LEMMA FreshLock ==
  ASSUME RotsOK, lockOf \in [Circles -> Locks \cup {0}], NEW c \in Circles, lockOf[c] = 0
  PROVE  LET used == Range(lockOf) \cup {rot[q].lock : q \in Rotators}
         IN  Least(Locks \ used) \in Locks \ used
<1> DEFINE f == [d \in Circles \ {c} |-> lockOf[d]]
           g == [q \in Rotators |-> rot[q].lock]
           used == Range(lockOf) \cup {rot[q].lock : q \in Rotators}
           m == Cardinality(Rotators)
           n == Cardinality(Circles)
<1>1. used \subseteq {0} \cup Range(f) \cup Range(g)
  BY DEF Range
<1>2. IsFiniteSet(Range(g)) /\ Cardinality(Range(g)) <= m /\ Cardinality(Range(g)) \in Nat
  <2>1. g \in [Rotators -> Locks \cup {0}]
    BY DEF RotsOK, RotType
  <2> HIDE DEF g
  <2> QED BY <2>1, RotatorsFinite, ImageFinite
<1>3. IsFiniteSet(Circles \ {c}) /\ Cardinality(Circles \ {c}) = n - 1
  BY NodesAssumption, FS_RemoveElement
<1>4. IsFiniteSet(Range(f)) /\ Cardinality(Range(f)) <= n - 1 /\ Cardinality(Range(f)) \in Nat
  <2>1. f \in [Circles \ {c} -> Locks \cup {0}]
    OBVIOUS
  <2> HIDE DEF f
  <2> QED BY <2>1, <1>3, ImageFinite
<1>5. m \in Nat /\ n \in Nat
  BY NodesAssumption, RotatorsFinite, FS_CardinalityType
<1> HIDE DEF f, g, used, m, n
<1>6. /\ IsFiniteSet(Range(f) \cup Range(g)) 
      /\ Cardinality(Range(f) \cup Range(g)) <= Cardinality(Range(f)) + Cardinality(Range(g))
  <2>1. Cardinality(Range(f) \cap Range(g)) \in Nat
    BY <1>4, FS_Intersection, FS_CardinalityType
  <2>2. /\ IsFiniteSet(Range(f) \cup Range(g))
        /\ Cardinality(Range(f) \cup Range(g)) = Cardinality(Range(f)) + Cardinality(Range(g))
                                                 - Cardinality(Range(f) \cap Range(g))
    BY <1>2, <1>4, FS_Union
  <2> QED BY <2>1, <2>2, <1>2, <1>4
<1>7. Cardinality(Locks) = m + n
  <2>1. PICK k \in Nat : k = m + n
    BY <1>5
  <2>2. Cardinality(1..k) = IF 1 > k THEN 0 ELSE k - 1 + 1
    BY FS_Interval
  <2>3. Locks = 1..(m + n)
    BY DEF Locks, m, n
  <2> QED BY <2>1, <2>2, <2>3
<1>8. Locks \ used # {}
  <2> SUFFICES ASSUME Locks \subseteq used PROVE FALSE
    OBVIOUS
  <2>1. 0 \notin Locks
    BY <1>5 DEF Locks, m, n
  <2>2. Locks \in SUBSET (Range(f) \cup Range(g))
    BY <1>1, <2>1
  <2>3. Cardinality(Locks) <= Cardinality(Range(f) \cup Range(g))
    BY <1>6, <2>2, FS_Subset
  <2>4. Cardinality(Range(f) \cup Range(g)) \in Nat
    BY <1>6, FS_CardinalityType
  <2> QED BY <1>2, <1>4, <1>5, <1>6, <1>7, <2>3, <2>4
<1>9. Locks \ used \in SUBSET Nat
  BY <1>5 DEF Locks, m, n
<1>10. Least(Locks \ used) \in Locks \ used
  BY <1>8, <1>9, LeastIn
<1> QED BY <1>10 DEF used

\* A rotation gets the circle's lock object, which is new when there was none.
LEMMA EnterFacts ==
  ASSUME RotsOK, lockOf \in [Circles -> Locks \cup {0}],
         NEW r \in Rotators, NEW c \in Circles, Enter(r, c)
  PROVE  \E l \in Locks :
           /\ lockOf[c] = l \/ (lockOf[c] = 0 /\ \A q \in Rotators : rot[q].lock # l)
           /\ rot'[r] = [NoRot EXCEPT !.at = "wait", !.circle = c, !.lock = l]
           /\ \A q \in Rotators : q # r => rot'[q] = rot[q]
           /\ lockOf' = [lockOf EXCEPT ![c] = l]
           /\ RotsOK' /\ lockOf' \in [Circles -> Locks \cup {0}] /\ rot[r].at = "idle"
<1> DEFINE used == Range(lockOf) \cup {rot[q].lock : q \in Rotators}
           l == IF lockOf[c] # 0 THEN lockOf[c] ELSE Least(Locks \ used)
           x == [NoRot EXCEPT !.at = "wait", !.circle = c, !.lock = l]
<1>1. l \in Locks /\ (lockOf[c] = l \/ (lockOf[c] = 0 /\ \A q \in Rotators : rot[q].lock # l))
  BY FreshLock
<1>2. rot' = [rot EXCEPT ![r] = x] /\ lockOf' = [lockOf EXCEPT ![c] = l] /\ rot[r].at = "idle"
  BY DEF Enter
<1> HIDE DEF l
<1>3. "wait" \in RotAt /\ "wait" \notin Inside
  BY DEF RotAt, Inside
<1>4. NoRot \in RotType
  BY NoRotOK DEF RotOK
<1>5. RotOK(x)
  <2>1. x \in RotType /\ x.at = "wait" /\ x.circle = c /\ x.lock = l
    BY <1>1, <1>3, <1>4 DEF RotType
  <2> HIDE DEF x
  <2> QED BY <1>1, <1>3, <2>1 DEF RotOK
<1> HIDE DEF x
<1>6. RotsOK' /\ rot'[r] = x /\ \A q \in Rotators : q # r => rot'[q] = rot[q]
  BY <1>2, <1>5, RotStays
<1>7. lockOf' \in [Circles -> Locks \cup {0}]
  BY <1>1, <1>2
<1> QED BY <1>1, <1>2, <1>6, <1>7 DEF x

-------------------------------------------------------------------------------
(* The types are kept.                                                     *)

\* The types of everything but the history alone.
Core ==
  /\ RowsOK /\ alive \subseteq Nodes /\ fails \in [Nodes -> 0..Threshold] /\ HcOK(hc)
  /\ RotsOK /\ lockOf \in [Circles -> Locks \cup {0}] /\ op \in [Ops -> OpType]
  /\ file \in Configs /\ live \in LiveType /\ LeftOK(left) /\ dropped \subseteq Circles

LEMMA TickType == ASSUME Core, Tick PROVE Core'
<1> USE DEF Core
<1>1. dropped' \subseteq Circles /\ UNCHANGED <<rows, alive, fails, hc, op, xray>>
  BY DEF Tick
<1>2. CASE UNCHANGED <<rot, left>> /\ lockOf' \in [Circles -> Locks \cup {0}]
  BY <1>1, <1>2 DEF rows, xray, RowsOK, RotsOK
<1>3. CASE Spend("rotate") /\ \E c \in Circles : Enter("tick", c)
  <2>1. RotsOK' /\ lockOf' \in [Circles -> Locks \cup {0}]
    BY <1>3, EnterFacts DEF Rotators
  <2>2. LeftOK(left')
    BY <1>3, SpendType, LimitsDomain
  <2> QED BY <1>1, <2>1, <2>2 DEF rows, xray, RowsOK
<1> QED BY <1>2, <1>3 DEF Tick

LEMMA RotateNowType == ASSUME Core, RotateNow PROVE Core'
<1> USE DEF Core
<1>1. RotsOK' /\ lockOf' \in [Circles -> Locks \cup {0}]
  BY EnterFacts DEF RotateNow, Rotators
<1>2. LeftOK(left')
  BY SpendType, LimitsDomain DEF RotateNow
<1> QED BY <1>1, <1>2 DEF RotateNow, rows, xray, RowsOK

\* What a rotation leaves alone, whatever it does to its own state.
LEMMA RotFrame ==
  ASSUME Core, RotsOK', RowsOK', file' \in Configs, live' \in LiveType,
         UNCHANGED <<alive, fails, hc, lockOf, op, left, dropped>>
  PROVE  Core'
BY DEF Core

LEMMA OrdersType == ASSUME RowsOK, NEW c \in Circles PROVE Orders(c) \subseteq Seq(Nodes)
<1> DEFINE ids  == circle[c].ids
           n    == Len(ids)
           cur  == IF circle[c].idx < n THEN circle[c].idx ELSE 0
           walk == [i \in 1..(n - 1) |-> ids[((cur + i) % n) + 1]]
           S    == {m \in Nodes \ KnownBad : Enabled(m)}
           ws   == IF Mode[c] = "sequential" THEN {walk}
                   ELSE {s \in [1..(n - 1) -> Range(walk)] : Range(s) = Range(walk)}
<1>1. ids \in Seq(Nodes) /\ n \in Nat /\ cur \in Nat
  BY DEF RowsOK, CircleType
<1>2. Orders(c) = {Within(s, S) : s \in ws}
  BY DEF Orders
<1>3. CASE n = 0
  <2>1. 1..(n - 1) = {}
    BY <1>3
  <2>2. \A s \in ws : s \in [{} -> {}]
    <3>1. walk \in [{} -> {}] /\ Range(walk) = {}
      BY <2>1 DEF Range
    <3> QED BY <2>1, <3>1
  <2>3. \A s \in ws : s \in Seq(Nodes)
    <3>1. \A s \in [{} -> {}] : s = <<>>
      OBVIOUS
    <3>2. <<>> \in Seq(Nodes)
      OBVIOUS
    <3> QED BY <2>2, <3>1, <3>2
  <2> HIDE DEF ws, S
  <2>4. \A s \in ws : Within(s, S) \in Seq(Nodes)
    BY <2>3, WithinFacts
  <2> QED BY <1>2, <2>4
<1>4. CASE n # 0
  <2>1. \A i \in 1..(n - 1) : ids[((cur + i) % n) + 1] \in Nodes
    <3> TAKE i \in 1..(n - 1)
    <3>1. (cur + i) % n \in 0..(n - 1)
      <4> HIDE DEF cur, n
      <4>1. cur + i \in Nat /\ n \in Nat \ {0}
        BY <1>1, <1>4
      <4> QED BY <4>1
    <3>2. ((cur + i) % n) + 1 \in 1..n
      <4> HIDE DEF cur, n
      <4> QED BY <1>1, <3>1
    <3> HIDE DEF cur
    <3> QED BY <1>1, <3>2
  <2> HIDE DEF cur
  <2>2. walk \in [1..(n - 1) -> Nodes] /\ n - 1 \in Nat
    BY <1>1, <1>4, <2>1
  <2> HIDE DEF walk
  <2>3. Range(walk) \subseteq Nodes
    BY <2>2 DEF Range
  <2>4. \A s \in ws : s \in [1..(n - 1) -> Nodes]
    BY <2>2, <2>3
  <2>5. \A s \in ws : s \in Seq(Nodes)
    BY <2>2, <2>4
  <2> HIDE DEF ws, S
  <2>6. \A s \in ws : Within(s, S) \in Seq(Nodes)
    BY <2>5, WithinFacts
  <2> QED BY <1>2, <2>6
<1> QED BY <1>3, <1>4

LEMMA SnapshotFacts ==
  ASSUME Core, NEW r \in Rotators, Snapshot(r)
  PROVE  /\ Core' /\ rot[r].at = "wait"
         /\ \A q \in Rotators : q # r => rot'[q] = rot[q]
         /\ \A q \in Rotators : ~(rot[q].at \in Inside /\ rot[q].lock = rot[r].lock)
         /\ \/ rot'[r].at = "idle"
            \/ rot'[r].at \in Inside /\ rot'[r].circle = rot[r].circle /\ rot'[r].lock = rot[r].lock
<1> DEFINE c == rot[r].circle
<1>1. /\ rot[r].at = "wait"
      /\ \A q \in Rotators : ~(rot[q].at \in Inside /\ rot[q].lock = rot[r].lock)
      /\ UNCHANGED <<rows, alive, fails, hc, lockOf, op, xray, left, dropped>>
  BY DEF Snapshot
<1>2. RotsOK /\ RowsOK /\ RotOK(rot[r]) /\ c \in Circles
  BY <1>1 DEF Core, RotsOK, RotOK
<1>3. UNCHANGED <<node, seen, circle, active, file, live>>
  BY <1>1 DEF rows, xray
<1>4. RowsOK' /\ file' \in Configs /\ live' \in LiveType
  BY <1>3 DEF Core, RowsOK
<1>5. CASE Done(r, FALSE)
  BY <1>1, <1>2, <1>4, <1>5, DoneType, RotFrame
<1>6. ASSUME NEW s \in Orders(c), s # <<>>,
             rot' = [rot EXCEPT ![r].at = "probe", ![r].cands = s]
      PROVE  /\ Core' /\ rot'[r].at \in Inside
             /\ rot'[r].circle = rot[r].circle /\ rot'[r].lock = rot[r].lock
             /\ \A q \in Rotators : q # r => rot'[q] = rot[q]
  <2> DEFINE x == [rot[r] EXCEPT !.at = "probe", !.cands = s]
  <2>1. rot' = [rot EXCEPT ![r] = x]
    BY <1>6
  <2>2. s \in Seq(Nodes)
    BY <1>2, OrdersType
  <2>3. "probe" \in Inside /\ "probe" \in RotAt
    BY DEF Inside, RotAt
  <2>4. x \in RotType /\ x.at = "probe" /\ x.circle = c /\ x.lock = rot[r].lock /\ x.cands = s
    BY <1>2, <2>2, <2>3 DEF RotOK, RotType
  <2> HIDE DEF x
  <2>5. RotOK(x)
    BY <1>1, <1>2, <1>6, <2>3, <2>4 DEF RotOK
  <2>6. RotsOK' /\ rot'[r] = x /\ \A q \in Rotators : q # r => rot'[q] = rot[q]
    BY <1>2, <2>1, <2>5, RotStays
  <2> QED BY <1>1, <1>4, <2>3, <2>4, <2>6, RotFrame
<1>7. Done(r, FALSE) \/ \E s \in Orders(c) :
          s # <<>> /\ rot' = [rot EXCEPT ![r].at = "probe", ![r].cands = s]
  BY DEF Snapshot
<1> QED BY <1>1, <1>2, <1>5, <1>6, <1>7, DoneType

\* What a step of a rotation past its lock does to its own state and to the others'.
Moves(r) ==
  /\ rot[r].at \in Inside
  /\ \A q \in Rotators : q # r => rot'[q] = rot[q]
  /\ \/ rot'[r].at = "idle"
     \/ rot'[r].at \in Inside /\ rot'[r].circle = rot[r].circle /\ rot'[r].lock = rot[r].lock

LEMMA DoneMoves ==
  ASSUME RotsOK, NEW r \in Rotators, rot[r].at \in Inside, NEW b \in BOOLEAN, Done(r, b)
  PROVE  RotsOK' /\ Moves(r)
BY DoneType DEF Moves

LEMMA GoMoves ==
  ASSUME RotsOK, NEW r \in Rotators, rot[r].at \in Inside, NEW l \in Inside, Go(r, l)
  PROVE  RotsOK' /\ Moves(r)
<1>1. /\ RotsOK' /\ rot'[r] = [rot[r] EXCEPT !.at = l]
      /\ \A q \in Rotators : q # r => rot'[q] = rot[q]
  BY GoType
<1>2. rot[r] \in RotType
  BY DEF RotsOK
<1>3. rot'[r].at = l /\ rot'[r].circle = rot[r].circle /\ rot'[r].lock = rot[r].lock
  BY <1>1, <1>2 DEF RotType
<1> QED BY <1>1, <1>3 DEF Moves

LEMMA InsideLabels ==
  /\ Inside = {"probe", "write", "swap", "override", "sync", "reload", "pin"}
  /\ Inside \subseteq RotAt
BY DEF Inside, RotAt

\* The head of the candidates of a rotation past its lock is a node.
LEMMA HeadNode ==
  ASSUME RotsOK, NEW r \in Rotators, rot[r].at \in Inside
  PROVE  Head(rot[r].cands) \in Nodes /\ rot[r].circle \in Circles
<1>1. RotOK(rot[r])
  BY DEF RotsOK
<1>2. rot[r].cands \in Seq(Nodes) /\ rot[r].cands # <<>> /\ rot[r].at # "idle"
  BY <1>1, InsideLabels DEF RotOK, RotType
<1> QED BY <1>1, <1>2 DEF RotOK

LEMMA ProbeFacts ==
  ASSUME Core, NEW r \in Rotators, Probe(r) PROVE Core' /\ Moves(r)
<1>1. rot[r].at = "probe" /\ UNCHANGED <<rows, alive, fails, hc, lockOf, op, xray, left, dropped>>
  BY DEF Probe
<1>2. RotsOK /\ RotOK(rot[r]) /\ rot[r].at \in Inside
  BY <1>1, InsideLabels DEF Core, RotsOK
<1>3. RowsOK' /\ file' \in Configs /\ live' \in LiveType
  BY <1>1 DEF Core, RowsOK, rows, xray
<1>4. CASE Go(r, "write")
  BY <1>1, <1>2, <1>3, <1>4, GoMoves, RotFrame, InsideLabels
<1>5. CASE Done(r, FALSE)
  BY <1>1, <1>2, <1>3, <1>5, DoneMoves, RotFrame
<1>6. CASE Len(rot[r].cands) # 1 /\ rot' = [rot EXCEPT ![r].cands = Tail(@)]
  <2> DEFINE s == Tail(rot[r].cands)
             x == [rot[r] EXCEPT !.cands = s]
  <2>1. rot[r].cands \in Seq(Nodes) /\ rot[r].cands # <<>>
    BY <1>2 DEF RotOK, RotType
  <2>2. s \in Seq(Nodes) /\ s # <<>>
    <3>1. Len(rot[r].cands) \in Nat \ {0, 1}
      BY <1>6, <2>1
    <3>2. s \in Seq(Nodes) /\ Len(s) = Len(rot[r].cands) - 1
      BY <2>1
    <3>3. Len(<<>>) = 0
      OBVIOUS
    <3> HIDE DEF s
    <3>4. Len(s) # 0
      BY <3>1, <3>2
    <3> QED BY <3>2, <3>3, <3>4
  <2>3. rot' = [rot EXCEPT ![r] = x]
    BY <1>6 DEF Core, RotsOK
  <2> HIDE DEF s
  <2>4. x \in RotType /\ x.at = "probe" /\ x.circle = rot[r].circle /\ x.lock = rot[r].lock
        /\ x.cands = s
    BY <1>1, <1>2, <2>2 DEF RotOK, RotType
  <2> HIDE DEF x
  <2>5. RotOK(x)
    BY <1>1, <1>2, <2>2, <2>4 DEF RotOK
  <2>6. RotsOK' /\ rot'[r] = x /\ \A q \in Rotators : q # r => rot'[q] = rot[q]
    BY <1>2, <2>3, <2>5, RotStays
  <2> QED BY <1>1, <1>2, <1>3, <2>4, <2>6, RotFrame DEF Moves
<1> QED BY <1>4, <1>5, <1>6 DEF Probe

LEMMA WriteFacts ==
  ASSUME Core, NEW r \in Rotators, Write(r) PROVE Core' /\ Moves(r)
<1> DEFINE c == rot[r].circle
           n == Head(rot[r].cands)
<1>1. /\ rot[r].at = "write"
      /\ UNCHANGED <<node, seen, alive, fails, hc, lockOf, op, xray, left, dropped>>
  BY DEF Write
<1>2. RotsOK /\ rot[r].at \in Inside /\ n \in Nodes /\ c \in Circles /\ RowsOK
  BY <1>1, InsideLabels, HeadNode DEF Core
<1>3. file' \in Configs /\ live' \in LiveType
  BY <1>1 DEF Core, xray
<1>4. CASE Done(r, FALSE) /\ UNCHANGED <<circle, active>>
  <2>1. RowsOK'
    BY <1>1, <1>2, <1>4 DEF RowsOK
  <2> QED BY <1>1, <1>2, <1>3, <1>4, <2>1, DoneMoves, RotFrame
<1>5. ASSUME NEW i \in 1..Len(circle[c].ids), circle' = [circle EXCEPT ![c].idx = i - 1],
             active' = n, Go(r, "swap")
      PROVE  Core' /\ Moves(r)
  <2>1. i - 1 \in Nat
    <3>1. circle[c].ids \in Seq(Nodes)
      BY <1>2 DEF RowsOK, CircleType
    <3> QED BY <3>1
  <2>2. circle' \in [Circles -> CircleType]
    BY <1>2, <1>5, <2>1 DEF RowsOK, CircleType
  <2>3. RowsOK'
    BY <1>1, <1>2, <1>5, <2>2 DEF RowsOK
  <2> QED BY <1>1, <1>2, <1>3, <1>5, <2>3, GoMoves, RotFrame, InsideLabels
<1> QED BY <1>4, <1>5 DEF Write

LEMMA PinToType ==
  ASSUME live \in LiveType, NEW n \in Nodes \cup {0}, NEW open, PinTo(n, open)
  PROVE  live' \in LiveType
BY DEF PinTo, LiveType

LEMMA LoadType == ASSUME NEW c \in Configs, SlowApi \in BOOLEAN, Load(c) PROVE live' \in LiveType
BY DEF Load, LiveType

LEMMA SwapFacts ==
  ASSUME Core, NEW r \in Rotators, Swap(r) PROVE Core' /\ Moves(r)
<1>1. rot[r].at = "swap" /\ UNCHANGED <<rows, alive, fails, hc, lockOf, op, file, left, dropped>>
  BY DEF Swap
<1>2. RotsOK /\ rot[r].at \in Inside /\ RowsOK' /\ file' \in Configs /\ live \in LiveType
  BY <1>1, InsideLabels DEF Core, RowsOK, rows
<1>3. CASE Done(r, TRUE) /\ UNCHANGED live
  BY <1>1, <1>2, <1>3, DoneMoves, RotFrame
<1>4. ASSUME NEW open \in BOOLEAN, live' = [live EXCEPT !.api = open],
             NEW l \in {"override", "reload"}, Go(r, l)
      PROVE  Core' /\ Moves(r)
  <2>1. live' \in LiveType
    BY <1>2, <1>4 DEF LiveType
  <2> QED BY <1>1, <1>2, <1>4, <2>1, GoMoves, RotFrame, InsideLabels
<1>5. \/ Done(r, TRUE) /\ UNCHANGED live
      \/ \E open \in BOOLEAN, l \in {"override", "reload"} :
            live' = [live EXCEPT !.api = open] /\ Go(r, l)
  BY DEF Swap
<1> QED BY <1>3, <1>4, <1>5

LEMMA OverrideFacts ==
  ASSUME Core, NEW r \in Rotators, Override(r) PROVE Core' /\ Moves(r)
<1>1. /\ rot[r].at = "override"
      /\ UNCHANGED <<rows, alive, fails, hc, lockOf, op, file, left, dropped>>
  BY DEF Override
<1>2. /\ RotsOK /\ RotOK(rot[r]) /\ rot[r].at \in Inside /\ RowsOK' /\ file' \in Configs
      /\ live \in LiveType /\ Head(rot[r].cands) \in Nodes
  BY <1>1, InsideLabels, HeadNode DEF Core, RowsOK, rows, RotsOK
<1>3. live' \in LiveType
  BY <1>2, PinToType DEF Override
<1>4. CASE Go(r, "sync")
  BY <1>1, <1>2, <1>3, <1>4, GoMoves, RotFrame, InsideLabels
<1>5. CASE rot' = [rot EXCEPT ![r].at = "reload", ![r].pin = TRUE]
  <2> DEFINE x == [rot[r] EXCEPT !.at = "reload", !.pin = TRUE]
  <2>1. rot' = [rot EXCEPT ![r] = x]
    BY <1>5
  <2>2. "reload" \in Inside /\ "reload" \in RotAt
    BY InsideLabels
  <2>3. x \in RotType /\ x.at = "reload" /\ x.circle = rot[r].circle /\ x.lock = rot[r].lock
        /\ x.cands = rot[r].cands
    BY <1>2, <2>2 DEF RotOK, RotType
  <2> HIDE DEF x
  <2>4. RotOK(x)
    BY <1>1, <1>2, <2>2, <2>3 DEF RotOK
  <2>5. RotsOK' /\ rot'[r] = x /\ \A q \in Rotators : q # r => rot'[q] = rot[q]
    BY <1>2, <2>1, <2>4, RotStays
  <2> QED BY <1>1, <1>2, <1>3, <2>2, <2>3, <2>5, RotFrame DEF Moves
<1> QED BY <1>4, <1>5 DEF Override

LEMMA SyncFacts ==
  ASSUME Core, NEW r \in Rotators, Sync(r) PROVE Core' /\ Moves(r)
<1>1. /\ rot[r].at = "sync" /\ file' = Config(active) /\ Done(r, TRUE)
      /\ UNCHANGED <<rows, alive, fails, hc, lockOf, op, live, left, dropped>>
  BY DEF Sync
<1>2. RotsOK /\ rot[r].at \in Inside /\ RowsOK' /\ live' \in LiveType /\ file' \in Configs
  BY <1>1, InsideLabels, ConfigType DEF Core, RowsOK, rows
<1> QED BY <1>1, <1>2, DoneMoves, RotFrame

LEMMA FullReloadFacts ==
  ASSUME Core, NEW r \in Rotators, FullReload(r) PROVE Core' /\ Moves(r)
<1>1. /\ rot[r].at = "reload" /\ file' = Config(active)
      /\ UNCHANGED <<rows, alive, fails, hc, lockOf, op, left, dropped>>
  BY DEF FullReload
<1>2. RotsOK /\ rot[r].at \in Inside /\ RowsOK' /\ live \in LiveType /\ file' \in Configs
  BY <1>1, InsideLabels, ConfigType DEF Core, RowsOK, rows
<1>3. live' \in LiveType
  BY <1>2, LoadType, FlagsAssumption DEF FullReload
<1>4. CASE Go(r, "pin")
  BY <1>1, <1>2, <1>3, <1>4, GoMoves, RotFrame, InsideLabels
<1>5. CASE Done(r, TRUE)
  BY <1>1, <1>2, <1>3, <1>5, DoneMoves, RotFrame
<1> QED BY <1>4, <1>5 DEF FullReload

LEMMA RepinFacts ==
  ASSUME Core, NEW r \in Rotators, Repin(r) PROVE Core' /\ Moves(r)
<1>1. /\ rot[r].at = "pin" /\ Done(r, TRUE)
      /\ UNCHANGED <<rows, alive, fails, hc, lockOf, op, file, left, dropped>>
  BY DEF Repin
<1>2. /\ RotsOK /\ rot[r].at \in Inside /\ RowsOK' /\ file' \in Configs
      /\ live \in LiveType /\ Head(rot[r].cands) \in Nodes
  BY <1>1, InsideLabels, HeadNode DEF Core, RowsOK, rows
<1>3. live' \in LiveType
  BY <1>2, PinToType DEF Repin
<1> QED BY <1>1, <1>2, <1>3, DoneMoves, RotFrame

LEMMA DeadlineFacts ==
  ASSUME Core, NEW r \in Rotators, Deadline(r) PROVE Core' /\ Moves(r)
<1>1. /\ rot[r].at \in Inside /\ Done(r, FALSE) /\ LeftOK(left')
      /\ UNCHANGED <<rows, alive, fails, hc, lockOf, op, xray, dropped>>
  BY SpendType, LimitsDomain DEF Deadline, Core
<1>2. RotsOK' /\ Moves(r)
  BY <1>1, DoneMoves DEF Core
<1> QED BY <1>1, <1>2 DEF Core, RowsOK, rows, xray

\* What a step of the health checker leaves alone.
HealthFrame ==
  /\ file' \in Configs /\ live' \in LiveType /\ RowsOK' /\ HcOK(hc)'
  /\ fails' \in [Nodes -> 0..Threshold]
  /\ UNCHANGED <<alive, op, left, dropped>>

\* The checker goes on with another candidate list, or without.
LEMMA HcGoes ==
  ASSUME HcOK(hc), NEW l \in HcAt, l # "idle" => hc.node \in Nodes,
         NEW s \in Seq(Nodes), l = "commit" => s # <<>>,
         hc' = [hc EXCEPT !.at = l, !.cands = s]
  PROVE  HcOK(hc)'
<1> DEFINE x == [hc EXCEPT !.at = l, !.cands = s]
<1>1. x \in HcType /\ x.at = l /\ x.cands = s /\ x.node = hc.node
  BY DEF HcOK, HcType
<1> HIDE DEF x
<1>2. HcOK(x)
  BY <1>1 DEF HcOK
<1>3. hc' = x
  BY DEF x
<1> QED BY <1>2, <1>3 DEF HcOK

LEMMA HcMoves ==
  ASSUME HcOK(hc), NEW l \in HcAt \ {"commit"}, l # "idle" => hc.node \in Nodes,
         hc' = [hc EXCEPT !.at = l]
  PROVE  HcOK(hc)'
<1>1. hc.cands \in Seq(Nodes) /\ hc' = [hc EXCEPT !.at = l, !.cands = hc.cands]
  BY DEF HcOK, HcType
<1> QED BY <1>1, HcGoes

LEMMA FailsType ==
  ASSUME fails \in [Nodes -> 0..Threshold], NEW n
  PROVE  [fails EXCEPT ![n] = 0] \in [Nodes -> 0..Threshold]
<1>1. Threshold \in Nat
  BY LimitsAssumption
<1>2. 0 \in 0..Threshold
  BY <1>1
<1> QED BY <1>2

LEMMA HealthType == ASSUME Core, HealthStep PROVE Core'
<1>0. /\ RowsOK /\ HcOK(hc) /\ fails \in [Nodes -> 0..Threshold] /\ file \in Configs
      /\ live \in LiveType
  BY DEF Core
<1>0a. hc.cands \in Seq(Nodes) /\ hc.at \in HcAt /\ (hc.at # "idle" => hc.node \in Nodes)
       /\ (hc.at = "commit" => hc.cands # <<>>)
  BY <1>0 DEF HcOK, HcType
<1>1. ASSUME HealthFrame, UNCHANGED <<rot, lockOf>> PROVE Core'
  BY <1>1 DEF Core, HealthFrame, RotsOK
<1>2. CASE Check
  <2>1. active \in Nodes
    BY <1>2 DEF Check, Enabled
  <2> DEFINE x == [hc EXCEPT !.at = "probe", !.node = active]
  <2>2. x \in HcType /\ x.at = "probe" /\ x.node = active
    BY <1>0, <2>1 DEF HcOK, HcType, HcAt
  <2> HIDE DEF x
  <2>3. HcOK(x)
    BY <2>1, <2>2 DEF HcOK
  <2>4. hc' = x
    BY <1>2 DEF Check, x
  <2>5. HealthFrame
    BY <1>0, <1>2, <2>3, <2>4 DEF Check, HealthFrame, RowsOK, rows, xray, HcOK
  <2> QED BY <1>1, <1>2, <2>5 DEF Check
<1>3. CASE Record
  <2>1. hc.at = "probe" /\ UNCHANGED <<node, circle, active, alive, rot, lockOf, op, xray, left, dropped>>
    BY <1>3 DEF Record
  <2>2. hc.node \in Nodes
    BY <1>0a, <2>1
  <2>3. PICK l \in {"tier", "idle"} : hc' = [hc EXCEPT !.at = l]
    BY <1>3 DEF Record
  <2>4. HcOK(hc)'
    BY <1>0, <2>2, <2>3, HcMoves DEF HcAt
  <2>5. seen' \subseteq Nodes
    BY <1>0, <1>3, <2>2 DEF Record, RowsOK
  <2>6. fails' \in [Nodes -> 0..Threshold]
    <3>1. fails[hc.node] \in 0..Threshold /\ Threshold \in Nat
      BY <1>0, <2>2, LimitsAssumption
    <3>2. (IF fails[hc.node] < Threshold THEN fails[hc.node] + 1 ELSE Threshold) \in 0..Threshold
      BY <3>1
    <3>3. 0 \in 0..Threshold
      BY <3>1
    <3>4. PICK k \in 0..Threshold : fails' = [fails EXCEPT ![hc.node] = k]
      BY <1>3, <3>2, <3>3 DEF Record
    <3> QED BY <1>0, <3>4
  <2>7. HealthFrame
    BY <1>0, <2>1, <2>4, <2>5, <2>6 DEF HealthFrame, RowsOK, xray
  <2> QED BY <1>1, <2>1, <2>7
<1>4. CASE Tier
  <2> DEFINE c     == CircleOf(hc.node)
             cands == Within(FailoverList, {m \in Nodes \ {hc.node} : Enabled(m)})
  <2>1. hc.at = "tier" /\ UNCHANGED <<rows, alive, fails, op, xray, left, dropped>>
    BY <1>4 DEF Tier
  <2>2. cands \in Seq(Nodes)
    BY WithinFacts, ListsAssumption
  <2>3. PICK l \in {"rotating", "list"} : hc' = [hc EXCEPT !.at = l, !.cands = cands]
    BY <1>4 DEF Tier
  <2> HIDE DEF cands
  <2>4. HcOK(hc)'
    BY <1>0, <1>0a, <2>1, <2>2, <2>3, HcGoes DEF HcAt
  <2>5. HealthFrame
    BY <1>0, <2>1, <2>4 DEF HealthFrame, RowsOK, rows, xray
  <2>6. c \in Circles \cup {0}
    BY <1>0, CircleOfType
  <2>7. CASE c # 0
    <3>1. Enter("failover", c) /\ "failover" \in Rotators
      BY <1>4, <2>7 DEF Tier, Rotators
    <3>2. RotsOK' /\ lockOf' \in [Circles -> Locks \cup {0}]
      BY <2>6, <2>7, <3>1, EnterFacts DEF Core
    <3> QED BY <2>5, <3>2 DEF Core, HealthFrame
  <2>8. CASE c = 0
    <3>1. UNCHANGED <<rot, lockOf>>
      BY <1>4, <2>8 DEF Tier
    <3> QED BY <1>1, <2>5, <3>1
  <2> QED BY <2>7, <2>8
<1>5. ASSUME Recovered, hc.at # "idle" PROVE HcOK(hc)' /\ fails' \in [Nodes -> 0..Threshold]
  BY <1>0, <1>0a, <1>5, HcMoves, FailsType DEF Recovered, HcAt
<1>6. CASE TierDone
  <2>1. hc.at = "rotating" /\ UNCHANGED <<rows, alive, rot, lockOf, op, xray, left, dropped>>
    BY <1>6 DEF TierDone
  <2>2. HcOK(hc)' /\ fails' \in [Nodes -> 0..Threshold]
    BY <1>0, <1>0a, <1>5, <1>6, <2>1, HcMoves DEF TierDone, HcAt
  <2>3. HealthFrame
    BY <1>0, <2>1, <2>2 DEF HealthFrame, RowsOK, rows, xray
  <2> QED BY <1>1, <2>1, <2>3
<1>7. CASE ListProbe
  <2>1. hc.at = "list" /\ UNCHANGED <<rows, alive, fails, rot, lockOf, op, xray, left, dropped>>
    BY <1>7 DEF ListProbe
  <2>2. ASSUME hc.cands = <<>>, hc' = [hc EXCEPT !.at = "idle"] PROVE HcOK(hc)'
    BY <1>0, <2>2, HcMoves DEF HcAt
  <2>3. ASSUME hc.cands # <<>>, hc' = [hc EXCEPT !.at = "commit"] PROVE HcOK(hc)'
    <3>1. hc' = [hc EXCEPT !.at = "commit", !.cands = hc.cands]
      BY <1>0, <2>3 DEF HcOK, HcType
    <3> QED BY <1>0, <1>0a, <2>1, <2>3, <3>1, HcGoes DEF HcAt
  <2>4. ASSUME hc.cands # <<>>, hc' = [hc EXCEPT !.cands = Tail(@)] PROVE HcOK(hc)'
    <3>1. Tail(hc.cands) \in Seq(Nodes)
      BY <1>0a, <2>4
    <3>2. hc' = [hc EXCEPT !.at = "list", !.cands = Tail(hc.cands)]
      BY <1>0, <2>1, <2>4 DEF HcOK, HcType
    <3> QED BY <1>0, <1>0a, <2>1, <3>1, <3>2, HcGoes DEF HcAt
  <2>5. HcOK(hc)'
    BY <1>7, <2>2, <2>3, <2>4 DEF ListProbe
  <2>6. HealthFrame
    BY <1>0, <2>1, <2>5 DEF HealthFrame, RowsOK, rows, xray
  <2> QED BY <1>1, <2>1, <2>6
<1>8. CASE ListCommit
  <2>1. hc.at = "commit"
        /\ UNCHANGED <<node, seen, circle, alive, rot, lockOf, op, xray, left, dropped>>
    BY <1>8 DEF ListCommit
  <2>2. Tail(hc.cands) \in Seq(Nodes) /\ Head(hc.cands) \in Nodes
    BY <1>0a, <2>1
  <2>3. active' \in Nodes \cup {0}
    BY <1>0, <1>8, <2>2 DEF ListCommit, RowsOK
  <2>4. ASSUME hc' = [hc EXCEPT !.at = "list", !.cands = Tail(@)], UNCHANGED fails
        PROVE  HcOK(hc)' /\ fails' \in [Nodes -> 0..Threshold]
    <3>1. hc' = [hc EXCEPT !.at = "list", !.cands = Tail(hc.cands)]
      BY <2>4
    <3> QED BY <1>0, <1>0a, <2>1, <2>2, <2>4, <3>1, HcGoes DEF HcAt
  <2>5. ASSUME Recovered PROVE HcOK(hc)' /\ fails' \in [Nodes -> 0..Threshold]
    BY <1>5, <2>1, <2>5
  <2>6. ASSUME hc' = [hc EXCEPT !.at = "apply"], UNCHANGED fails
        PROVE  HcOK(hc)' /\ fails' \in [Nodes -> 0..Threshold]
    BY <1>0, <1>0a, <2>1, <2>6, HcMoves DEF HcAt
  <2>7. HcOK(hc)' /\ fails' \in [Nodes -> 0..Threshold]
    BY <1>0, <1>8, <2>4, <2>5, <2>6 DEF ListCommit
  <2>8. HealthFrame
    BY <1>0, <2>1, <2>3, <2>7 DEF HealthFrame, RowsOK, xray
  <2> QED BY <1>1, <2>1, <2>8
<1>9. CASE ListApply
  <2>1. /\ hc.at = "apply" /\ file' = PlainConfig(active) /\ Load(file') /\ Recovered
        /\ UNCHANGED <<rows, alive, rot, lockOf, op, left, dropped>>
    BY <1>9 DEF ListApply
  <2>2. file' \in Configs
    BY <1>0, <2>1, ConfigType DEF RowsOK
  <2>3. live' \in LiveType
    BY <2>1, <2>2, LoadType, FlagsAssumption
  <2>4. HealthFrame
    BY <1>0, <1>5, <2>1, <2>2, <2>3 DEF HealthFrame, RowsOK, rows
  <2> QED BY <1>1, <2>1, <2>4
<1> QED BY <1>2, <1>3, <1>4, <1>6, <1>7, <1>8, <1>9 DEF HealthStep

LEMMA SweepType == ASSUME Core, Sweep PROVE Core'
BY DEF Sweep, Core, RowsOK, RotsOK, xray, HcOK

LEMMA OpGoType ==
  ASSUME op \in [Ops -> OpType], NEW o \in Ops, NEW l \in OpAt, NEW n \in Nodes \cup {0},
         OpGo(o, l, n)
  PROVE  /\ op' \in [Ops -> OpType] /\ op'[o] = [at |-> l, node |-> n]
         /\ \A p \in Ops : p # o => op'[p] = op[p]
<1>1. [at |-> l, node |-> n] \in OpType
  BY DEF OpType
<1> QED BY <1>1 DEF OpGo

\* What a step of a request leaves alone.
LEMMA OpFrame ==
  ASSUME Core, RowsOK', op' \in [Ops -> OpType], file' \in Configs, live' \in LiveType,
         UNCHANGED <<alive, fails, hc, rot, lockOf, left, dropped>>
  PROVE  Core'
BY DEF Core, RotsOK, HcOK

LEMMA SurvivorType == ASSUME RowsOK PROVE Survivor = 0 \/ (Survivor \in Nodes /\ node[Survivor] = "on")
<1> DEFINE on == {n \in Nodes : Enabled(n)}
<1>1. on \in SUBSET Nat /\ on \cap seen \in SUBSET Nat
  BY NodesAssumption
<1>2. CASE on = {}
  BY <1>2 DEF Survivor
<1>3. CASE on # {}
  <2>1. Least(on) \in on /\ (on \cap seen # {} => Least(on \cap seen) \in on)
    BY <1>1, <1>3, LeastIn
  <2>2. Survivor \in on
    BY <1>3, <2>1 DEF Survivor
  <2> QED BY <2>2 DEF Enabled
<1> QED BY <1>2, <1>3

LEMMA DeleteRows ==
  ASSUME RowsOK, NEW n \in Nodes,
         node' = [node EXCEPT ![n] = "gone"], seen' = seen \ {n},
         circle' = [c \in Circles |->
            LET ids == Within(circle[c].ids, Nodes \ {n})
            IN  IF n \notin Members(c) THEN circle[c]
                ELSE [circle[c] EXCEPT !.ids = ids,
                                       !.idx = IF @ >= Len(ids) THEN 0 ELSE @]],
         UNCHANGED active
  PROVE  RowsOK' /\ \A c \in Circles : Members(c)' \subseteq Members(c) \ {n}
<1>1. ASSUME NEW c \in Circles
      PROVE  circle'[c] \in CircleType /\ Members(c)' \subseteq Members(c) \ {n}
  <2> DEFINE ids == Within(circle[c].ids, Nodes \ {n})
  <2>1. circle[c] \in CircleType /\ circle[c].ids \in Seq(Nodes)
    BY DEF RowsOK, CircleType
  <2>2. ids \in Seq(Nodes) /\ Range(ids) = Range(circle[c].ids) \cap (Nodes \ {n})
    BY <2>1, WithinFacts
  <2>3. circle'[c] = IF n \notin Members(c) THEN circle[c]
                     ELSE [circle[c] EXCEPT !.ids = ids, !.idx = IF @ >= Len(ids) THEN 0 ELSE @]
    OBVIOUS
  <2> HIDE DEF ids
  <2>4. CASE n \notin Members(c)
    BY <2>1, <2>3, <2>4 DEF Members
  <2>5. CASE n \in Members(c)
    <3>1. PICK k \in Nat : circle'[c] = [circle[c] EXCEPT !.ids = ids, !.idx = k]
      <4>1. circle[c].idx \in Nat
        BY <2>1 DEF CircleType
      <4>2. circle'[c] = [circle[c] EXCEPT !.ids = ids,
                                           !.idx = IF circle[c].idx >= Len(ids) THEN 0
                                                   ELSE circle[c].idx]
        BY <2>1, <2>3, <2>5 DEF CircleType
      <4> QED BY <4>1, <4>2
    <3>2. circle'[c] \in CircleType /\ circle'[c].ids = ids
      BY <2>1, <2>2, <3>1 DEF CircleType
    <3> QED BY <2>2, <3>2 DEF Members
  <2> QED BY <2>4, <2>5
<1>2. circle' \in [Circles -> CircleType]
  BY <1>1
<1>3. node' \in [Nodes -> States]
  BY DEF RowsOK, States
<1> QED BY <1>1, <1>2, <1>3 DEF RowsOK

LEMMA RequestType ==
  ASSUME Core, NEW o \in Ops, SetActive(o) \/ DeleteNode(o) \/ OpStep(o) PROVE Core'
<1>0. /\ RowsOK /\ op \in [Ops -> OpType] /\ file \in Configs /\ live \in LiveType
      /\ op[o].node \in Nodes \cup {0} /\ active \in Nodes \cup {0}
  BY DEF Core, RowsOK, OpType
<1>1. CASE SetActive(o)
  <2>1. PICK n \in Nodes : active' = n /\ OpGo(o, "regen", n)
    BY <1>1 DEF SetActive
  <2>2. op' \in [Ops -> OpType]
    BY <1>0, <2>1, OpGoType DEF OpAt
  <2>3. RowsOK'
    BY <1>0, <1>1, <2>1 DEF SetActive, RowsOK
  <2> QED BY <1>0, <1>1, <2>2, <2>3, OpFrame DEF SetActive, xray
<1>2. CASE DeleteNode(o)
  <2>1. PICK n \in Nodes :
          /\ node' = [node EXCEPT ![n] = "gone"] /\ seen' = seen \ {n}
          /\ circle' = [c \in Circles |->
               LET ids == Within(circle[c].ids, Nodes \ {n})
               IN  IF n \notin Members(c) THEN circle[c]
                   ELSE [circle[c] EXCEPT !.ids = ids,
                                          !.idx = IF @ >= Len(ids) THEN 0 ELSE @]]
          /\ OpGo(o, "heal", n)
    BY <1>2 DEF DeleteNode
  <2>2. op' \in [Ops -> OpType]
    BY <1>0, <2>1, OpGoType DEF OpAt
  <2>3. UNCHANGED <<active, alive, fails, hc, rot, lockOf, xray, left, dropped>>
    BY <1>2 DEF DeleteNode
  <2>4. RowsOK'
    BY <1>0, <2>1, <2>3, DeleteRows
  <2> QED BY <1>0, <2>2, <2>3, <2>4, OpFrame DEF xray
<1>3. CASE Heal(o)
  <2>1. UNCHANGED <<node, seen, circle, alive, fails, hc, rot, lockOf, file, left, dropped>>
    BY <1>3 DEF Heal
  <2>2. active' \in Nodes \cup {0}
    BY <1>0, <1>3, SurvivorType DEF Heal
  <2>3. \E l \in OpAt, n \in Nodes \cup {0} : OpGo(o, l, n)
    BY <1>3, <2>2 DEF Heal, OpAt
  <2>4. op' \in [Ops -> OpType]
    BY <1>0, <2>3, OpGoType
  <2>5. live' \in LiveType
    BY <1>0, <1>3 DEF Heal, LiveType
  <2>6. RowsOK'
    BY <1>0, <2>1, <2>2 DEF RowsOK
  <2> QED BY <1>0, <2>1, <2>4, <2>5, <2>6, OpFrame
<1>4. CASE Regenerate(o)
  <2>1. UNCHANGED <<rows, alive, fails, hc, rot, lockOf, live, left, dropped>>
    BY <1>4 DEF Regenerate
  <2>2. file' \in Configs
    BY <1>0, <1>4, ConfigType DEF Regenerate
  <2>3. op' \in [Ops -> OpType]
    BY <1>0, <1>4, OpGoType DEF Regenerate, OpAt
  <2>4. RowsOK'
    BY <1>0, <2>1 DEF RowsOK, rows
  <2> QED BY <1>0, <2>1, <2>2, <2>3, <2>4, OpFrame
<1>5. CASE OpReload(o)
  <2>1. UNCHANGED <<rows, alive, fails, hc, rot, lockOf, file, left, dropped>>
    BY <1>5 DEF OpReload
  <2>2. live' \in LiveType
    BY <1>0, <1>5, LoadType, FlagsAssumption DEF OpReload
  <2>3. op' \in [Ops -> OpType]
    BY <1>0, <1>5, OpGoType DEF OpReload, OpAt
  <2>4. RowsOK'
    BY <1>0, <2>1 DEF RowsOK, rows
  <2> QED BY <1>0, <2>1, <2>2, <2>3, <2>4, OpFrame
<1>6. CASE OpPin(o)
  <2>1. UNCHANGED <<rows, alive, fails, hc, rot, lockOf, file, left, dropped>>
    BY <1>6 DEF OpPin
  <2>2. live' \in LiveType
    BY <1>0, <1>6, PinToType DEF OpPin
  <2>3. op' \in [Ops -> OpType]
    BY <1>0, <1>6, OpGoType DEF OpPin, OpAt
  <2>4. RowsOK'
    BY <1>0, <2>1 DEF RowsOK, rows
  <2> QED BY <1>0, <2>1, <2>2, <2>3, <2>4, OpFrame
<1> QED BY <1>1, <1>2, <1>3, <1>4, <1>5, <1>6 DEF OpStep

LEMMA EventType ==
  ASSUME Core, EditCircle \/ ToggleNode \/ Flip \/ XrayRestart \/ Reboot PROVE Core'
<1>0. /\ RowsOK /\ op \in [Ops -> OpType] /\ file \in Configs /\ live \in LiveType
      /\ active \in Nodes \cup {0} /\ LeftOK(left)
  BY DEF Core, RowsOK
<1>1. LeftOK(left')
  BY <1>0, SpendType, LimitsDomain DEF EditCircle, ToggleNode, Flip, XrayRestart, Reboot
<1>2. CASE EditCircle
  <2>1. UNCHANGED <<node, seen, active, alive, fails, hc, rot, lockOf, op, xray, dropped>>
    BY <1>2 DEF EditCircle
  <2>2. circle' \in [Circles -> CircleType]
    <3>1. ASSUME NEW c \in Circles, NEW l \in Lists, circle' = [circle EXCEPT ![c].ids = l]
          PROVE  circle' \in [Circles -> CircleType]
      <4>1. l \in Seq(Nodes)
        BY ListsAssumption
      <4> QED BY <1>0, <3>1, <4>1 DEF RowsOK, CircleType
    <3>2. ASSUME NEW c \in Circles, NEW st \in States, circle' = [circle EXCEPT ![c].st = st]
          PROVE  circle' \in [Circles -> CircleType]
      BY <1>0, <3>2 DEF RowsOK, CircleType
    <3> QED BY <1>2, <3>1, <3>2 DEF EditCircle
  <2>3. RowsOK'
    BY <1>0, <2>1, <2>2 DEF RowsOK
  <2> QED BY <1>1, <2>1, <2>3 DEF Core, RotsOK, HcOK, xray
<1>3. CASE ToggleNode
  <2>1. UNCHANGED <<seen, circle, active, alive, fails, hc, rot, lockOf, op, xray, dropped>>
    BY <1>3 DEF ToggleNode
  <2>2. node' \in [Nodes -> States]
    BY <1>0, <1>3 DEF ToggleNode, RowsOK, States
  <2>3. RowsOK'
    BY <1>0, <2>1, <2>2 DEF RowsOK
  <2> QED BY <1>1, <2>1, <2>3 DEF Core, RotsOK, HcOK, xray
<1>4. CASE Flip
  BY <1>1, <1>4 DEF Flip, Core, RowsOK, RotsOK, HcOK, rows, xray
<1>5. CASE XrayRestart
  <2>1. /\ UNCHANGED <<rows, alive, fails, hc, rot, lockOf, op, dropped>>
        /\ file' = Config(active) /\ Load(file')
    BY <1>5 DEF XrayRestart
  <2>2. file' \in Configs
    BY <1>0, <2>1, ConfigType
  <2>3. live' \in LiveType
    BY <2>1, <2>2, LoadType, FlagsAssumption
  <2> QED BY <1>1, <2>1, <2>2, <2>3 DEF Core, RowsOK, RotsOK, HcOK, rows
<1>6. CASE Reboot
  <2> DEFINE on     == {n \in Nodes : Enabled(n)}
             healed == IF active = 0 \/ Enabled(active) THEN active
                       ELSE IF on = {} THEN 0 ELSE Least(on)
             stop   == [up |-> FALSE, api |-> FALSE, conf |-> live.conf, pin |-> 0]
  <2>1. on \in SUBSET Nat
    BY NodesAssumption
  <2>2. on # {} => Least(on) \in on
    BY <2>1, LeastIn
  <2>3. healed \in Nodes \cup {0}
    BY <1>0, <2>2
  <2>4. stop \in LiveType
    BY <1>0 DEF LiveType
  <2>5. /\ active' = healed /\ fails' = [n \in Nodes |-> 0]
        /\ hc' = [at |-> "idle", node |-> 0, cands |-> <<>>]
        /\ rot' = [r \in Rotators |-> NoRot] /\ lockOf' = [c \in Circles |-> 0]
        /\ op' = [o \in Ops |-> IF op[o].at = "unsent" THEN op[o] ELSE [at |-> "done", node |-> 0]]
        /\ UNCHANGED <<node, seen, circle, alive, dropped>>
    BY <1>6 DEF Reboot
  <2>6. (file' = Config(healed) /\ Load(file')) \/ (live' = stop /\ UNCHANGED file)
    BY <1>6 DEF Reboot
  <2> HIDE DEF healed, stop
  <2>7. file' \in Configs
    BY <1>0, <2>3, <2>6, ConfigType
  <2>8. live' \in LiveType
    BY <2>4, <2>6, <2>7, LoadType, FlagsAssumption
  <2>9. fails' \in [Nodes -> 0..Threshold]
    <3>1. Threshold \in Nat
      BY LimitsAssumption
    <3>2. 0 \in 0..Threshold
      BY <3>1
    <3> QED BY <2>5, <3>2
  <2>10. HcOK(hc')
    <3>1. <<>> \in Seq(Nodes)
      OBVIOUS
    <3> QED BY <2>5, <3>1 DEF HcOK, HcType, HcAt
  <2>11. RotsOK'
    BY <2>5, NoRotOK DEF RotsOK, RotOK
  <2>12. op' \in [Ops -> OpType]
    <3>1. [at |-> "done", node |-> 0] \in OpType
      BY DEF OpType, OpAt
    <3> QED BY <1>0, <2>5, <3>1
  <2>13. RowsOK' /\ lockOf' \in [Circles -> Locks \cup {0}]
    BY <1>0, <2>3, <2>5 DEF RowsOK
  <2> QED BY <1>1, <2>5, <2>7, <2>8, <2>9, <2>10, <2>11, <2>12, <2>13 DEF Core, HcOK
<1> QED BY <1>2, <1>3, <1>4, <1>5, <1>6

-------------------------------------------------------------------------------
(* One rotation of a circle at a time.                                     *)

\* As long as the lock of its circle was not dropped under it, a rotation has the lock
\* object that _rotate_locks names; and a lock has one holder.
LockInv ==
  /\ \A r \in Rotators : rot[r].at # "idle" /\ rot[r].circle \notin dropped
       => lockOf[rot[r].circle] = rot[r].lock
  /\ \A r, q \in Rotators : r # q /\ rot[r].at \in Inside /\ rot[q].at \in Inside
       => rot[r].lock # rot[q].lock

LEMMA LockMoves ==
  ASSUME LockInv, NEW r \in Rotators, Moves(r), UNCHANGED <<lockOf, dropped>>
  PROVE  LockInv'
BY InsideLabels DEF LockInv, Moves

LEMMA LockEnter ==
  ASSUME Core, LockInv, NEW r \in Rotators, NEW c \in Circles, Enter(r, c),
         dropped' = dropped
  PROVE  LockInv'
<1>1. PICK l \in Locks :
        /\ lockOf[c] = l \/ (lockOf[c] = 0 /\ \A q \in Rotators : rot[q].lock # l)
        /\ rot'[r] = [NoRot EXCEPT !.at = "wait", !.circle = c, !.lock = l]
        /\ \A q \in Rotators : q # r => rot'[q] = rot[q]
        /\ lockOf' = [lockOf EXCEPT ![c] = l]
        /\ RotsOK' /\ lockOf' \in [Circles -> Locks \cup {0}] /\ rot[r].at = "idle"
  <2>1. RotsOK /\ lockOf \in [Circles -> Locks \cup {0}]
    BY DEF Core
  <2> QED BY <2>1, EnterFacts
<1>2. NoRot \in RotType /\ "wait" \notin Inside
  BY NoRotOK, InsideLabels DEF RotOK
<1>3. rot'[r].at = "wait" /\ rot'[r].circle = c /\ rot'[r].lock = l
  BY <1>1, <1>2 DEF RotType
<1>4. lockOf \in [Circles -> Locks \cup {0}]
  BY DEF Core
<1>5. \A q \in Rotators : rot[q].at # "idle" => rot[q].circle \in Circles /\ rot[q].lock \in Locks
  BY DEF Core, RotsOK, RotOK
<1>6. 0 \notin Locks
  <2>1. Cardinality(Rotators) \in Nat /\ Cardinality(Circles) \in Nat
    BY NodesAssumption, RotatorsFinite, FS_CardinalityType
  <2> QED BY <2>1 DEF Locks
<1>7. ASSUME NEW q \in Rotators, rot'[q].at # "idle", rot'[q].circle \notin dropped
      PROVE  lockOf'[rot'[q].circle] = rot'[q].lock
  <2>1. CASE q = r
    BY <1>1, <1>3, <1>4, <2>1
  <2>2. CASE q # r /\ rot[q].circle = c
    <3>1. rot[q].at # "idle" /\ lockOf[c] = rot[q].lock
      BY <1>1, <1>7, <2>2 DEF LockInv
    <3>2. lockOf[c] = l
      BY <1>1, <1>5, <1>6, <2>2, <3>1
    <3> QED BY <1>1, <1>4, <2>2, <3>1, <3>2
  <2>3. CASE q # r /\ rot[q].circle # c
    BY <1>1, <1>4, <1>5, <1>7, <2>3 DEF LockInv
  <2> QED BY <2>1, <2>2, <2>3
<1>8. ASSUME NEW p \in Rotators, NEW q \in Rotators, p # q, rot'[p].at \in Inside,
             rot'[q].at \in Inside
      PROVE  rot'[p].lock # rot'[q].lock
  <2>1. p # r /\ q # r
    BY <1>2, <1>3, <1>8
  <2>2. rot'[p] = rot[p] /\ rot'[q] = rot[q]
    BY <1>1, <2>1
  <2> QED BY <1>8, <2>2 DEF LockInv
<1> QED BY <1>7, <1>8 DEF LockInv

LEMMA LockStep ==
  ASSUME Core, LockInv, [Next]_vars PROVE LockInv'
<1>1. ASSUME UNCHANGED <<rot, lockOf, dropped>> PROVE LockInv'
  BY <1>1 DEF LockInv
<1>2. CASE UNCHANGED vars
  BY <1>1, <1>2 DEF vars
<1>3. CASE Tick
  <2>1. CASE dropped' = dropped /\ \E c \in Circles : Enter("tick", c)
    BY <2>1, LockEnter DEF Rotators
  <2> DEFINE stale == {c \in Circles : circle[c].st # "on"}
             held  == {c \in stale : \E r \in Rotators : rot[r].at # "idle"
                                                         /\ rot[r].lock = lockOf[c]}
  <2>2. dropped' = dropped \cup {c \in held : lockOf[c] # 0}
    BY <1>3 DEF Tick
  <2>3. CASE lockOf' = [c \in Circles |-> IF c \in stale THEN 0 ELSE lockOf[c]] /\ UNCHANGED rot
    <3>1. 0 \notin Locks
      <4>1. Cardinality(Rotators) \in Nat /\ Cardinality(Circles) \in Nat
        BY NodesAssumption, RotatorsFinite, FS_CardinalityType
      <4> QED BY <4>1 DEF Locks
    <3>2. ASSUME NEW r \in Rotators, rot[r].at # "idle", rot[r].circle \notin dropped'
          PROVE  lockOf'[rot[r].circle] = rot[r].lock
      <4>1. rot[r].circle \in Circles /\ rot[r].lock # 0
        BY <3>1, <3>2 DEF Core, RotsOK, RotOK
      <4>2. lockOf[rot[r].circle] = rot[r].lock
        BY <2>2, <3>2 DEF LockInv
      <4>3. rot[r].circle \notin stale
        BY <2>2, <3>2, <4>1, <4>2
      <4> QED BY <2>3, <4>1, <4>2, <4>3
    <3> QED BY <2>3, <3>2 DEF LockInv
  <2>4. CASE (\A c \in stale : lockOf[c] = 0) /\ \E c \in Circles : Enter("tick", c)
    <3>1. dropped' = dropped
      BY <2>2, <2>4
    <3> QED BY <2>1, <2>4, <3>1
  <2> QED BY <1>3, <2>3, <2>4 DEF Tick
<1>4. CASE RotateNow
  BY <1>4, LockEnter DEF RotateNow, Rotators
<1>5. CASE HealthStep
  <2>1. CASE Tier
    <3>1. dropped' = dropped
      BY <2>1 DEF Tier
    <3>2. CircleOf(hc.node) \in Circles \cup {0}
      BY CircleOfType DEF Core
    <3>3. UNCHANGED <<rot, lockOf>> \/ \E c \in Circles : Enter("failover", c)
      BY <2>1, <3>2 DEF Tier
    <3> QED BY <1>1, <3>1, <3>3, LockEnter DEF Rotators
  <2>2. CASE Check \/ Record \/ TierDone \/ ListProbe \/ ListCommit \/ ListApply
    BY <1>1, <2>2 DEF Check, Record, TierDone, ListProbe, ListCommit, ListApply
  <2> QED BY <1>5, <2>1, <2>2 DEF HealthStep
<1>6. CASE Sweep
  BY <1>1, <1>6 DEF Sweep
<1>7. ASSUME NEW r \in Rotators, RotStep(r) \/ Deadline(r) PROVE LockInv'
  <2>1. CASE Snapshot(r)
    <3>1. UNCHANGED <<lockOf, dropped>>
      BY <2>1 DEF Snapshot
    <3>2. /\ rot[r].at = "wait" /\ \A q \in Rotators : q # r => rot'[q] = rot[q]
          /\ \A q \in Rotators : ~(rot[q].at \in Inside /\ rot[q].lock = rot[r].lock)
          /\ \/ rot'[r].at = "idle"
             \/ rot'[r].at \in Inside /\ rot'[r].circle = rot[r].circle /\ rot'[r].lock = rot[r].lock
      BY <2>1, SnapshotFacts
    <3> QED BY <3>1, <3>2, InsideLabels DEF LockInv
  <2>2. CASE ~Snapshot(r)
    <3>1. Moves(r)
      BY <1>7, <2>2, ProbeFacts, WriteFacts, SwapFacts, OverrideFacts, SyncFacts, FullReloadFacts,
         RepinFacts, DeadlineFacts DEF RotStep
    <3>2. UNCHANGED <<lockOf, dropped>>
      BY <1>7, <2>2 DEF RotStep, Probe, Write, Swap, Override, Sync, FullReload, Repin, Deadline
    <3> QED BY <3>1, <3>2, LockMoves
  <2> QED BY <2>1, <2>2
<1>8. ASSUME NEW o \in Ops, SetActive(o) \/ DeleteNode(o) \/ OpStep(o) PROVE LockInv'
  BY <1>1, <1>8 DEF SetActive, DeleteNode, OpStep, Heal, Regenerate, OpReload, OpPin
<1>9. CASE EditCircle \/ ToggleNode \/ Flip \/ XrayRestart
  BY <1>1, <1>9 DEF EditCircle, ToggleNode, Flip, XrayRestart
<1>10. CASE Reboot
  BY <1>10, InsideLabels DEF Reboot, LockInv, NoRot
<1> QED BY <1>2, <1>3, <1>4, <1>5, <1>6, <1>7, <1>8, <1>9, <1>10 DEF Next, Step, Event

-------------------------------------------------------------------------------
(* The active node exists.                                                 *)

\* A circle lists nodes that exist; and whoever deleted the active node has yet to
\* replace it.
RowInv ==
  /\ \A c \in Circles : \A m \in Members(c) : node[m] # "gone"
  /\ \/ active = 0 \/ node[active] # "gone"
     \/ \E o \in Ops : op[o].at = "heal" /\ op[o].node = active

LEMMA RowFrame == ASSUME RowInv, UNCHANGED <<node, circle, active, op>> PROVE RowInv'
BY DEF RowInv, Members

LEMMA RowStep ==
  ASSUME Core, RowInv, [Next]_vars PROVE RowInv'
<1>0. RowsOK /\ op \in [Ops -> OpType]
  BY DEF Core
<1>1. CASE UNCHANGED vars
  BY <1>1, RowFrame DEF vars
<1>2. CASE Tick \/ RotateNow \/ Sweep \/ Flip \/ XrayRestart
  BY <1>2, RowFrame DEF Tick, RotateNow, Sweep, Flip, XrayRestart, rows
<1>3. CASE HealthStep
  <2>1. CASE ListCommit
    <3>1. UNCHANGED <<node, circle, op>> /\ (active' = active \/ Enabled(active'))
      BY <2>1 DEF ListCommit
    <3> QED BY <3>1 DEF RowInv, Members, Enabled
  <2>2. CASE Check \/ Record \/ Tier \/ TierDone \/ ListProbe \/ ListApply
    BY <2>2, RowFrame DEF Check, Record, Tier, TierDone, ListProbe, ListApply, rows
  <2> QED BY <1>3, <2>1, <2>2 DEF HealthStep
<1>4. ASSUME NEW r \in Rotators, RotStep(r) \/ Deadline(r) PROVE RowInv'
  <2>1. CASE Write(r)
    <3> DEFINE c == rot[r].circle
               n == Head(rot[r].cands)
    <3>1. c \in Circles /\ UNCHANGED <<node, op>>
      BY <2>1, HeadNode, InsideLabels DEF Write, Core
    <3>2. CASE UNCHANGED <<circle, active>>
      BY <3>1, <3>2, RowFrame
    <3>3. ASSUME NEW i, circle' = [circle EXCEPT ![c].idx = i - 1], active' = n, n \in Members(c)
          PROVE  RowInv'
      <4>1. \A d \in Circles : circle'[d].ids = circle[d].ids
        BY <1>0, <3>1, <3>3 DEF RowsOK, CircleType
      <4>2. \A d \in Circles : Members(d)' = Members(d)
        BY <4>1 DEF Members
      <4> QED BY <3>1, <3>3, <4>2 DEF RowInv
    <3> QED BY <2>1, <3>2, <3>3 DEF Write
  <2>2. CASE ~Write(r)
    BY <1>4, <2>2, RowFrame
       DEF RotStep, Snapshot, Probe, Swap, Override, Sync, FullReload, Repin, Deadline, rows
  <2> QED BY <2>1, <2>2
<1>5. ASSUME NEW o \in Ops, SetActive(o) PROVE RowInv'
  <2>1. UNCHANGED <<node, circle>> /\ node[active'] # "gone"
    BY <1>5 DEF SetActive
  <2> QED BY <2>1 DEF RowInv, Members
<1>6. ASSUME NEW o \in Ops, DeleteNode(o) PROVE RowInv'
  <2>1. PICK n \in Nodes :
          /\ node' = [node EXCEPT ![n] = "gone"] /\ seen' = seen \ {n}
          /\ circle' = [c \in Circles |->
               LET ids == Within(circle[c].ids, Nodes \ {n})
               IN  IF n \notin Members(c) THEN circle[c]
                   ELSE [circle[c] EXCEPT !.ids = ids,
                                          !.idx = IF @ >= Len(ids) THEN 0 ELSE @]]
          /\ OpGo(o, "heal", n)
    BY <1>6 DEF DeleteNode
  <2>2. UNCHANGED active /\ op[o].at = "unsent"
    BY <1>6 DEF DeleteNode
  <2>3. \A c \in Circles : Members(c)' \subseteq Members(c) \ {n}
    BY <1>0, <2>1, <2>2, DeleteRows
  <2>4. \A c \in Circles : Members(c) \subseteq Nodes
    BY <1>0, RangeSeq DEF RowsOK, CircleType, Members
  <2>5. \A m \in Nodes \ {n} : node'[m] = node[m]
    BY <1>0, <2>1 DEF RowsOK
  <2>6. \A c \in Circles : \A m \in Members(c)' : node'[m] # "gone"
    BY <2>3, <2>4, <2>5 DEF RowInv
  <2>7. op'[o] = [at |-> "heal", node |-> n] /\ \A p \in Ops : p # o => op'[p] = op[p]
    BY <1>0, <2>1, OpGoType DEF OpAt
  <2>8. active \in Nodes \cup {0}
    BY <1>0 DEF RowsOK
  <2> QED BY <2>2, <2>5, <2>6, <2>7, <2>8 DEF RowInv
<1>7. ASSUME NEW o \in Ops, OpStep(o) PROVE RowInv'
  <2>1. op[o].node \in Nodes \cup {0} /\ active \in Nodes \cup {0}
    BY <1>0 DEF RowsOK, OpType
  <2>2. CASE Heal(o)
    <3>1. UNCHANGED <<node, circle>>
      BY <2>2 DEF Heal
    <3>2. CASE active # op[o].node
      <4>1. OpGo(o, "done", 0) /\ UNCHANGED active
        BY <2>2, <3>2 DEF Heal
      <4>2. \A p \in Ops : p # o => op'[p] = op[p]
        BY <1>0, <4>1, OpGoType DEF OpAt
      <4> QED BY <3>1, <3>2, <4>1, <4>2 DEF RowInv, Members
    <3>3. CASE active = op[o].node
      <4>1. active' = Survivor
        BY <2>2, <3>3 DEF Heal
      <4> QED BY <1>0, <3>1, <4>1, SurvivorType DEF RowInv, Members
    <3> QED BY <3>2, <3>3
  <2>3. CASE Regenerate(o) \/ OpReload(o) \/ OpPin(o)
    <3>1. UNCHANGED <<node, circle, active>> /\ op[o].at # "heal"
      BY <2>3 DEF Regenerate, OpReload, OpPin, rows
    <3>2. \E l \in OpAt, n \in Nodes \cup {0} : OpGo(o, l, n)
      BY <2>1, <2>3 DEF Regenerate, OpReload, OpPin, OpAt
    <3>3. \A p \in Ops : p # o => op'[p] = op[p]
      BY <1>0, <3>2, OpGoType
    <3> QED BY <3>1, <3>3 DEF RowInv, Members
  <2> QED BY <1>7, <2>2, <2>3 DEF OpStep
<1>8. CASE EditCircle
  <2>1. UNCHANGED <<node, active, op>>
    BY <1>8 DEF EditCircle
  <2>2. ASSUME NEW c \in Circles, NEW l \in Lists, circle' = [circle EXCEPT ![c].ids = l],
               \A m \in Range(l) : node[m] # "gone", NEW d \in Circles, NEW m \in Members(d)'
        PROVE  node[m] # "gone"
    BY <1>0, <2>2 DEF RowInv, Members, RowsOK, CircleType
  <2>3. ASSUME NEW c \in Circles, NEW st \in States, circle' = [circle EXCEPT ![c].st = st],
               NEW d \in Circles, NEW m \in Members(d)'
        PROVE  node[m] # "gone"
    BY <1>0, <2>3 DEF RowInv, Members, RowsOK, CircleType
  <2>4. \A d \in Circles : \A m \in Members(d)' : node[m] # "gone"
    BY <1>8, <2>2, <2>3 DEF EditCircle
  <2> QED BY <2>1, <2>4 DEF RowInv
<1>9. CASE ToggleNode
  <2>1. UNCHANGED <<circle, active, op>>
    BY <1>9 DEF ToggleNode
  <2>2. \A m \in Nodes : node[m] # "gone" => node'[m] # "gone"
    BY <1>0, <1>9 DEF ToggleNode, RowsOK
  <2>3. \A c \in Circles : Members(c) \subseteq Nodes
    BY <1>0, RangeSeq DEF RowsOK, CircleType, Members
  <2>4. active \in Nodes \cup {0}
    BY <1>0 DEF RowsOK
  <2> QED BY <2>1, <2>2, <2>3, <2>4 DEF RowInv, Members
<1>10. CASE Reboot
  <2>1. {n \in Nodes : Enabled(n)} \in SUBSET Nat
    BY NodesAssumption
  <2>2. {n \in Nodes : Enabled(n)} # {}
          => Least({n \in Nodes : Enabled(n)}) \in {n \in Nodes : Enabled(n)}
    BY <2>1, LeastIn
  <2>3. active' = 0 \/ Enabled(active')
    BY <1>10, <2>2 DEF Reboot
  <2>4. UNCHANGED <<node, circle>>
    BY <1>10 DEF Reboot
  <2> QED BY <2>3, <2>4 DEF RowInv, Members, Enabled
<1> QED BY <1>1, <1>2, <1>3, <1>4, <1>5, <1>6, <1>7, <1>8, <1>9, <1>10 DEF Next, Step, Event

-------------------------------------------------------------------------------
(* A switch nobody interfered with.                                        *)

\* xray's API answers whenever xray runs, if it opens before a restart returns.
ApiInv == ~SlowApi => (live.up => live.api)
\* Only the health checker runs a failover's rotation, and waits for it.
FailInv == rot["failover"].at # "idle" => hc.at = "rotating"

\* n is a row, and the running xray was loaded for it.
There(n)  == n \in Nodes /\ node[n] # "gone"
Loaded(n) == live.up => live.conf = Config(n)

\* What a switch nobody interfered with may count on, by how far it is.
RotCounts(r) ==
  /\ rot[r].at \in {"swap", "override", "reload", "pin"}
       => active = Head(rot[r].cands) /\ There(active) /\ CircleOf(active) # 0
  /\ rot[r].at = "reload" => rot[r].pin
  /\ rot[r].at = "pin" => Loaded(active)
  /\ rot[r].at = "sync" => Serves
OpCounts(o) ==
  /\ op[o].at \in {"regen", "reload", "pin"} => op[o].node = active /\ There(active)
  /\ op[o].at = "reload" => file = Config(active)
  /\ op[o].at = "pin" => Loaded(active)
HcCounts == hc.at = "apply" => There(active)

Solo    == \A x, y \in Working : x = y
LoneInv == alone => /\ Solo /\ HcCounts
                    /\ \A r \in Rotators : RotCounts(r)
                    /\ \A o \in Ops : OpCounts(o)

\* Nothing has moved under the configuration of the active node.
LEMMA ConfigSame ==
  ASSUME UNCHANGED <<node, circle, active>>
  PROVE  /\ Config(active)' = Config(active) /\ CircleOf(active)' = CircleOf(active)
         /\ There(active)' <=> There(active)
<1>1. CircleOf(active)' = CircleOf(active)
  BY DEF CircleOf, Members
<1>2. \A c, m : m \in Members(c)' <=> m \in Members(c)
  BY DEF Members
<1>3. \A m : Enabled(m)' <=> Enabled(m)
  BY DEF Enabled
<1>4. Config(active)' = Config(active)
  BY <1>1, <1>2, <1>3 DEF Config
<1> QED BY <1>1, <1>4 DEF There

LEMMA CircleOfHolds ==
  ASSUME NEW n PROVE CircleOf(n) # 0 => CircleOf(n) \in Circles /\ n \in Members(CircleOf(n))
<1> DEFINE cs == {c \in Circles : circle[c].st = "on" /\ n \in Members(c)}
<1>1. cs \in SUBSET Nat
  BY NodesAssumption
<1>2. cs # {} => Least(cs) \in cs
  BY <1>1, LeastIn
<1> QED BY <1>2 DEF CircleOf

LEMMA CircleOfFinds ==
  ASSUME NEW n, NEW c \in Circles, circle[c].st = "on", n \in Members(c) PROVE CircleOf(n) # 0
<1> DEFINE cs == {d \in Circles : circle[d].st = "on" /\ n \in Members(d)}
<1>1. cs \in SUBSET (Nat \ {0}) /\ cs # {}
  BY NodesAssumption
<1>2. Least(cs) \in cs
  BY <1>1, LeastIn
<1> QED BY <1>1, <1>2 DEF CircleOf

\* The configuration of a row routes to it, through the circle that holds it.
LEMMA ConfigFacts ==
  ASSUME NEW n, There(n), 0 \notin Nodes
  PROVE  /\ Config(n).node = n /\ Config(n).bal = CircleOf(n)
         /\ CircleOf(n) # 0 => n \in Config(n).members
<1>1. n # 0 /\ node[n] # "gone"
  BY DEF There
<1>2. Config(n) = [node |-> n, bal |-> CircleOf(n),
                   members |-> IF CircleOf(n) = 0 THEN {}
                               ELSE {m \in Members(CircleOf(n)) : m = n \/ Enabled(m)}]
  BY <1>1 DEF Config
<1> QED BY <1>2, CircleOfHolds

\* An override after a reload for the active node brings the traffic to it.
LEMMA PinServes ==
  ASSUME ~SlowApi, ApiInv, live \in LiveType, There(active), Loaded(active),
         NEW open \in BOOLEAN, Finds(open), PinTo(active, open), UNCHANGED active
  PROVE  Serves'
<1>1. 0 \notin Nodes
  BY NodesAssumption
<1>2. /\ Config(active).node = active /\ Config(active).bal = CircleOf(active)
      /\ CircleOf(active) # 0 => active \in Config(active).members
  BY <1>1, ConfigFacts
<1>3. CASE ~live.up
  BY <1>3 DEF PinTo, Overrides, Serves
<1>4. CASE live.up /\ CircleOf(active) = 0
  BY <1>2, <1>4 DEF PinTo, Overrides, Serves, Loaded
<1>5. CASE live.up /\ CircleOf(active) # 0
  <2>1. open
    BY <1>5 DEF Finds, ApiInv
  <2>2. Overrides(active, open)
    BY <1>2, <1>5, <2>1 DEF Overrides, Loaded
  <2>3. live' = [live EXCEPT !.pin = active, !.api = TRUE]
    BY <2>2 DEF PinTo
  <2>4. live'.pin = active /\ live'.conf = Config(active)
    BY <1>5, <2>3 DEF LiveType, Loaded
  <2> QED BY <1>2, <2>4 DEF Serves
<1> QED BY <1>3, <1>4, <1>5

\* One step of a rotation leaves it with what it counts on, if nothing else has moved.
LEMMA RotCountsStep ==
  ASSUME ~SlowApi, RefusesUnloaded, Core, RowInv, ApiInv, NEW r \in Rotators, RotCounts(r),
         RotStep(r)
  PROVE  RotCounts(r)'
<1>0. RotsOK /\ RowsOK /\ live \in LiveType /\ rot[r] \in RotType
  BY DEF Core, RotsOK
<1>1. ASSUME rot'[r].at = "idle" PROVE RotCounts(r)'
  BY <1>1 DEF RotCounts
<1>2. ASSUME NEW b \in BOOLEAN, Done(r, b) PROVE RotCounts(r)'
  BY <1>0, <1>1, <1>2, DoneType
<1>3. ASSUME rot[r].at \in Inside, NEW l \in Inside, Go(r, l)
      PROVE  rot'[r].at = l /\ rot'[r].cands = rot[r].cands /\ rot'[r].pin = rot[r].pin
  <2>1. rot'[r] = [rot[r] EXCEPT !.at = l]
    BY <1>0, <1>3, GoType
  <2> QED BY <1>0, <2>1 DEF RotType
<1>4. CASE Snapshot(r)
  <2>1. CASE \E b \in BOOLEAN : Done(r, b)
    BY <1>2, <2>1
  <2>2. ASSUME NEW s, rot' = [rot EXCEPT ![r].at = "probe", ![r].cands = s] PROVE RotCounts(r)'
    <3>1. rot'[r].at = "probe"
      BY <1>0, <2>2 DEF RotsOK, RotType
    <3> QED BY <3>1 DEF RotCounts
  <2> QED BY <1>4, <2>1, <2>2 DEF Snapshot
<1>5. CASE Probe(r)
  <2>1. rot[r].at = "probe"
    BY <1>5 DEF Probe
  <2>2. ASSUME Go(r, "write") PROVE RotCounts(r)'
    <3>1. rot'[r].at = "write"
      BY <1>3, <2>1, <2>2, InsideLabels
    <3> QED BY <3>1 DEF RotCounts
  <2>3. ASSUME rot' = [rot EXCEPT ![r].cands = Tail(@)] PROVE RotCounts(r)'
    <3>1. rot'[r].at = "probe"
      BY <1>0, <2>1, <2>3 DEF RotsOK, RotType
    <3> QED BY <3>1 DEF RotCounts
  <2> QED BY <1>2, <1>5, <2>2, <2>3 DEF Probe
<1>6. CASE Write(r)
  <2>0. Head(rot[r].cands) \in Nodes /\ rot[r].circle \in Circles
    BY <1>0, <1>6, HeadNode, InsideLabels DEF Write
  <2>c. PICK c \in Circles : c = rot[r].circle
    BY <2>0
  <2>n. PICK n \in Nodes : n = Head(rot[r].cands)
    BY <2>0
  <2>1. rot[r].at = "write" /\ UNCHANGED node
    BY <1>6 DEF Write
  <2>2. CASE Done(r, FALSE)
    BY <1>2, <2>2
  <2>3. ASSUME NEW i, circle' = [circle EXCEPT ![c].idx = i - 1], active' = n, Go(r, "swap"),
               circle[c].st = "on", n \in Members(c)
        PROVE  RotCounts(r)'
    <3>1. circle'[c].st = "on" /\ circle'[c].ids = circle[c].ids
      BY <1>0, <2>1, <2>3 DEF RowsOK, CircleType
    <3>2. circle'[c].st = "on" /\ n \in Members(c)'
      BY <2>3, <3>1 DEF Members
    <3>3. CircleOf(active)' # 0
      <4> DEFINE cs == {d \in Circles : circle'[d].st = "on" /\ n \in Members(d)'}
      <4>1. cs \in SUBSET (Nat \ {0}) /\ cs # {}
        BY <2>1, <3>2, NodesAssumption
      <4>2. Least(cs) \in cs
        BY <4>1, LeastIn
      <4>3. CircleOf(active)' = IF cs = {} THEN 0 ELSE Least(cs)
        BY <2>3 DEF CircleOf
      <4> QED BY <4>1, <4>2, <4>3
    <3>4. There(active)'
      BY <2>1, <2>3 DEF There, RowInv
    <3>5. rot'[r].at = "swap" /\ rot'[r].cands = rot[r].cands
      BY <1>3, <2>1, <2>3, InsideLabels
    <3> QED BY <2>n, <2>3, <3>3, <3>4, <3>5 DEF RotCounts
  <2> QED BY <1>6, <2>c, <2>n, <2>2, <2>3 DEF Write
<1>7. CASE Swap(r)
  <2>1. rot[r].at = "swap" /\ UNCHANGED <<node, circle, active>>
    BY <1>7 DEF Swap, rows
  <2>2. ASSUME NEW open \in BOOLEAN, live.up, Finds(open),
               Go(r, IF CircleOf(Head(rot[r].cands)) # 0 /\ open THEN "override" ELSE "reload")
        PROVE  RotCounts(r)'
    <3>1. open
      BY <2>2 DEF Finds, ApiInv
    <3>2. active = Head(rot[r].cands) /\ There(active) /\ CircleOf(active) # 0
      BY <2>1 DEF RotCounts
    <3>3. Go(r, "override")
      BY <2>2, <3>1, <3>2
    <3>4. rot'[r].at = "override" /\ rot'[r].cands = rot[r].cands
      BY <1>3, <2>1, <3>3, InsideLabels
    <3> QED BY <2>1, <3>2, <3>4, ConfigSame DEF RotCounts
  <2> QED BY <1>2, <1>7, <2>2 DEF Swap
<1>8. CASE Override(r)
  <2> DEFINE n == Head(rot[r].cands)
  <2>1. rot[r].at = "override" /\ UNCHANGED <<node, circle, active>>
    BY <1>8 DEF Override, rows
  <2>2. active = n /\ There(active) /\ CircleOf(active) # 0
    BY <2>1 DEF RotCounts
  <2>3. ASSUME NEW open \in BOOLEAN, PinTo(n, open), Overrides(n, open), Go(r, "sync")
        PROVE  RotCounts(r)'
    <3>1. rot'[r].at = "sync"
      BY <1>3, <2>1, <2>3, InsideLabels
    <3>2. live.conf.bal # 0 /\ active \in live.conf.members
      BY <2>2, <2>3 DEF Overrides
    <3>3. live' = [live EXCEPT !.pin = n, !.api = TRUE]
      BY <2>3 DEF PinTo
    <3>4. live'.pin = active /\ live'.conf = live.conf
      BY <1>0, <2>2, <3>3 DEF LiveType
    <3>5. Serves'
      BY <2>1, <3>2, <3>4 DEF Serves
    <3> QED BY <3>1, <3>5 DEF RotCounts
  <2>4. ASSUME rot' = [rot EXCEPT ![r].at = "reload", ![r].pin = TRUE] PROVE RotCounts(r)'
    <3>1. rot'[r].at = "reload" /\ rot'[r].pin /\ rot'[r].cands = rot[r].cands
      BY <1>0, <2>4 DEF RotsOK, RotType
    <3> QED BY <2>1, <2>2, <3>1, ConfigSame DEF RotCounts
  <2> QED BY <1>8, <2>3, <2>4 DEF Override
<1>9. CASE Sync(r)
  BY <1>2, <1>9 DEF Sync
<1>10. CASE FullReload(r)
  <2>1. rot[r].at = "reload" /\ UNCHANGED <<node, circle, active>> /\ file' = Config(active)
    BY <1>10 DEF FullReload, rows
  <2>2. active = Head(rot[r].cands) /\ There(active) /\ CircleOf(active) # 0 /\ rot[r].pin
    BY <2>1 DEF RotCounts
  <2>3. rot'[r].at = "pin" /\ rot'[r].cands = rot[r].cands
    BY <1>3, <1>10, <2>1, <2>2, InsideLabels DEF FullReload
  <2>4. live'.up => live'.conf = Config(active)
    BY <1>10, <2>1 DEF FullReload, Load
  <2> QED BY <2>1, <2>2, <2>3, <2>4, ConfigSame DEF RotCounts, Loaded
<1>11. CASE Repin(r)
  BY <1>2, <1>11 DEF Repin
<1> QED BY <1>4, <1>5, <1>6, <1>7, <1>8, <1>9, <1>10, <1>11 DEF RotStep

\* What alone becomes with a step of a switch, and with an event.
Goes  == alone' = (Working = {} \/ Working' = {} \/ (alone /\ Working' \subseteq Working))
Ended == alone' = (Working' = {})

\* When no switch is under way there is nothing to count on.
LEMMA Quiet == ASSUME FailInv', Working' = {} PROVE LoneInv'
<1>1. /\ \A r \in Rotators : rot'[r].at = "idle"
      /\ \A o \in Ops : op'[o].at \in {"unsent", "done"}
      /\ hc'.at \in {"idle", "probe"}
  BY DEF Working, FailInv
<1> QED BY <1>1 DEF LoneInv, Solo, HcCounts, RotCounts, OpCounts

\* A step that takes no switch any further and starts none.
LEMMA Stands ==
  ASSUME LoneInv, FailInv', Goes, UNCHANGED <<node, circle, active, op, xray, rot>>,
         hc'.at = hc.at \/ hc'.at \in {"idle", "probe"}
  PROVE  LoneInv'
<1>1. Working' \subseteq Working
  BY DEF Working
<1>2. CASE Working' = {}
  BY <1>2, Quiet
<1>3. CASE Working' # {} /\ alone'
  <2>1. alone
    BY <1>1, <1>3 DEF Goes
  <2>2. Solo' /\ HcCounts'
    BY <1>1, <2>1, ConfigSame DEF LoneInv, Solo, HcCounts
  <2>3. (Serves' <=> Serves) /\ (Loaded(active)' <=> Loaded(active)) /\ file' = file
    BY ConfigSame DEF Serves, Loaded, xray
  <2>4. \A r \in Rotators : RotCounts(r)'
    BY <2>1, <2>3, ConfigSame DEF LoneInv, RotCounts
  <2>5. \A o \in Ops : OpCounts(o)'
    BY <2>1, <2>3, ConfigSame DEF LoneInv, OpCounts
  <2> QED BY <2>2, <2>4, <2>5 DEF LoneInv
<1> QED BY <1>2, <1>3 DEF LoneInv

\* While a switch is on its way and has met nobody, nobody else is.
LEMMA RotOnly ==
  ASSUME FailInv, Solo, NEW r \in Rotators, rot[r].at # "idle"
  PROVE  /\ \A q \in Rotators : q # r => rot[q].at = "idle"
         /\ \A o \in Ops : op[o].at \in {"unsent", "done"}
         /\ hc.at \in {"idle", "probe", "rotating"}
         /\ Working # {}
<1>1. r # "failover" => r \in Working
  BY DEF Working
<1>2. \A q \in Rotators : q # "failover" /\ rot[q].at # "idle" => q \in Working
  BY DEF Working
<1>3. rot["failover"].at # "idle" => "health" \in Working
  BY DEF FailInv, Working
<1>4. \A o \in Ops : o \notin Rotators /\ o # "health"
  BY OpsAssumption
<1>5. \A o \in Ops : op[o].at \notin {"unsent", "done"} => o \in Working
  BY DEF Working
<1>6. hc.at \notin {"idle", "probe"} => "health" \in Working
  BY DEF Working
<1>7. "health" \notin Rotators
  BY DEF Rotators
<1>8. hc.at \in {"idle", "probe"} \/ r = "failover"
  BY <1>1, <1>6, <1>7 DEF Solo
<1> QED BY <1>1, <1>2, <1>3, <1>4, <1>5, <1>7, <1>8 DEF Solo, FailInv

LEMMA OpOnly ==
  ASSUME FailInv, Solo, NEW o \in Ops, op[o].at \notin {"unsent", "done"}
  PROVE  /\ \A q \in Rotators : rot[q].at = "idle"
         /\ \A p \in Ops : p # o => op[p].at \in {"unsent", "done"}
         /\ hc.at \in {"idle", "probe"}
<1>1. \A q \in Rotators : q # "failover" /\ rot[q].at # "idle" => q \in Working
  BY DEF Working
<1>2. rot["failover"].at # "idle" => "health" \in Working
  BY DEF FailInv, Working
<1>3. o \notin Rotators /\ o # "health"
  BY OpsAssumption
<1>4. \A p \in Ops : op[p].at \notin {"unsent", "done"} => p \in Working
  BY DEF Working
<1>5. hc.at \notin {"idle", "probe"} => "health" \in Working
  BY DEF Working
<1> QED BY <1>1, <1>2, <1>3, <1>4, <1>5 DEF Solo

LEMMA HealthOnly ==
  ASSUME FailInv, Solo, hc.at \notin {"idle", "probe"}
  PROVE  /\ \A q \in Rotators : q # "failover" => rot[q].at = "idle"
         /\ \A p \in Ops : op[p].at \in {"unsent", "done"}
<1>1. \A q \in Rotators : q # "failover" /\ rot[q].at # "idle" => q \in Working
  BY DEF Working
<1>2. "health" \in Working /\ "health" \notin Rotators
  BY DEF Working, Rotators
<1>3. \A p \in Ops : p # "health"
  BY OpsAssumption
<1>4. \A p \in Ops : op[p].at \notin {"unsent", "done"} => p \in Working
  BY DEF Working
<1> QED BY <1>1, <1>2, <1>3, <1>4 DEF Solo

\* A step of a switch that was on its way.
LEMMA GoesOn ==
  ASSUME LoneInv, FailInv', Goes, Working # {},
         alone /\ Solo /\ Solo' => /\ HcCounts' /\ \A q \in Rotators : RotCounts(q)'
                                   /\ \A o \in Ops : OpCounts(o)'
  PROVE  LoneInv'
<1>1. CASE Working' = {}
  BY <1>1, Quiet
<1>2. CASE Working' # {} /\ alone'
  <2>1. alone /\ Working' \subseteq Working
    BY <1>2 DEF Goes
  <2>2. Solo /\ Solo'
    BY <2>1 DEF LoneInv, Solo
  <2> QED BY <2>1, <2>2 DEF LoneInv
<1> QED BY <1>1, <1>2 DEF LoneInv

\* A step that starts a switch of who. With nobody else on the way it is alone.
LEMMA Starts ==
  ASSUME LoneInv, FailInv', Goes, NEW who, who \notin Working, who \in Working',
         Working' \subseteq Working \cup {who},
         Working = {} => /\ HcCounts' /\ \A q \in Rotators : RotCounts(q)'
                         /\ \A o \in Ops : OpCounts(o)'
  PROVE  LoneInv'
<1>1. alone' => Working = {}
  BY DEF Goes
<1>2. Working = {} => Solo'
  BY DEF Solo
<1> QED BY <1>1, <1>2 DEF LoneInv

\* Who asks for a rotation waits for its lock.
LEMMA EnterWaits ==
  ASSUME RotsOK, lockOf \in [Circles -> Locks \cup {0}],
         NEW r \in Rotators, NEW c \in Circles, Enter(r, c)
  PROVE  /\ rot[r].at = "idle" /\ rot'[r].at = "wait"
         /\ \A q \in Rotators : q # r => rot'[q] = rot[q]
<1>1. PICK l \in Locks :
        /\ lockOf[c] = l \/ (lockOf[c] = 0 /\ \A q \in Rotators : rot[q].lock # l)
        /\ rot'[r] = [NoRot EXCEPT !.at = "wait", !.circle = c, !.lock = l]
        /\ \A q \in Rotators : q # r => rot'[q] = rot[q]
        /\ lockOf' = [lockOf EXCEPT ![c] = l]
        /\ RotsOK' /\ lockOf' \in [Circles -> Locks \cup {0}] /\ rot[r].at = "idle"
  BY EnterFacts
<1> QED BY <1>1 DEF NoRot

LEMMA ApiStep == ASSUME Core, ApiInv, [Next]_vars PROVE ApiInv'
<1>0. live \in LiveType
  BY DEF Core
<1>1. CASE UNCHANGED live
  BY <1>1 DEF ApiInv
<1>2. ASSUME NEW c, Load(c) PROVE ApiInv'
  BY <1>2 DEF ApiInv, Load
<1>3. ASSUME NEW n, NEW open, PinTo(n, open) PROVE ApiInv'
  BY <1>0, <1>3 DEF ApiInv, PinTo, LiveType
<1>4. CASE Tick \/ RotateNow \/ Sweep \/ EditCircle \/ ToggleNode \/ Flip
  BY <1>1, <1>4 DEF Tick, RotateNow, Sweep, EditCircle, ToggleNode, Flip, xray
<1>5. CASE HealthStep
  BY <1>1, <1>2, <1>5
     DEF HealthStep, Check, Record, Tier, TierDone, ListProbe, ListCommit, ListApply, xray
<1>6. ASSUME NEW r \in Rotators, RotStep(r) \/ Deadline(r) PROVE ApiInv'
  <2>1. CASE Swap(r)
    <3>1. ASSUME NEW open \in BOOLEAN, Finds(open), live' = [live EXCEPT !.api = open]
          PROVE  ApiInv'
      BY <1>0, <3>1 DEF ApiInv, Finds, LiveType
    <3> QED BY <1>1, <2>1, <3>1 DEF Swap
  <2>2. CASE Override(r) \/ Repin(r)
    BY <1>3, <2>2 DEF Override, Repin
  <2>3. CASE FullReload(r)
    BY <1>1, <1>2, <2>3 DEF FullReload
  <2>4. CASE Snapshot(r) \/ Probe(r) \/ Write(r) \/ Sync(r) \/ Deadline(r)
    BY <1>1, <2>4 DEF Snapshot, Probe, Write, Sync, Deadline, xray
  <2> QED BY <1>6, <2>1, <2>2, <2>3, <2>4 DEF RotStep
<1>7. ASSUME NEW o \in Ops, SetActive(o) \/ DeleteNode(o) \/ OpStep(o) PROVE ApiInv'
  <2>1. CASE Heal(o)
    <3>1. CASE live' = [live EXCEPT !.up = FALSE]
      BY <1>0, <3>1 DEF ApiInv, LiveType
    <3> QED BY <1>1, <2>1, <3>1 DEF Heal
  <2>2. CASE OpReload(o)
    BY <1>1, <1>2, <2>2 DEF OpReload
  <2>3. CASE OpPin(o)
    BY <1>3, <2>3 DEF OpPin
  <2>4. CASE SetActive(o) \/ DeleteNode(o) \/ Regenerate(o)
    BY <1>1, <2>4 DEF SetActive, DeleteNode, Regenerate, xray
  <2> QED BY <1>7, <2>1, <2>2, <2>3, <2>4 DEF OpStep
<1>8. CASE XrayRestart
  BY <1>2, <1>8 DEF XrayRestart
<1>9. CASE Reboot
  <2>1. CASE live' = [up |-> FALSE, api |-> FALSE, conf |-> live.conf, pin |-> 0]
    BY <2>1 DEF ApiInv
  <2> QED BY <1>2, <1>9, <2>1 DEF Reboot
<1>10. CASE UNCHANGED vars
  BY <1>1, <1>10 DEF vars
<1> QED BY <1>4, <1>5, <1>6, <1>7, <1>8, <1>9, <1>10 DEF Next, Step, Event

LEMMA FailStep == ASSUME Core, FailInv, [Next]_vars PROVE FailInv'
<1>0. RotsOK /\ lockOf \in [Circles -> Locks \cup {0}] /\ hc \in HcType
  BY DEF Core, HcOK
<1>f. "failover" \in Rotators /\ "failover" \notin {"tick", "manual"}
  BY DEF Rotators
<1>1. ASSUME UNCHANGED hc, rot'["failover"].at # "idle" => rot["failover"].at # "idle"
      PROVE  FailInv'
  BY <1>1 DEF FailInv
<1>2. CASE UNCHANGED <<rot, hc>>
  BY <1>2 DEF FailInv
<1>3. ASSUME NEW r \in Rotators \ {"failover"}, NEW c \in Circles, Enter(r, c), UNCHANGED hc
      PROVE  FailInv'
  <2>1. \A q \in Rotators : q # r => rot'[q] = rot[q]
    BY <1>0, <1>3, EnterWaits
  <2> QED BY <1>1, <1>f, <1>3, <2>1
<1>4. CASE Tick
  BY <1>2, <1>3, <1>4 DEF Tick, Rotators
<1>5. CASE RotateNow
  BY <1>3, <1>5 DEF RotateNow, Rotators
<1>6. CASE HealthStep
  <2>1. CASE Tier
    <3>1. hc.at = "tier"
      BY <2>1 DEF Tier
    <3>2. rot["failover"].at = "idle"
      BY <3>1 DEF FailInv
    <3>3. ASSUME NEW s, hc' = [hc EXCEPT !.at = "rotating", !.cands = s] PROVE FailInv'
      BY <1>0, <3>3 DEF FailInv, HcType
    <3>4. CASE UNCHANGED rot
      BY <3>2, <3>4 DEF FailInv
    <3> QED BY <2>1, <3>3, <3>4 DEF Tier
  <2>2. CASE TierDone
    BY <2>2 DEF TierDone, FailInv
  <2>3. CASE Check \/ Record \/ ListProbe \/ ListCommit \/ ListApply
    <3>1. hc.at # "rotating" /\ UNCHANGED rot
      BY <2>3 DEF Check, Record, ListProbe, ListCommit, ListApply
    <3> QED BY <3>1 DEF FailInv
  <2> QED BY <1>6, <2>1, <2>2, <2>3 DEF HealthStep
<1>7. ASSUME NEW r \in Rotators, RotStep(r) \/ Deadline(r) PROVE FailInv'
  <2>1. UNCHANGED hc
    BY <1>7 DEF RotStep, Snapshot, Probe, Write, Swap, Override, Sync, FullReload, Repin, Deadline
  <2>2. \A q \in Rotators : rot'[q].at # "idle" => rot[q].at # "idle"
    <3>1. \A q \in Rotators : q # r => rot'[q] = rot[q]
      BY <1>7, SnapshotFacts, ProbeFacts, WriteFacts, SwapFacts, OverrideFacts, SyncFacts,
         FullReloadFacts, RepinFacts, DeadlineFacts DEF RotStep, Moves
    <3>2. rot[r].at # "idle"
      BY <1>7, SnapshotFacts, ProbeFacts, WriteFacts, SwapFacts, OverrideFacts, SyncFacts,
         FullReloadFacts, RepinFacts, DeadlineFacts, InsideLabels DEF RotStep, Moves
    <3> QED BY <3>1, <3>2
  <2> QED BY <1>1, <1>f, <2>1, <2>2
<1>8. CASE Reboot
  BY <1>8 DEF Reboot, FailInv, NoRot, Rotators
<1>9. CASE UNCHANGED vars \/ Sweep \/ EditCircle \/ ToggleNode \/ Flip \/ XrayRestart
  BY <1>2, <1>9 DEF vars, Sweep, EditCircle, ToggleNode, Flip, XrayRestart
<1>10. ASSUME NEW o \in Ops, SetActive(o) \/ DeleteNode(o) \/ OpStep(o) PROVE FailInv'
  BY <1>2, <1>10 DEF SetActive, DeleteNode, OpStep, Heal, Regenerate, OpReload, OpPin
<1> QED BY <1>4, <1>5, <1>6, <1>7, <1>8, <1>9, <1>10 DEF Next, Step, Event

LEMMA LoneStep ==
  ASSUME ~SlowApi, RefusesUnloaded, Core, RowInv, ApiInv, FailInv, LoneInv, FailInv', [Next]_vars
  PROVE  LoneInv'
<1>0. /\ RotsOK /\ RowsOK /\ HcOK(hc) /\ hc \in HcType /\ op \in [Ops -> OpType]
      /\ lockOf \in [Circles -> Locks \cup {0}] /\ 0 \notin Nodes
  BY NodesAssumption DEF Core, HcOK
<1>f. "failover" \in Rotators /\ "health" \notin Rotators
  BY DEF Rotators
\* Only labels at which nothing is counted on.
<1>1. ASSUME NEW q \in Rotators, rot'[q].at \in {"idle", "wait", "probe", "write"}
      PROVE  RotCounts(q)'
  BY <1>1 DEF RotCounts
<1>2. ASSUME NEW o \in Ops, op'[o].at \in {"unsent", "heal", "done"} PROVE OpCounts(o)'
  BY <1>2 DEF OpCounts
<1>3. ASSUME hc'.at # "apply" PROVE HcCounts'
  BY <1>3 DEF HcCounts
<1>4. ASSUME Working = {}
      PROVE  /\ \A q \in Rotators : rot[q].at = "idle"
             /\ \A o \in Ops : op[o].at \in {"unsent", "done"}
             /\ hc.at \in {"idle", "probe"}
  BY <1>4 DEF Working, FailInv
<1>5. CASE UNCHANGED vars
  <2>1. Working' = Working /\ alone' = alone
    BY <1>5 DEF Working, vars
  <2>2. UNCHANGED <<node, circle, active, op, xray, rot, hc>>
    BY <1>5 DEF vars, xray
  <2>3. (Serves' <=> Serves) /\ (Loaded(active)' <=> Loaded(active)) /\ file' = file
    BY <2>2, ConfigSame DEF Serves, Loaded, xray
  <2> QED BY <2>1, <2>2, <2>3, ConfigSame DEF LoneInv, Solo, HcCounts, RotCounts, OpCounts
<1>6. CASE Step(Sweep)
  BY <1>6, Stands DEF Step, Sweep, Goes
\* A rotation that begins.
<1>7. ASSUME NEW r \in Rotators \ {"failover"}, NEW c \in Circles, Enter(r, c), Goes,
             UNCHANGED <<hc, op>>
      PROVE  LoneInv'
  <2>1. /\ rot[r].at = "idle" /\ rot'[r].at = "wait"
        /\ \A q \in Rotators : q # r => rot'[q] = rot[q]
    BY <1>0, <1>7, EnterWaits
  <2>2. r \notin Working /\ r \in Working' /\ Working' \subseteq Working \cup {r}
    BY <1>f, <1>7, <2>1, OpsAssumption DEF Working
  <2>3. Working = {} => /\ HcCounts' /\ \A q \in Rotators : RotCounts(q)'
                        /\ \A o \in Ops : OpCounts(o)'
    BY <1>1, <1>2, <1>3, <1>4, <1>7, <2>1
  <2> QED BY <1>7, <2>2, <2>3, Starts
<1>8. CASE Step(Tick)
  <2>1. CASE UNCHANGED rot
    BY <1>8, <2>1, Stands DEF Step, Tick, Goes, rows
  <2>2. ASSUME NEW c \in Circles, Enter("tick", c) PROVE LoneInv'
    BY <1>7, <1>8, <2>2 DEF Step, Tick, Goes, Rotators
  <2> QED BY <1>8, <2>1, <2>2 DEF Step, Tick
<1>9. CASE Step(RotateNow)
  BY <1>7, <1>9 DEF Step, RotateNow, Goes, Rotators
\* The health checker.
<1>10. CASE Step(HealthStep)
  <2>1. Goes
    BY <1>10 DEF Step, Goes
  <2>2. CASE Check
    <3>1. hc'.at = "probe"
      BY <1>0, <2>2 DEF Check, HcType
    <3> QED BY <2>1, <2>2, <3>1, Stands DEF Check, rows
  <2>3. CASE Record
    <3>1. hc.at = "probe" /\ UNCHANGED <<node, circle, active, op, xray, rot>>
      BY <2>3 DEF Record
    <3>2. PICK l \in {"tier", "idle"} : hc' = [hc EXCEPT !.at = l]
      BY <2>3 DEF Record
    <3>3. hc'.at = l
      BY <1>0, <3>2 DEF HcType
    <3>4. CASE l = "idle"
      BY <2>1, <3>1, <3>3, <3>4, Stands
    <3>5. CASE l = "tier"
      <4>1. "health" \notin Working /\ "health" \in Working' /\ Working' \subseteq Working \cup {"health"}
        BY <1>f, <3>1, <3>3, <3>5, OpsAssumption DEF Working
      <4>2. Working = {} => /\ HcCounts' /\ \A q \in Rotators : RotCounts(q)'
                            /\ \A o \in Ops : OpCounts(o)'
        BY <1>1, <1>2, <1>3, <1>4, <3>1, <3>3, <3>5
      <4> QED BY <2>1, <4>1, <4>2, Starts
    <3> QED BY <3>2, <3>4, <3>5
  <2>4. ASSUME hc.at \notin {"idle", "probe"}, UNCHANGED op, HcCounts',
               \A q \in Rotators : q # "failover" => rot'[q] = rot[q],
               rot'["failover"].at \in {"idle", "wait"}
        PROVE  LoneInv'
    <3>1. Working # {}
      BY <2>4 DEF Working
    <3>2. ASSUME Solo PROVE /\ HcCounts' /\ \A q \in Rotators : RotCounts(q)'
                            /\ \A o \in Ops : OpCounts(o)'
      <4>1. /\ \A q \in Rotators : q # "failover" => rot[q].at = "idle"
            /\ \A p \in Ops : op[p].at \in {"unsent", "done"}
        BY <2>4, <3>2, HealthOnly
      <4>2. \A q \in Rotators : rot'[q].at \in {"idle", "wait"}
        BY <2>4, <4>1
      <4> QED BY <1>1, <1>2, <2>4, <4>1, <4>2
    <3> QED BY <2>1, <3>1, <3>2, GoesOn
  <2>5. CASE Tier
    <3>1. hc.at = "tier" /\ UNCHANGED op
      BY <2>5 DEF Tier
    <3>2. rot["failover"].at = "idle"
      BY <3>1 DEF FailInv
    <3>3. HcCounts'
      <4>1. hc'.at \in {"rotating", "list"}
        BY <1>0, <2>5 DEF Tier, HcType
      <4> QED BY <1>3, <4>1
    <3>4. CASE UNCHANGED rot
      BY <2>4, <3>1, <3>2, <3>3, <3>4
    <3>5. ASSUME NEW c \in Circles, Enter("failover", c) PROVE LoneInv'
      <4>1. /\ rot'["failover"].at = "wait"
            /\ \A q \in Rotators : q # "failover" => rot'[q] = rot[q]
        BY <1>0, <1>f, <3>5, EnterWaits
      <4> QED BY <2>4, <3>1, <3>3, <4>1
    <3> QED BY <1>0, <2>5, <3>4, <3>5, CircleOfType DEF Tier
  <2>6. ASSUME hc.at \notin {"idle", "probe"}, rot["failover"].at = "idle", UNCHANGED <<op, rot>>,
               HcCounts'
        PROVE  LoneInv'
    BY <2>4, <2>6
  <2>7. CASE TierDone \/ ListProbe \/ ListApply
    <3>1. /\ hc.at \in {"rotating", "list", "apply"} /\ UNCHANGED <<op, rot>>
          /\ rot["failover"].at = "idle"
      BY <2>7 DEF TierDone, ListProbe, ListApply, FailInv
    <3>2. hc'.at # "apply"
      BY <1>0, <2>7 DEF TierDone, ListProbe, ListApply, Recovered, HcType
    <3> QED BY <1>3, <2>6, <3>1, <3>2
  <2>8. CASE ListCommit
    <3>1. hc.at = "commit" /\ UNCHANGED <<op, rot, node>>
      BY <2>8 DEF ListCommit
    <3>2. HcCounts'
      <4>1. CASE Enabled(Head(hc.cands)) /\ active' = Head(hc.cands)
        BY <3>1, <4>1 DEF HcCounts, There, Enabled
      <4>2. ASSUME hc'.at # "apply" PROVE HcCounts'
        BY <1>3, <4>2
      <4>3. \/ Enabled(Head(hc.cands)) /\ active' = Head(hc.cands)
            \/ hc'.at # "apply"
        BY <1>0, <2>8 DEF ListCommit, Recovered, HcType
      <4> QED BY <4>1, <4>2, <4>3
    <3>3. rot["failover"].at = "idle"
      BY <3>1 DEF FailInv
    <3> QED BY <2>6, <3>1, <3>2, <3>3
  <2>9. HealthStep
    BY <1>10 DEF Step
  <2> QED BY <2>2, <2>3, <2>5, <2>7, <2>8, <2>9 DEF HealthStep
\* A rotation on its way.
<1>11. ASSUME NEW r \in Rotators, Step(RotStep(r)) PROVE LoneInv'
  <2>1. Goes /\ RotStep(r)
    BY <1>11 DEF Step, Goes
  <2>2. /\ rot[r].at # "idle" /\ UNCHANGED <<op, hc>>
        /\ \A q \in Rotators : q # r => rot'[q] = rot[q]
    <3>1. UNCHANGED <<op, hc>>
      BY <2>1 DEF RotStep, Snapshot, Probe, Write, Swap, Override, Sync, FullReload, Repin
    <3> QED BY <2>1, <3>1, SnapshotFacts, ProbeFacts, WriteFacts, SwapFacts, OverrideFacts,
               SyncFacts, FullReloadFacts, RepinFacts, InsideLabels DEF RotStep, Moves
  <2>3. Working # {}
    <3>1. r # "failover" => r \in Working
      BY <2>2 DEF Working
    <3>2. r = "failover" => "health" \in Working
      BY <2>2 DEF Working, FailInv
    <3> QED BY <3>1, <3>2
  <2>4. ASSUME alone, Solo PROVE /\ HcCounts' /\ \A q \in Rotators : RotCounts(q)'
                                 /\ \A o \in Ops : OpCounts(o)'
    <3>1. /\ \A q \in Rotators : q # r => rot[q].at = "idle"
          /\ \A o \in Ops : op[o].at \in {"unsent", "done"}
          /\ hc.at \in {"idle", "probe", "rotating"}
      BY <2>2, <2>4, RotOnly
    <3>2. RotCounts(r)'
      BY <2>1, <2>4, RotCountsStep DEF LoneInv
    <3>3. HcCounts' /\ \A o \in Ops : OpCounts(o)'
      BY <1>2, <1>3, <2>2, <3>1
    <3>4. \A q \in Rotators : q # r => RotCounts(q)'
      BY <1>1, <2>2, <3>1
    <3> QED BY <3>2, <3>3, <3>4
  <2> QED BY <2>1, <2>3, <2>4, GoesOn
\* A request.
<1>12. ASSUME NEW o \in Ops, Step(SetActive(o)) \/ Step(DeleteNode(o)) PROVE LoneInv'
  <2>1. Goes /\ op[o].at = "unsent" /\ UNCHANGED <<rot, hc>>
    BY <1>12 DEF Step, Goes, SetActive, DeleteNode
  <2>2. PICK l \in {"regen", "heal"}, n \in Nodes :
          /\ OpGo(o, l, n)
          /\ l = "regen" => node[n] # "gone" /\ active' = n /\ UNCHANGED node
    BY <1>12 DEF Step, SetActive, DeleteNode
  <2>3. op'[o] = [at |-> l, node |-> n] /\ \A p \in Ops : p # o => op'[p] = op[p]
    BY <1>0, <2>2, OpGoType DEF OpAt
  <2>4. o \notin Working /\ o \in Working' /\ Working' \subseteq Working \cup {o}
    BY <2>1, <2>3, OpsAssumption DEF Working
  <2>5. OpCounts(o)'
    BY <2>2, <2>3 DEF OpCounts, There
  <2>6. Working = {} => /\ HcCounts' /\ \A q \in Rotators : RotCounts(q)'
                        /\ \A p \in Ops : OpCounts(p)'
    BY <1>1, <1>2, <1>3, <1>4, <2>1, <2>3, <2>5
  <2> QED BY <2>1, <2>4, <2>6, Starts
<1>13. ASSUME NEW o \in Ops, Step(OpStep(o)) PROVE LoneInv'
  <2>1. Goes /\ UNCHANGED <<rot, hc>> /\ op[o].at \notin {"unsent", "done"}
    BY <1>13 DEF Step, Goes, OpStep, Heal, Regenerate, OpReload, OpPin
  <2>2. op[o].node \in Nodes \cup {0} /\ active \in Nodes \cup {0}
    BY <1>0 DEF OpType, RowsOK
  <2>3. OpStep(o)
    BY <1>13 DEF Step
  <2>4. ASSUME OpCounts(o), NEW l \in OpAt, NEW n \in Nodes \cup {0}, OpGo(o, l, n),
               l \in {"regen", "reload", "pin"} => n = active' /\ There(active)',
               l = "reload" => file' = Config(active)',
               l = "pin" => Loaded(active)'
        PROVE  OpCounts(o)'
    <3>1. op'[o] = [at |-> l, node |-> n]
      BY <1>0, <2>4, OpGoType
    <3> QED BY <2>4, <3>1 DEF OpCounts
  <2>5. ASSUME OpCounts(o) PROVE OpCounts(o)' /\ \A p \in Ops : p # o => op'[p] = op[p]
    <3>1. CASE Heal(o)
      <4>1. CASE OpGo(o, "done", 0)
        BY <1>0, <2>4, <2>5, <4>1, OpGoType DEF OpAt
      <4>2. CASE OpGo(o, "regen", active') /\ active' # 0 /\ active' = Survivor
        <5>1. active' \in Nodes /\ node[active'] = "on"
          BY <1>0, <4>2, SurvivorType
        <5>2. There(active)'
          BY <3>1, <5>1 DEF Heal, There
        <5>3. PICK n \in Nodes : n = active'
          BY <5>1
        <5>4. OpGo(o, "regen", n)
          BY <4>2, <5>3
        <5> QED BY <1>0, <2>4, <2>5, <5>2, <5>3, <5>4, OpGoType DEF OpAt
      <4>3. \/ OpGo(o, "done", 0)
            \/ active' # 0 /\ active' = Survivor /\ OpGo(o, "regen", active')
            \/ active' # 0 /\ active' = Survivor /\ OpGo(o, "done", active')
        BY <3>1 DEF Heal
      <4>4. CASE OpGo(o, "done", active') /\ active' # 0 /\ active' = Survivor
        <5>1. PICK n \in Nodes : n = active'
          BY <1>0, <4>4, SurvivorType
        <5>2. OpGo(o, "done", n)
          BY <4>4, <5>1
        <5> QED BY <1>0, <2>4, <2>5, <5>2, OpGoType DEF OpAt
      <4> QED BY <4>1, <4>2, <4>3, <4>4
    <3>2. CASE Regenerate(o)
      <4>1. /\ op[o].at = "regen" /\ file' = Config(active) /\ OpGo(o, "reload", op[o].node)
            /\ UNCHANGED <<node, circle, active>>
        BY <3>2 DEF Regenerate, rows
      <4>2. op[o].node = active /\ There(active)
        BY <2>5, <4>1 DEF OpCounts
      <4> QED BY <1>0, <2>2, <2>4, <2>5, <4>1, <4>2, ConfigSame, OpGoType DEF OpAt
    <3>3. CASE OpReload(o)
      <4>1. /\ op[o].at = "reload" /\ OpGo(o, "pin", op[o].node) /\ UNCHANGED <<node, circle, active>>
            /\ (live'.up => live'.conf = file)
        BY <3>3 DEF OpReload, Load, rows
      <4>2. op[o].node = active /\ There(active) /\ file = Config(active)
        BY <2>5, <4>1 DEF OpCounts
      <4>3. Loaded(active)'
        BY <4>1, <4>2, ConfigSame DEF Loaded
      <4> QED BY <1>0, <2>2, <2>4, <2>5, <4>1, <4>2, <4>3, ConfigSame, OpGoType DEF OpAt
    <3>4. CASE OpPin(o)
      BY <1>0, <2>4, <2>5, <3>4, OpGoType DEF OpPin, OpAt
    <3> QED BY <2>3, <3>1, <3>2, <3>3, <3>4 DEF OpStep
  <2>6. Working # {}
    BY <2>1 DEF Working
  <2>7. ASSUME alone, Solo PROVE /\ HcCounts' /\ \A q \in Rotators : RotCounts(q)'
                                 /\ \A p \in Ops : OpCounts(p)'
    <3>1. /\ \A q \in Rotators : rot[q].at = "idle"
          /\ \A p \in Ops : p # o => op[p].at \in {"unsent", "done"}
          /\ hc.at \in {"idle", "probe"}
      BY <2>1, <2>7, OpOnly
    <3>2. OpCounts(o)' /\ \A p \in Ops : p # o => op'[p] = op[p]
      BY <2>5, <2>7 DEF LoneInv
    <3> QED BY <1>1, <1>2, <1>3, <2>1, <3>1, <3>2
  <2> QED BY <2>1, <2>6, <2>7, GoesOn
\* Whatever an event meets is not alone any more.
<1>14. ASSUME alone' = (Working' = {}) PROVE LoneInv'
  BY <1>14, Quiet DEF LoneInv
<1> QED BY <1>5, <1>6, <1>8, <1>9, <1>10, <1>11, <1>12, <1>13, <1>14 DEF Next, Event

-------------------------------------------------------------------------------
(* The theorems.                                                           *)

CircleInv == TypeInv /\ LockInv /\ RowInv

LEMMA CircleInit == ASSUME Init PROVE CircleInv
<1>1. LeftOK(left)
  BY LimitsDomain, LimitsAssumption DEF Init, LeftOK
<1>2. circle \in [Circles -> CircleType]
  <2>1. \A l \in Lists : [st |-> "on", ids |-> l, idx |-> 0] \in CircleType
    BY ListsAssumption DEF CircleType, States
  <2> QED BY <2>1 DEF Init
<1>3. RowsOK /\ alive \subseteq Nodes
  BY <1>2 DEF Init, RowsOK, States
<1>4. HcOK(hc) /\ fails \in [Nodes -> 0..Threshold]
  <2>1. Threshold \in Nat
    BY LimitsAssumption
  <2>2. 0 \in 0..Threshold /\ <<>> \in Seq(Nodes)
    BY <2>1
  <2> QED BY <2>2 DEF Init, HcOK, HcType, HcAt
<1>5. RotsOK /\ lockOf \in [Circles -> Locks \cup {0}]
  BY NoRotOK DEF Init, RotsOK, RotOK
<1>6. op \in [Ops -> OpType]
  <2>1. [at |-> "unsent", node |-> 0] \in OpType
    BY DEF OpType, OpAt
  <2> QED BY <2>1 DEF Init
<1>7. file \in Configs
  BY <1>3, ConfigType DEF Init
<1>8. live \in LiveType
  BY <1>7 DEF Init, LiveType
<1>9. TypeParts
  BY <1>1, <1>3, <1>4, <1>5, <1>6, <1>7, <1>8 DEF Init, TypeParts
<1>10. LockInv
  BY InsideLabels DEF Init, LockInv, NoRot
<1>11. RowInv
  <2>1. \A c \in Circles : Members(c) \subseteq Nodes
    BY <1>3, RangeSeq DEF RowsOK, CircleType, Members
  <2> QED BY <2>1 DEF Init, RowInv
<1> QED BY <1>9, <1>10, <1>11, ByParts DEF CircleInv

LEMMA CircleStep == ASSUME CircleInv, [Next]_vars PROVE CircleInv'
<1>1. TypeParts /\ Core
  BY ByParts DEF CircleInv, TypeParts, Core
<1>2. Core' /\ alone' \in BOOLEAN
  <2>1. CASE UNCHANGED vars
    BY <1>1, <2>1 DEF vars, TypeParts, Core, RowsOK, RotsOK, HcOK
  <2>2. CASE Next
    <3>1. alone' \in BOOLEAN
      BY <2>2 DEF Next, Step, Event
    <3>2. \/ Tick \/ RotateNow \/ HealthStep \/ Sweep
          \/ \E r \in Rotators : RotStep(r) \/ Deadline(r)
          \/ \E o \in Ops : SetActive(o) \/ DeleteNode(o) \/ OpStep(o)
          \/ EditCircle \/ ToggleNode \/ Flip \/ XrayRestart \/ Reboot
      BY <2>2 DEF Next, Step, Event
    <3>3. ASSUME NEW r \in Rotators, RotStep(r) \/ Deadline(r) PROVE Core'
      BY <1>1, <3>3, SnapshotFacts, ProbeFacts, WriteFacts, SwapFacts, OverrideFacts, SyncFacts,
         FullReloadFacts, RepinFacts, DeadlineFacts DEF RotStep
    <3> QED BY <1>1, <3>1, <3>2, <3>3, TickType, RotateNowType, HealthType, SweepType, RequestType,
               EventType
  <2> QED BY <2>1, <2>2
<1>3. LockInv' /\ RowInv'
  BY <1>1, LockStep, RowStep DEF CircleInv
<1>4. TypeParts'
  BY <1>2 DEF TypeParts, Core
<1>5. TypeInv'
  BY <1>4 DEF TypeInv, TypeOK, CandsInv, TypeParts, RowsOK, RotsOK, RotOK, HcOK, HcType, HcAt,
              RotType, OpType, OpAt, LiveType, CircleType, LeftOK
<1> QED BY <1>3, <1>5 DEF CircleInv

\* Every variable keeps its type: among them the candidate lists, which the code walks
\* without asking whether they are empty.
THEOREM CirclesTyped == Spec => []TypeOK
<1>1. Init => CircleInv
  BY CircleInit
<1>2. CircleInv /\ [Next]_vars => CircleInv'
  BY CircleStep
<1>3. CircleInv => TypeOK
  BY DEF CircleInv, TypeInv
<1> QED BY <1>1, <1>2, <1>3, PTL DEF Spec

\* Two rotations of one circle are never past its lock together, however ticks, "rotate
\* now" requests, failovers, deadlines and reboots overlap, unless the lock was dropped
\* while one of them held it or waited for it.
THEOREM RotationsExclude == Spec => []OneRotation
<1>1. Init => CircleInv
  BY CircleInit
<1>2. CircleInv /\ [Next]_vars => CircleInv'
  BY CircleStep
<1>3. CircleInv => OneRotation
  <2> SUFFICES ASSUME CircleInv, NEW c \in Circles, Together(c), c \notin dropped PROVE FALSE
    BY DEF OneRotation
  <2>1. PICK r, q \in Rotators : /\ r # q /\ rot[r].at \in Inside /\ rot[q].at \in Inside
                                 /\ rot[r].circle = c /\ rot[q].circle = c
    BY DEF Together
  <2> QED BY <2>1, InsideLabels DEF CircleInv, LockInv
<1> QED BY <1>1, <1>2, <1>3, PTL DEF Spec

\* Once no switch is under way the active node is a row that exists, whatever was deleted
\* while rotations, failovers and requests were on their way to a commit.
THEOREM ActiveStays == Spec => []ActiveExists
<1>1. Init => CircleInv
  BY CircleInit
<1>2. CircleInv /\ [Next]_vars => CircleInv'
  BY CircleStep
<1>3. CircleInv => ActiveExists
  BY DEF CircleInv, RowInv, ActiveExists, Working
<1> QED BY <1>1, <1>2, <1>3, PTL DEF Spec

\* A switch nobody interfered with ends with the new connections on the active node, where
\* the API port is open once a restart has returned and xray refuses to override with an
\* outbound it has not loaded.
THEOREM LoneSwitches == ASSUME ~SlowApi, RefusesUnloaded PROVE Spec => LoneSwitchServes
<1> DEFINE I == CircleInv /\ ApiInv /\ FailInv /\ LoneInv
<1>1. Init => I
  <2> SUFFICES ASSUME Init PROVE I
    OBVIOUS
  <2>1. /\ \A r \in Rotators : rot[r].at = "idle"
        /\ \A o \in Ops : op[o].at = "unsent"
        /\ hc.at = "idle"
    BY DEF Init, NoRot
  <2>2. ApiInv
    BY DEF Init, ApiInv
  <2>3. FailInv
    BY <2>1 DEF FailInv, Rotators
  <2>4. LoneInv
    BY <2>1 DEF LoneInv, Solo, Working, HcCounts, RotCounts, OpCounts
  <2> QED BY <2>2, <2>3, <2>4, CircleInit
<1>2. I /\ [Next]_vars => I'
  <2> SUFFICES ASSUME I, [Next]_vars PROVE I'
    OBVIOUS
  <2>1. Core /\ RowInv
    BY ByParts DEF CircleInv, TypeParts, Core
  <2> QED BY <2>1, CircleStep, ApiStep, FailStep, LoneStep
<1>3. I /\ [Next]_vars => [alone /\ Completes => Serves']_vars
  <2> SUFFICES ASSUME I, [Next]_vars, alone, Completes PROVE Serves'
    OBVIOUS
  <2>0. Core /\ RowInv /\ RotsOK /\ RowsOK /\ live \in LiveType /\ LeftOK(left) /\ hc \in HcType
        /\ op \in [Ops -> OpType] /\ lockOf \in [Circles -> Locks \cup {0}]
    BY ByParts DEF CircleInv, TypeParts, Core, HcOK
  <2>1. left' = left
    BY DEF Completes
  <2>2. \A k : ~Spend(k)
    <3>1. left["all"] \in Nat /\ left \in [DOMAIN Limits -> Nat] /\ "all" \in DOMAIN Limits
      BY <2>0, LimitsDomain DEF LeftOK
    <3> QED BY <2>1, <3>1 DEF Spend
  <2>3. ASSUME NEW r \in Rotators, rot[r].at \in {"sync", "reload", "pin"}, rot'[r].at = "idle"
        PROVE  Serves'
    <3>1. RotCounts(r)
      BY DEF LoneInv
    <3>2. RotStep(r)
      <4>1. rot' # rot
        BY <2>3
      <4>2. ASSUME NEW q \in Rotators, NEW c \in Circles, Enter(q, c) PROVE FALSE
        BY <2>0, <2>3, <4>2, EnterWaits
      <4>3. ASSUME NEW q \in Rotators, RotStep(q) PROVE RotStep(r)
        <5>1. \A p \in Rotators : p # q => rot'[p] = rot[p]
          BY <2>0, <4>3, SnapshotFacts, ProbeFacts, WriteFacts, SwapFacts, OverrideFacts,
             SyncFacts, FullReloadFacts, RepinFacts DEF RotStep, Moves
        <5>2. q = r
          BY <2>3, <5>1
        <5> QED BY <4>3, <5>2
      <4>4. ~Tick /\ ~RotateNow
        BY <2>2, <4>1, <4>2 DEF Tick, RotateNow, Rotators
      <4>5. ~HealthStep
        <5>1. ~Tier
          BY <2>0, <4>1, <4>2, CircleOfType DEF Tier, Rotators
        <5>2. ~(Check \/ Record \/ TierDone \/ ListProbe \/ ListCommit \/ ListApply)
          BY <4>1 DEF Check, Record, TierDone, ListProbe, ListCommit, ListApply
        <5> QED BY <5>1, <5>2 DEF HealthStep
      <4>6. ~Sweep /\ \A o \in Ops : ~(SetActive(o) \/ DeleteNode(o) \/ OpStep(o))
        BY <4>1 DEF Sweep, SetActive, DeleteNode, OpStep, Heal, Regenerate, OpReload, OpPin
      <4>7. /\ ~(EditCircle \/ ToggleNode \/ Flip \/ XrayRestart \/ Reboot)
            /\ \A q \in Rotators : ~Deadline(q)
        BY <2>2 DEF EditCircle, ToggleNode, Flip, XrayRestart, Reboot, Deadline
      <4>8. Next
        BY <4>1 DEF vars
      <4> QED BY <4>3, <4>4, <4>5, <4>6, <4>7, <4>8 DEF Next, Step, Event
    <3>3. CASE Sync(r)
      <4>1. UNCHANGED <<live, active>> /\ rot[r].at = "sync"
        BY <3>3 DEF Sync, rows
      <4> QED BY <3>1, <4>1 DEF RotCounts, Serves
    <3>4. CASE FullReload(r)
      <4>1. rot[r].at = "reload" /\ Go(r, "pin")
        BY <3>1, <3>4 DEF RotCounts, FullReload
      <4>2. rot'[r] = [rot[r] EXCEPT !.at = "pin"]
        BY <2>0, <4>1, GoType, InsideLabels
      <4> QED BY <2>0, <2>3, <4>2 DEF RotsOK, RotType
    <3>5. CASE Repin(r)
      <4>1. PICK open \in BOOLEAN : Finds(open) /\ PinTo(Head(rot[r].cands), open)
        BY <3>5 DEF Repin
      <4>2. rot[r].at = "pin" /\ UNCHANGED active
        BY <3>5 DEF Repin, rows
      <4>3. active = Head(rot[r].cands) /\ There(active) /\ Loaded(active)
        BY <3>1, <4>2 DEF RotCounts
      <4> QED BY <2>0, <4>1, <4>2, <4>3, PinServes
    <3> QED BY <2>3, <3>2, <3>3, <3>4, <3>5
            DEF RotStep, Snapshot, Probe, Write, Swap, Override
  <2>4. ASSUME NEW o \in Ops, op[o].at = "pin", op'[o].at = "done" PROVE Serves'
    <3>1. op' # op
      BY <2>4
    <3>2. OpCounts(o)
      BY DEF LoneInv
    <3>3. OpStep(o)
      <4>1. ASSUME NEW p \in Ops, SetActive(p) \/ DeleteNode(p) \/ OpStep(p) PROVE p = o
        <5>1. PICK l \in OpAt, n \in Nodes \cup {0} : OpGo(p, l, n)
          <6>1. active \in Nodes \cup {0} /\ op[p].node \in Nodes \cup {0}
            BY <2>0 DEF RowsOK, OpType
          <6>2. Survivor \in Nodes \cup {0}
            BY <2>0, SurvivorType
          <6> QED BY <4>1, <6>1, <6>2
                  DEF SetActive, DeleteNode, OpStep, Heal, Regenerate, OpReload, OpPin, OpAt
        <5>2. \A q \in Ops : q # p => op'[q] = op[q]
          BY <2>0, <5>1, OpGoType
        <5> QED BY <2>4, <5>2
      <4>2. ~(SetActive(o) \/ DeleteNode(o))
        BY <2>4 DEF SetActive, DeleteNode
      <4>3. ~(Tick \/ RotateNow \/ HealthStep \/ Sweep) /\ \A r \in Rotators : ~RotStep(r)
        BY <3>1 DEF Tick, RotateNow, HealthStep, Check, Record, Tier, TierDone, ListProbe,
                    ListCommit, ListApply, Sweep, RotStep, Snapshot, Probe, Write, Swap, Override,
                    Sync, FullReload, Repin
      <4>4. /\ ~(EditCircle \/ ToggleNode \/ Flip \/ XrayRestart \/ Reboot)
            /\ \A q \in Rotators : ~Deadline(q)
        BY <2>2 DEF EditCircle, ToggleNode, Flip, XrayRestart, Reboot, Deadline
      <4>5. Next
        BY <3>1 DEF vars
      <4> QED BY <4>1, <4>2, <4>3, <4>4, <4>5 DEF Next, Step, Event
    <3>4. OpPin(o)
      BY <2>4, <3>3 DEF OpStep, Heal, Regenerate, OpReload
    <3>5. op[o].node = active /\ There(active) /\ Loaded(active)
      BY <2>4, <3>2 DEF OpCounts
    <3>6. UNCHANGED active /\ \E open \in BOOLEAN : Finds(open) /\ PinTo(active, open)
      BY <3>4, <3>5 DEF OpPin, rows
    <3> QED BY <2>0, <3>5, <3>6, PinServes
  <2>5. CASE hc.at = "apply" /\ hc'.at = "idle"
    <3>1. hc' # hc
      BY <2>5
    <3>2. HealthStep
      <4>1. ~(Tick \/ RotateNow \/ Sweep) /\ \A r \in Rotators : ~RotStep(r)
        BY <3>1 DEF Tick, RotateNow, Sweep, RotStep, Snapshot, Probe, Write, Swap, Override,
                    Sync, FullReload, Repin
      <4>2. \A o \in Ops : ~(SetActive(o) \/ DeleteNode(o) \/ OpStep(o))
        BY <3>1 DEF SetActive, DeleteNode, OpStep, Heal, Regenerate, OpReload, OpPin
      <4>3. /\ ~(EditCircle \/ ToggleNode \/ Flip \/ XrayRestart \/ Reboot)
            /\ \A q \in Rotators : ~Deadline(q)
        BY <2>2 DEF EditCircle, ToggleNode, Flip, XrayRestart, Reboot, Deadline
      <4>4. Next
        BY <3>1 DEF vars
      <4> QED BY <4>1, <4>2, <4>3, <4>4 DEF Next, Step, Event
    <3>3. ListApply
      BY <2>5, <3>2 DEF HealthStep, Check, Record, Tier, TierDone, ListProbe, ListCommit
    <3>4. There(active) /\ UNCHANGED active
      BY <2>5, <3>3 DEF LoneInv, HcCounts, ListApply, rows
    <3>5. 0 \notin Nodes
      BY NodesAssumption
    <3>6. PlainConfig(active).bal = 0 /\ PlainConfig(active).node = active
      <4>1. Config(active).node = active /\ Config(active) \in Configs
        BY <2>0, <3>4, <3>5, ConfigFacts, ConfigType DEF There
      <4> QED BY <4>1 DEF PlainConfig, Configs
    <3>7. live'.conf = PlainConfig(active)
      BY <3>3 DEF ListApply, Load
    <3> QED BY <3>4, <3>6, <3>7 DEF Serves
  <2> QED BY <2>3, <2>4, <2>5 DEF Completes
<1> QED BY <1>1, <1>2, <1>3, PTL DEF Spec, LoneSwitchServes

-----------------------------------------------------------------------------
\* What is true of 0, and of the next number, is true of all.
LEMMA Climbs ==
  ASSUME NEW n \in Nat, NEW B, 0 \in B, \A k \in 0..n : (k \in B /\ k < n) => k + 1 \in B
  PROVE  \A k \in 0..n : k \in B
<1> DEFINE Bad == {k \in 0..n : k \notin B}
<1> SUFFICES ASSUME Bad # {} PROVE FALSE
  OBVIOUS
<1>1. PICK m \in Bad : \A k \in Bad : m <= k
  <2>1. Bad \in SUBSET Nat
    OBVIOUS
  <2> HIDE DEF Bad
  <2> QED BY <2>1, LeastNat
<1>2. m \in 0..n /\ m \notin B /\ m # 0
  OBVIOUS
<1>3. m - 1 \in 0..n /\ m - 1 \notin Bad
  <2> HIDE DEF Bad
  <2> QED BY <1>1, <1>2
<1>4. m - 1 \in B
  BY <1>3
<1>5. (m - 1) + 1 = m /\ m - 1 < n
  BY <1>2
<1> QED BY <1>2, <1>3, <1>4, <1>5

\* A function defined by recursion on a number exists, when each step stays in D.
Iterated(f, D, n, b, g) ==
  f \in [0..n -> D] /\ \A k \in 0..n : f[k] = IF k = 0 THEN b ELSE g[<<f[k - 1], k>>]

LEMMA Iterates ==
  ASSUME NEW D, NEW n \in Nat, NEW b \in D, NEW g \in [D \X (0..n) -> D]
  PROVE  \E f : Iterated(f, D, n, b, g)
<1> DEFINE Upto(m) == \E f \in [0..m -> D] :
                        f = [k \in 0..m |-> IF k = 0 THEN b ELSE g[<<f[k - 1], k>>]]
           B == {m \in 0..n : Upto(m)}
<1>1. 0 \in B
  <2>1. [k \in 0..0 |-> b] \in [0..0 -> D]
    OBVIOUS
  <2>2. [k \in 0..0 |-> b] = [k \in 0..0 |-> IF k = 0 THEN b
                                             ELSE g[<<[j \in 0..0 |-> b][k - 1], k>>]]
    OBVIOUS
  <2>3. Upto(0)
    BY <2>1, <2>2
  <2> QED BY <2>3
<1>2. ASSUME NEW m \in 0..n, m \in B, m < n PROVE m + 1 \in B
  <2>1. PICK f \in [0..m -> D] : f = [k \in 0..m |-> IF k = 0 THEN b ELSE g[<<f[k - 1], k>>]]
    BY <1>2
  <2> DEFINE h == [k \in 0..(m + 1) |-> IF k = m + 1 THEN g[<<f[m], m + 1>>] ELSE f[k]]
  <2>2. f[m] \in D /\ m + 1 \in 0..n
    BY <1>2, <2>1
  <2>3. g[<<f[m], m + 1>>] \in D
    BY <2>2
  <2>4. h \in [0..(m + 1) -> D]
    BY <2>3
  <2>5. \A k \in 0..m : f[k] = IF k = 0 THEN b ELSE g[<<f[k - 1], k>>]
    BY <2>1
  <2>6. \A k \in 0..(m + 1) : h[k] = IF k = 0 THEN b ELSE g[<<h[k - 1], k>>]
    <3> TAKE k \in 0..(m + 1)
    <3>1. CASE k = m + 1
      <4>1. h[m + 1] = g[<<f[m], m + 1>>] /\ h[m] = f[m] /\ (m + 1) - 1 = m /\ m + 1 # 0
        OBVIOUS
      <4> HIDE DEF h
      <4> QED BY <3>1, <4>1
    <3>2. CASE k # m + 1
      <4>1. k \in 0..m /\ (k # 0 => k - 1 \in 0..m /\ k - 1 # m + 1 /\ k - 1 \in 0..(m + 1))
        BY <3>2
      <4> QED BY <2>5, <3>2, <4>1
    <3> QED BY <3>1, <3>2
  <2>7. h = [k \in 0..(m + 1) |-> IF k = 0 THEN b ELSE g[<<h[k - 1], k>>]]
    <3> DEFINE q == [k \in 0..(m + 1) |-> IF k = 0 THEN b ELSE g[<<h[k - 1], k>>]]
    <3>1. \A k \in 0..(m + 1) : h[k] = q[k]
      BY <2>6
    <3> QED BY <3>1, <2>4
  <2> HIDE DEF h
  <2>8. Upto(m + 1)
    BY <2>4, <2>7
  <2> QED BY <2>2, <2>8
<1>3. n \in 0..n /\ n \in B
  <2>1. n \in 0..n
    OBVIOUS
  <2> HIDE DEF B
  <2>2. \A k \in 0..n : k \in B
    BY <1>1, <1>2, Climbs
  <2> QED BY <2>1, <2>2
<1>4. PICK f \in [0..n -> D] : f = [k \in 0..n |-> IF k = 0 THEN b ELSE g[<<f[k - 1], k>>]]
  BY <1>3
<1> QED BY <1>4 DEF Iterated

-----------------------------------------------------------------------------
(* Sets of numbers and their order.                                        *)

LEMMA IdsFacts == \E N \in Nat \ {0} : Ids = 1..N
<1>1. Cardinality(Ids) \in Nat \ {0}
  BY IdsAssumption, FS_CardinalityType, FS_EmptySet
<1> QED BY <1>1, IdsAssumption

LEMMA FiniteIds == Ids \subseteq Nat \ {0} /\ IsFiniteSet(Ids) /\ Ids # {}
<1>1. PICK N \in Nat \ {0} : Ids = 1..N
  BY IdsFacts
<1>2. 1 \in Ids /\ Ids \subseteq Nat \ {0}
  BY <1>1
<1>3. IsFiniteSet(1..N)
  BY FS_Interval
<1> QED BY <1>1, <1>2, <1>3

\* Ascending(S) lists S once.
LEMMA AscendingFacts ==
  ASSUME NEW S \in SUBSET Nat, IsFiniteSet(S)
  PROVE  /\ Cardinality(S) \in Nat /\ DOMAIN Ascending(S) = 1..Cardinality(S)
         /\ Ascending(S) \in Seq(S) /\ Len(Ascending(S)) = Cardinality(S)
         /\ Range(Ascending(S)) = S /\ IsInjective(Ascending(S))
         /\ \A k \in 1..Cardinality(S) :
              Ascending(S)[k] \in S /\ Cardinality({y \in S : y <= Ascending(S)[k]}) = k
<1> DEFINE N == Cardinality(S)
           Below(x) == {y \in S : y <= x}
           r == [x \in S |-> Cardinality(Below(x))]
<1>0. N \in Nat /\ IsFiniteSet(1..N) /\ Cardinality(1..N) = N
  BY FS_CardinalityType, FS_Interval
<1>1. \A x \in S : IsFiniteSet(Below(x)) /\ x \in Below(x)
  BY FS_Subset
<1>2. \A x \in S : Cardinality(Below(x)) \in 1..N
  <2> TAKE x \in S
  <2>1. Cardinality(Below(x)) \in Nat /\ Cardinality(Below(x)) <= N
    BY <1>1, FS_CardinalityType, FS_Subset
  <2>2. Cardinality(Below(x)) # 0
    BY <1>1, FS_EmptySet
  <2> QED BY <1>0, <2>1, <2>2
<1>3. \A x, y \in S : x < y => Cardinality(Below(x)) # Cardinality(Below(y))
  <2> SUFFICES ASSUME NEW x \in S, NEW y \in S, x < y PROVE Cardinality(Below(x)) # Cardinality(Below(y))
    OBVIOUS
  <2>1. y \in Below(y) /\ y \notin Below(x)
    OBVIOUS
  <2>2. ASSUME NEW z \in S, z <= x PROVE z <= y
    BY <2>2
  <2>3. Below(x) \subseteq Below(y)
    BY <2>2
  <2> QED BY <1>1, <2>1, <2>3, FS_Subset
<1>4. r \in Injection(S, 1..N)
  <2>1. \A x, y \in S : r[x] = r[y] => x = y
    BY <1>3
  <2>2. r \in [S -> 1..N]
    BY <1>2
  <2> HIDE DEF r
  <2> QED BY <2>1, <2>2 DEF Injection, IsInjective
<1>5. r \in Surjection(S, 1..N)
  BY <1>0, <1>4, FS_Injection
<1>6. \A k \in 1..N : \E x \in S : Cardinality(Below(x)) = k
  BY <1>5 DEF Surjection
<1> DEFINE a == Ascending(S)
<1>7. a = [k \in 1..N |-> CHOOSE x \in S : Cardinality(Below(x)) = k]
  BY DEF Ascending
<1>8. \A k \in 1..N : a[k] \in S /\ Cardinality(Below(a[k])) = k
  BY <1>6, <1>7
<1>9. \A x \in S : a[Cardinality(Below(x))] = x
  <2> TAKE x \in S
  <2>1. a[Cardinality(Below(x))] \in S
        /\ Cardinality(Below(a[Cardinality(Below(x))])) = Cardinality(Below(x))
    BY <1>2, <1>8
  <2> DEFINE y == a[Cardinality(Below(x))]
  <2> HIDE DEF y, Below
  <2>2. y \in S /\ ~(x < y) /\ ~(y < x)
    BY <1>3, <2>1 DEF y
  <2>3. y = x
    BY <2>2
  <2> QED BY <2>3 DEF y
<1> HIDE DEF a, Below
<1>10. DOMAIN a = 1..N /\ a \in Seq(S) /\ Len(a) = N
  BY <1>0, <1>7, <1>8
<1>11. Range(a) = S
  <2>1. Range(a) \subseteq S
    BY <1>8, <1>10 DEF Range
  <2>2. S \subseteq Range(a)
    BY <1>2, <1>9, <1>10 DEF Range
  <2> QED BY <2>1, <2>2
<1>12. IsInjective(a)
  BY <1>8, <1>10 DEF IsInjective
<1>13. \A k \in 1..N : a[k] \in S /\ Cardinality({y \in S : y <= a[k]}) = k
  BY <1>8 DEF Below
<1> QED BY <1>0, <1>10, <1>11, <1>12, <1>13 DEF a

LEMMA MaxFacts ==
  ASSUME NEW S \in SUBSET Nat, IsFiniteSet(S), S # {}
  PROVE  Max(S) \in S /\ \A y \in S : y <= Max(S)
<1> DEFINE N == Cardinality(S)
           x == Ascending(S)[N]
           Below == {y \in S : y <= x}
<1>1. N \in Nat /\ N # 0
  BY FS_CardinalityType, FS_EmptySet
<1>2. x \in S /\ Cardinality(Below) = N
  BY <1>1, AscendingFacts
<1>3. Below = S
  BY <1>2, FS_Subset
<1> HIDE DEF x
<1>4. \E z \in S : \A y \in S : z >= y
  BY <1>2, <1>3
<1>5. Max(S) \in S /\ \A y \in S : Max(S) >= y
  BY <1>4 DEF Max
<1> QED BY <1>5

LEMMA MinFacts ==
  ASSUME NEW S \in SUBSET Nat, S # {}
  PROVE  Min(S) \in S /\ \A y \in S : Min(S) <= y
BY LeastNat DEF Min

\* Picked(s, I) lists what s has at the places I.
LEMMA PickedFacts ==
  ASSUME NEW T, NEW s \in Seq(T), NEW I \in SUBSET (1..Len(s))
  PROVE  /\ Picked(s, I) \in Seq(T) /\ Len(Picked(s, I)) <= Len(s)
         /\ Range(Picked(s, I)) = {s[i] : i \in I}
         /\ (\A i, j \in I : s[i] = s[j] => i = j) => IsInjective(Picked(s, I))
<1> DEFINE a == Ascending(I)
           q == Picked(s, I)
           N == Cardinality(I)
<1>1. IsFiniteSet(I) /\ I \subseteq Nat /\ N <= Len(s) /\ N \in Nat
  <2>1. Len(s) \in Nat /\ I \subseteq Nat
    OBVIOUS
  <2>2. \A n \in Nat : IsFiniteSet(1..n) /\ Cardinality(1..n) = n
    BY FS_Interval
  <2>3. IsFiniteSet(1..Len(s)) /\ Cardinality(1..Len(s)) = Len(s)
    BY <2>1, <2>2
  <2>4. IsFiniteSet(I) /\ Cardinality(I) <= Cardinality(1..Len(s))
    BY <2>3, FS_Subset
  <2>5. Cardinality(I) \in Nat
    BY <2>4, FS_CardinalityType
  <2> QED BY <2>1, <2>3, <2>4, <2>5
<1>2. q = [k \in 1..N |-> s[a[k]]]
  BY DEF Picked
<1>3. /\ DOMAIN a = 1..N /\ Range(a) = I /\ IsInjective(a)
      /\ \A k \in 1..N : a[k] \in I
  BY <1>1, AscendingFacts
<1> HIDE DEF a, q
<1>4. \A k \in 1..N : q[k] = s[a[k]] /\ q[k] \in T
  <2>1. \A i \in I : s[i] \in T
    OBVIOUS
  <2> QED BY <1>2, <1>3, <2>1
<1>5. q \in Seq(T) /\ Len(q) = N /\ DOMAIN q = 1..N
  BY <1>1, <1>2, <1>4
<1>6. Range(q) = {s[i] : i \in I}
  <2>1. \A k \in 1..N : q[k] \in {s[i] : i \in I}
    BY <1>3, <1>4
  <2>2. \A i \in I : \E k \in 1..N : a[k] = i
    BY <1>3 DEF Range
  <2>3. \A i \in I : \E k \in 1..N : q[k] = s[i]
    BY <1>4, <2>2
  <2>4. Range(q) = {q[k] : k \in 1..N}
    BY <1>5 DEF Range
  <2> QED BY <2>1, <2>3, <2>4
<1>7. ASSUME \A i, j \in I : s[i] = s[j] => i = j PROVE IsInjective(q)
  <2>1. ASSUME NEW k \in 1..N, NEW l \in 1..N, q[k] = q[l] PROVE k = l
    <3>1. a[k] = a[l]
      <4>1. a[k] \in I /\ a[l] \in I
        BY <1>3
      <4>2. s[a[k]] = s[a[l]]
        BY <1>4, <2>1
      <4> QED BY <1>7, <4>1, <4>2
    <3> QED BY <1>3, <3>1 DEF IsInjective
  <2> QED BY <1>5, <2>1 DEF IsInjective
<1> QED BY <1>1, <1>5, <1>6, <1>7 DEF q

-----------------------------------------------------------------------------
(* Tables.                                                                 *)

\* What a row is.
LEMMA NoneIsNone == /\ None \notin Node /\ None \notin Group
                    /\ \A S : None \notin CirclesOver(S)
<1>1. DOMAIN None = {"server"}
  BY DEF None
<1>2. \A x \in Node : "on" \in DOMAIN x
  BY DEF Node
<1>3. \A x \in Group : "on" \in DOMAIN x
  BY DEF Group
<1>4. \A S : \A x \in CirclesOver(S) : "on" \in DOMAIN x
  BY DEF CirclesOver
<1> QED BY <1>1, <1>2, <1>3, <1>4

LEMMA TableFields ==
  ASSUME NEW d \in Tables
  PROVE  /\ d.node \in [Ids -> Node \cup {None}] /\ d.rule \in Seq(Rule)
         /\ d.group \in [Groups -> Group \cup {None}]
         /\ d.circle \in [CircleIds -> CirclesOver(MemberLists) \cup {None}]
         /\ d.active \in {0} \cup Ids
BY DEF Tables

LEMMA RowFields ==
  ASSUME NEW d \in Tables, NEW n \in Ids, d.node[n] # None
  PROVE  /\ d.node[n] \in Node /\ d.node[n].server \in Servers /\ d.node[n].sub \in BOOLEAN
         /\ d.node[n].on \in BOOLEAN /\ d.node[n].chain \in {0} \cup Ids /\ d.node[n].ver \in {1, 2}
BY TableFields DEF Node

LEMMA GroupFields ==
  ASSUME NEW d \in Tables, NEW g \in Groups, d.group[g] # None
  PROVE  d.group[g] \in Group /\ d.group[g].on \in BOOLEAN /\ d.group[g].ids \in SUBSET Ids
BY TableFields DEF Group

LEMMA CircleFields ==
  ASSUME NEW d \in Tables, NEW c \in CircleIds, d.circle[c] # None
  PROVE  /\ d.circle[c] \in CirclesOver(MemberLists) /\ d.circle[c].ids \in Seq(Ids)
         /\ IsInjective(d.circle[c].ids) /\ Range(d.circle[c].ids) \subseteq Ids
<1>1. d.circle[c] \in CirclesOver(MemberLists)
  BY TableFields
<1>2. d.circle[c].ids \in MemberLists
  BY <1>1 DEF CirclesOver
<1>3. Range(d.circle[c].ids) \subseteq Ids
  BY <1>2 DEF MemberLists, Range
<1> QED BY <1>1, <1>2, <1>3 DEF MemberLists

LEMMA RelayFacts ==
  ASSUME NEW d \in Tables, NEW n \in Ids, IsRow(d, n)
  PROVE  \/ Relay(d, n) = 0
         \/ Relay(d, n) \in Ids /\ IsRow(d, Relay(d, n)) /\ Relay(d, n) = d.node[n].chain
BY RowFields DEF Relay, IsRow, Live


-----------------------------------------------------------------------------
(* The chain of a node.                                                    *)

\* What the trail of n is while it grows.
Trails(d, n) ==
  {s \in Seq({m \in Ids : IsRow(d, m)}) :
     /\ Len(s) >= 1 /\ s[1] = n /\ IsInjective(s)
     /\ \A k \in 1..Len(s) - 1 : s[k + 1] = Relay(d, s[k])}

Further(d, s) ==
  LET m == Relay(d, Last(s)) IN IF m = 0 \/ m \in Range(s) THEN s ELSE Append(s, m)

LEMMA TrailGoesOn ==
  ASSUME NEW d \in Tables, NEW n \in Ids, NEW s \in Trails(d, n)
  PROVE  Further(d, s) \in Trails(d, n)
<1> DEFINE R == {m \in Ids : IsRow(d, m)}
           m == Relay(d, Last(s))
           t == Append(s, m)
<1>1. /\ s \in Seq(R) /\ Len(s) \in Nat /\ Len(s) >= 1 /\ s[1] = n /\ IsInjective(s)
      /\ \A k \in 1..Len(s) - 1 : s[k + 1] = Relay(d, s[k])
  BY DEF Trails
<1>2. Last(s) = s[Len(s)] /\ Last(s) \in R
  BY <1>1 DEF Last
<1>3. CASE m = 0 \/ m \in Range(s)
  BY <1>3 DEF Further
<1>4. CASE ~(m = 0 \/ m \in Range(s))
  <2>1. m \in R
    BY <1>2, <1>4, RelayFacts
  <2>2. t \in Seq(R) /\ Len(t) = Len(s) + 1
    BY <1>1, <2>1
  <2>3. \A k \in 1..Len(s) : t[k] = s[k]
    BY <1>1, <2>1
  <2>4. t[Len(s) + 1] = m
    BY <1>1, <2>1
  <2>5. \A k \in 1..Len(s) : s[k] # m
    BY <1>1, <1>4 DEF Range
  <2>6. IsInjective(t)
    <3>1. DOMAIN t = 1..Len(s) + 1 /\ DOMAIN s = 1..Len(s)
      BY <1>1, <2>2
    <3> HIDE DEF t, m
    <3>2. ASSUME NEW a \in 1..Len(s) + 1, NEW b \in 1..Len(s) + 1, t[a] = t[b] PROVE a = b
      <4>1. CASE a \in 1..Len(s) /\ b \in 1..Len(s)
        BY <1>1, <2>3, <3>1, <3>2, <4>1 DEF IsInjective
      <4>2. CASE a = Len(s) + 1 \/ b = Len(s) + 1
        BY <1>1, <2>3, <2>4, <2>5, <3>2, <4>2
      <4> QED BY <1>1, <4>1, <4>2
    <3> QED BY <3>1, <3>2 DEF IsInjective
  <2>7. \A k \in 1..Len(t) - 1 : t[k + 1] = Relay(d, t[k])
    <3> TAKE k \in 1..Len(t) - 1
    <3>1. k \in 1..Len(s) /\ t[k] = s[k]
      BY <1>1, <2>2, <2>3
    <3>2. CASE k = Len(s)
      BY <1>2, <2>4, <3>1, <3>2
    <3>3. CASE k # Len(s)
      <4>1. k \in 1..Len(s) - 1 /\ k + 1 \in 1..Len(s)
        BY <1>1, <3>1, <3>3
      <4>2. t[k + 1] = s[k + 1] /\ s[k + 1] = Relay(d, s[k])
        BY <1>1, <2>3, <4>1
      <4> QED BY <3>1, <4>2
    <3> QED BY <3>2, <3>3
  <2>8. t[1] = n /\ Len(t) >= 1
    BY <1>1, <2>2, <2>3
  <2>9. Further(d, s) = t
    BY <1>4 DEF Further
  <2> HIDE DEF t
  <2> QED BY <2>2, <2>6, <2>7, <2>8, <2>9 DEF Trails
<1> QED BY <1>3, <1>4

LEMMA PathIsTrail ==
  ASSUME NEW d \in Tables, NEW n \in Ids, IsRow(d, n)
  PROVE  Path(d, n) \in Trails(d, n)
<1> DEFINE D == Trails(d, n)
           N == MaxDepth
           b == <<n>>
           g == [x \in D \X (0..N) |-> Further(d, x[1])]
           Grows(f) == f = [k \in 0..N |-> IF k = 0 THEN <<n>> ELSE Further(d, f[k - 1])]
           f == CHOOSE f : Grows(f)
<1>1. N \in Nat
  BY DepthAssumption
<1>2. b \in D
  BY DEF Trails, IsInjective
<1>3. g \in [D \X (0..N) -> D]
  BY TrailGoesOn
<1>4. PICK h : Iterated(h, D, N, b, g)
  <2> HIDE DEF b, D, g, N, f
  <2> QED BY <1>1, <1>2, <1>3, Iterates
<1>5. \A k \in 0..N : h[k] = IF k = 0 THEN <<n>> ELSE Further(d, h[k - 1])
  <2> TAKE k \in 0..N
  <2>1. ASSUME k # 0 PROVE k - 1 \in 0..N
    BY <1>1, <2>1
  <2>2. h \in [0..N -> D] /\ h[k] = IF k = 0 THEN <<n>> ELSE g[<<h[k - 1], k>>]
    BY <1>4 DEF Iterated
  <2>3. ASSUME k # 0 PROVE g[<<h[k - 1], k>>] = Further(d, h[k - 1])
    BY <2>1, <2>2, <2>3
  <2> QED BY <2>2, <2>3
<1>6. Grows(h)
  <2> DEFINE q == [k \in 0..N |-> IF k = 0 THEN <<n>> ELSE Further(d, h[k - 1])]
  <2>1. \A k \in 0..N : h[k] = q[k]
    BY <1>5
  <2> QED BY <1>4, <2>1 DEF Iterated
<1> HIDE DEF Grows
<1>7. Grows(f)
  BY <1>6
<1>8. f[N] = h[N]
  <2> DEFINE B == {k \in 0..N : f[k] = h[k]}
  <2>1. \A k \in 0..N : f[k] = IF k = 0 THEN <<n>> ELSE Further(d, f[k - 1])
    BY <1>7 DEF Grows
  <2> HIDE DEF f
  <2>2. 0 \in B
    BY <1>1, <1>5, <2>1
  <2>3. ASSUME NEW k \in 0..N, k \in B, k < N PROVE k + 1 \in B
    <3>1. k + 1 \in 0..N /\ k + 1 # 0 /\ (k + 1) - 1 = k /\ f[k] = h[k]
      BY <1>1, <2>3
    <3> QED BY <1>5, <2>1, <3>1
  <2> HIDE DEF B
  <2>4. \A k \in 0..N : k \in B
    BY <1>1, <2>2, <2>3, Climbs
  <2>5. N \in 0..N
    BY <1>1
  <2> QED BY <2>4, <2>5 DEF B
<1>9. Path(d, n) = f[N]
  BY DEF Path, Further, Grows
<1>10. h[N] \in D
  <2>1. N \in 0..N
    BY <1>1
  <2> HIDE DEF N, D
  <2> QED BY <1>4, <2>1 DEF Iterated
<1> QED BY <1>8, <1>9, <1>10

\* The chain starts at n, goes from row to relay, and meets no node twice.
LEMMA PathFacts ==
  ASSUME NEW d \in Tables, NEW n \in Ids, IsRow(d, n)
  PROVE  /\ Path(d, n) \in Seq(Ids) /\ Len(Path(d, n)) \in Nat /\ Len(Path(d, n)) >= 1
         /\ Path(d, n)[1] = n
         /\ IsInjective(Path(d, n)) /\ \A k \in 1..Len(Path(d, n)) : IsRow(d, Path(d, n)[k])
         /\ \A k \in 1..Len(Path(d, n)) - 1 : Path(d, n)[k + 1] = Relay(d, Path(d, n)[k])
         /\ Last(Path(d, n)) = Path(d, n)[Len(Path(d, n))]
<1> DEFINE p == Path(d, n)
<1>1. p \in Trails(d, n)
  BY PathIsTrail
<1> HIDE DEF p
<1>2. p \in Seq({m \in Ids : IsRow(d, m)})
  BY <1>1 DEF Trails
<1>3. Len(p) \in Nat /\ p \in Seq(Ids) /\ \A k \in 1..Len(p) : IsRow(d, p[k])
  BY <1>2
<1> QED BY <1>1, <1>3 DEF p, Trails, Last


-----------------------------------------------------------------------------
(* What the tables bring into a configuration.                             *)

\* The members of the enabled groups, in their order, up to group k.
More(d, k) ==
  IF k \in Groups /\ d.group[k] # None /\ d.group[k].on THEN Ascending(d.group[k].ids) ELSE <<>>


TheActiveCircle(d) ==
  IF ActiveCircle(d) = 0 THEN <<>> ELSE d.circle[ActiveCircle(d)].ids

RuleTargets(d) == {n \in Ids : \E i \in DOMAIN d.rule : d.rule[i].act = <<"node", n>>}

LEMMA GroupMembersExist ==
  ASSUME NEW d \in Tables, NEW T, T = Named(d) \cap Ids
  PROVE  \E s \in Seq(T) : Roots(d) = TheActiveCircle(d) \o Ascending(RuleTargets(d)) \o s
<1> DEFINE D == Seq(T)
           N == Max({0} \cup Groups)
           b == <<>>
           g == [x \in D \X (0..N) |-> x[1] \o More(d, x[2])]
           Grows(f) == f = [k \in 0..N |-> IF k = 0 THEN <<>> ELSE f[k - 1] \o More(d, k)]
           f == CHOOSE f : Grows(f)
<1>1. N \in Nat
  <2>1. IsFiniteSet({0}) /\ IsFiniteSet(Groups)
    BY IdsAssumption, FS_Singleton
  <2>2. IsFiniteSet({0} \cup Groups)
    BY <2>1, FS_Union
  <2>3. {0} \cup Groups \subseteq Nat
    BY IdsAssumption
  <2> QED BY <2>2, <2>3, MaxFacts
<1>2. b \in D
  OBVIOUS
<1>3. ASSUME NEW k PROVE More(d, k) \in D
  <2>1. CASE k \in Groups /\ d.group[k] # None /\ d.group[k].on
    <3>1. d.group[k].ids \subseteq Ids
      BY <2>1, GroupFields
    <3>2. d.group[k].ids \subseteq T
      BY <2>1, <3>1 DEF Named
    <3>3. IsFiniteSet(d.group[k].ids) /\ d.group[k].ids \subseteq Nat
      BY <3>1, FiniteIds, FS_Subset
    <3>4. Ascending(d.group[k].ids) \in Seq(d.group[k].ids)
      BY <3>3, AscendingFacts
    <3>5. More(d, k) = Ascending(d.group[k].ids)
      BY <2>1 DEF More
    <3> QED BY <3>2, <3>4, <3>5
  <2>2. CASE ~(k \in Groups /\ d.group[k] # None /\ d.group[k].on)
    BY <2>2 DEF More
  <2> QED BY <2>1, <2>2
<1>4. g \in [D \X (0..N) -> D]
  <2>1. ASSUME NEW x \in D \X (0..N) PROVE x[1] \o More(d, x[2]) \in D
    <3>1. x[1] \in D /\ More(d, x[2]) \in D
      BY <1>3
    <3> QED BY <3>1
  <2> HIDE DEF D, N
  <2> QED BY <2>1
<1>5. PICK h : Iterated(h, D, N, b, g)
  <2> HIDE DEF b, D, g, N, f
  <2> QED BY <1>1, <1>2, <1>4, Iterates
<1>6. \A k \in 0..N : h[k] = IF k = 0 THEN <<>> ELSE h[k - 1] \o More(d, k)
  <2> TAKE k \in 0..N
  <2>1. ASSUME k # 0 PROVE k - 1 \in 0..N
    BY <1>1, <2>1
  <2>2. h \in [0..N -> D] /\ h[k] = IF k = 0 THEN <<>> ELSE g[<<h[k - 1], k>>]
    BY <1>5 DEF Iterated
  <2>3. ASSUME k # 0 PROVE g[<<h[k - 1], k>>] = h[k - 1] \o More(d, k)
    BY <2>1, <2>2, <2>3
  <2> QED BY <2>2, <2>3
<1>7. Grows(h)
  <2> DEFINE q == [k \in 0..N |-> IF k = 0 THEN <<>> ELSE h[k - 1] \o More(d, k)]
  <2>1. \A k \in 0..N : h[k] = q[k]
    BY <1>6
  <2>2. h \in [0..N -> D]
    BY <1>5 DEF Iterated
  <2> QED BY <2>1, <2>2
<1> HIDE DEF Grows
<1>8. Grows(f)
  BY <1>7
<1>9. f[N] = h[N]
  <2> DEFINE B == {k \in 0..N : f[k] = h[k]}
  <2>1. \A k \in 0..N : f[k] = IF k = 0 THEN <<>> ELSE f[k - 1] \o More(d, k)
    BY <1>8 DEF Grows
  <2> HIDE DEF f
  <2>2. 0 \in B
    <3>1. 0 \in 0..N
      BY <1>1
    <3> HIDE DEF N
    <3>2. f[0] = h[0]
      BY <1>6, <2>1, <3>1
    <3> QED BY <3>1, <3>2
  <2>3. ASSUME NEW k \in 0..N, k \in B, k < N PROVE k + 1 \in B
    <3>1. k + 1 \in 0..N /\ k + 1 # 0 /\ (k + 1) - 1 = k /\ f[k] = h[k]
      BY <1>1, <2>3
    <3> QED BY <1>6, <2>1, <3>1
  <2> HIDE DEF B
  <2>4. \A k \in 0..N : k \in B
    BY <1>1, <2>2, <2>3, Climbs
  <2>5. N \in 0..N
    BY <1>1
  <2> QED BY <2>4, <2>5 DEF B
<1>10. h[N] \in D
  <2>1. N \in 0..N
    BY <1>1
  <2> HIDE DEF N, D
  <2> QED BY <1>5, <2>1 DEF Iterated
<1>11. Roots(d) = TheActiveCircle(d) \o Ascending(RuleTargets(d)) \o f[N]
  BY DEF Roots, More, Grows, TheActiveCircle, RuleTargets
<1> HIDE DEF f, N, D
<1> QED BY <1>9, <1>10, <1>11 DEF D

LEMMA ActiveCircleFacts ==
  ASSUME NEW d \in Tables, ActiveCircle(d) # 0
  PROVE  /\ ActiveCircle(d) \in CircleIds /\ d.circle[ActiveCircle(d)] # None
         /\ d.circle[ActiveCircle(d)].on
<1> DEFINE S == {c \in CircleIds : /\ d.circle[c] # None /\ d.circle[c].on
                                   /\ d.active \in Range(d.circle[c].ids)}
<1>1. S # {} /\ ActiveCircle(d) = Min(S)
  BY DEF ActiveCircle
<1>2. S \subseteq Nat
  BY IdsAssumption
<1> HIDE DEF S
<1>3. ActiveCircle(d) \in S
  BY <1>1, <1>2, MinFacts
<1> QED BY <1>3 DEF S

LEMMA RootsFacts ==
  ASSUME NEW d \in Tables
  PROVE  Roots(d) \in Seq(Named(d) \cap Ids)
<1> DEFINE T == Named(d) \cap Ids
<1>1. PICK s \in Seq(T) : Roots(d) = TheActiveCircle(d) \o Ascending(RuleTargets(d)) \o s
  BY GroupMembersExist
<1>2. TheActiveCircle(d) \in Seq(T)
  <2>1. CASE ActiveCircle(d) = 0
    BY <2>1 DEF TheActiveCircle
  <2>2. CASE ActiveCircle(d) # 0
    <3> DEFINE c == ActiveCircle(d)
    <3>1. c \in CircleIds /\ d.circle[c] # None
      BY <2>2, ActiveCircleFacts
    <3> HIDE DEF c
    <3>2. d.circle[c].ids \in Seq(Ids)
      BY <3>1, CircleFields
    <3>3. \A i \in 1..Len(d.circle[c].ids) : d.circle[c].ids[i] \in Range(d.circle[c].ids)
      BY <3>2 DEF Range
    <3>4. Range(d.circle[c].ids) \subseteq Named(d)
      BY <3>1 DEF Named
    <3>5. \A i \in 1..Len(d.circle[c].ids) : d.circle[c].ids[i] \in T
      BY <3>2, <3>3, <3>4
    <3>6. d.circle[c].ids \in Seq(T)
      <4> HIDE DEF T
      <4> QED BY <3>2, <3>5
    <3> QED BY <2>2, <3>6 DEF TheActiveCircle, c
  <2> QED BY <2>1, <2>2
<1>3. Ascending(RuleTargets(d)) \in Seq(T)
  <2>1. RuleTargets(d) \subseteq T
    BY DEF RuleTargets, Named
  <2>2. IsFiniteSet(RuleTargets(d)) /\ RuleTargets(d) \subseteq Nat
    BY FiniteIds, FS_Subset DEF RuleTargets
  <2>3. Ascending(RuleTargets(d)) \in Seq(RuleTargets(d))
    BY <2>2, AscendingFacts
  <2> HIDE DEF T
  <2> QED BY <2>1, <2>3
<1> HIDE DEF T
<1>4. TheActiveCircle(d) \o Ascending(RuleTargets(d)) \in Seq(T)
  BY <1>2, <1>3
<1>5. Roots(d) \in Seq(T)
  BY <1>1, <1>4
<1> QED BY <1>5 DEF T


-----------------------------------------------------------------------------
(* The wiring.                                                             *)

LEMMA ReferencedFacts ==
  ASSUME NEW d \in Tables
  PROVE  /\ Referenced(d) \subseteq Ids /\ Named(d) \cap Ids \subseteq Referenced(d)
         /\ \A n \in Referenced(d) : IsRow(d, n) => d.node[n].chain \in Referenced(d) \cup {0}
<1>1. Referenced(d) \subseteq Ids
  BY DEF Referenced
<1>2. Named(d) \cap Ids \subseteq Referenced(d)
  <2> SUFFICES ASSUME NEW n \in Named(d) \cap Ids,
                      NEW S \in SUBSET Ids, Named(d) \ {0} \subseteq S
               PROVE  n \in S
    BY DEF Referenced
  <2>1. n # 0
    BY FiniteIds
  <2> QED BY <2>1
<1>3. ASSUME NEW n \in Referenced(d), IsRow(d, n), d.node[n].chain # 0
      PROVE  d.node[n].chain \in Referenced(d)
  <2>1. d.node[n].chain \in Ids /\ n \in Ids
    BY <1>3, RowFields DEF IsRow
  <2>2. ASSUME NEW S \in SUBSET Ids, Named(d) \ {0} \subseteq S, Closed(d, S)
        PROVE  d.node[n].chain \in S
    <3>1. n \in S
      BY <2>2 DEF Referenced
    <3> QED BY <1>3, <2>2, <3>1 DEF Closed
  <2> QED BY <2>1, <2>2 DEF Referenced
<1> QED BY <1>1, <1>2, <1>3

LEMMA PathReferenced ==
  ASSUME NEW d \in Tables, NEW n \in Referenced(d), IsRow(d, n)
  PROVE  Range(Path(d, n)) \subseteq Referenced(d)
<1> DEFINE p == Path(d, n)
           N == Len(p) - 1
           B == {k \in 0..N : p[k + 1] \in Referenced(d)}
<1>1. /\ n \in Ids /\ p \in Seq(Ids) /\ N \in Nat /\ p[1] = n /\ Len(p) = N + 1
      /\ \A k \in 1..N + 1 : IsRow(d, p[k])
      /\ \A k \in 1..N : p[k + 1] = Relay(d, p[k])
  <2>1. n \in Ids
    BY ReferencedFacts
  <2> QED BY <2>1, PathFacts
<1> HIDE DEF p, N
<1>2. 0 \in B
  BY <1>1
<1>3. ASSUME NEW k \in 0..N, k \in B, k < N PROVE k + 1 \in B
  <2>1. k + 1 \in 0..N /\ k + 1 \in 1..N /\ (k + 1) + 1 \in 1..N + 1
    BY <1>1, <1>3
  <2>2. p[k + 1] \in Referenced(d) /\ IsRow(d, p[k + 1])
    BY <1>1, <1>3, <2>1
  <2>3. p[(k + 1) + 1] \in Ids /\ p[(k + 1) + 1] # 0 /\ p[k + 1] \in Ids
    BY <1>1, <2>1, FiniteIds
  <2>4. p[(k + 1) + 1] = d.node[p[k + 1]].chain
    BY <1>1, <2>1, <2>2, <2>3, RelayFacts
  <2>5. p[(k + 1) + 1] \in Referenced(d)
    BY <2>2, <2>3, <2>4, ReferencedFacts
  <2> QED BY <2>1, <2>5
<1> HIDE DEF B
<1>4. \A k \in 0..N : k \in B
  BY <1>1, <1>2, <1>3, Climbs
<1>5. \A k \in 1..N + 1 : p[k] \in Referenced(d)
  <2> TAKE k \in 1..N + 1
  <2>1. k - 1 \in 0..N /\ (k - 1) + 1 = k
    BY <1>1
  <2>2. k - 1 \in B
    BY <1>4, <2>1
  <2> QED BY <2>1, <2>2 DEF B
<1> QED BY <1>1, <1>5 DEF p, Range

\* What the wiring is while nodes are added to it: it has rows that something refers to, it
\* dials only what it has, and a node dials its relay, but for the end of a chain cut short.
Wirings(d) ==
  {w \in [built : SUBSET Ids, dials : [Ids -> {0} \cup Ids]] :
     /\ \A n \in w.built : IsRow(d, n) /\ n \in Referenced(d)
     /\ \A n \in Ids : w.dials[n] \in {0} \cup w.built
     /\ \A n \in Ids \ w.built : w.dials[n] = 0
     /\ \A n \in w.built : \/ w.dials[n] = Relay(d, n)
                           \/ \E m \in w.built : n \in Range(Path(d, m)) /\ ~Ends(d, m)}

LEMMA WireFacts ==
  ASSUME NEW d \in Tables, NEW w \in Wirings(d), NEW n \in Referenced(d), IsRow(d, n)
  PROVE  /\ Wire(d, w, n) \in Wirings(d) /\ n \in Wire(d, w, n).built
         /\ w.built \subseteq Wire(d, w, n).built
<1> DEFINE p == Path(d, n)
           N == Len(p)
           At(i) == CHOOSE k \in 1..N-1 : p[k] = i
           v == Wire(d, w, n)
<1>1. /\ n \in Ids /\ p \in Seq(Ids) /\ N \in Nat /\ N >= 1 /\ p[1] = n /\ IsInjective(p)
      /\ \A k \in 1..N : IsRow(d, p[k])
      /\ \A k \in 1..N - 1 : p[k + 1] = Relay(d, p[k])
      /\ Last(p) = p[N] /\ DOMAIN p = 1..N
  <2>1. n \in Ids
    BY ReferencedFacts
  <2> QED BY <2>1, PathFacts
<1>2. Range(p) \subseteq Referenced(d) /\ Range(p) \subseteq Ids
  BY PathReferenced, ReferencedFacts
<1>3. /\ w.built \subseteq Ids /\ w.dials \in [Ids -> {0} \cup Ids]
      /\ \A i \in w.built : IsRow(d, i) /\ i \in Referenced(d)
      /\ \A i \in Ids : w.dials[i] \in {0} \cup w.built
      /\ \A i \in Ids \ w.built : w.dials[i] = 0
      /\ \A i \in w.built : \/ w.dials[i] = Relay(d, i)
                            \/ \E m \in w.built : i \in Range(Path(d, m)) /\ ~Ends(d, m)
  BY DEF Wirings
<1>4. v = [built |-> w.built \cup Range(p),
           dials |-> [i \in Ids |-> IF \E k \in 1..N-1 : p[k] = i THEN p[1 + At(i)]
                                    ELSE w.dials[i]]]
  BY DEF Wire
<1>5. Ends(d, n) => Relay(d, p[N]) = 0
  BY <1>1 DEF Ends
<1> HIDE DEF p, N
<1>6. ASSUME NEW k \in 1..N PROVE p[k] \in Range(p) /\ p[k] \in Ids
  BY <1>1, <1>2 DEF Range
<1>7. ASSUME NEW i \in Ids, \E k \in 1..N-1 : p[k] = i
      PROVE  p[1 + At(i)] = Relay(d, i) /\ p[1 + At(i)] \in Range(p)
  <2>1. At(i) \in 1..N-1 /\ p[At(i)] = i
    BY <1>7
  <2> HIDE DEF At
  <2>2. At(i) + 1 \in 1..N /\ At(i) + 1 = 1 + At(i)
    BY <1>1, <2>1
  <2> QED BY <1>1, <1>6, <2>1, <2>2
<1> HIDE DEF At, v
<1>8. v.built = w.built \cup Range(p) /\ v.built \subseteq Ids
  BY <1>2, <1>3, <1>4
<1>9. ASSUME NEW i \in Ids
      PROVE  /\ (\E k \in 1..N-1 : p[k] = i) => /\ v.dials[i] = Relay(d, i)
                                                /\ v.dials[i] \in Range(p)
             /\ ~(\E k \in 1..N-1 : p[k] = i) => v.dials[i] = w.dials[i]
  BY <1>4, <1>7
<1>10. \A i \in Ids : v.dials[i] \in {0} \cup v.built
  BY <1>3, <1>8, <1>9
<1>11. v \in [built : SUBSET Ids, dials : [Ids -> {0} \cup Ids]]
  <2>1. \A i \in Ids : v.dials[i] \in {0} \cup Ids
    BY <1>8, <1>10
  <2>2. v.dials = [i \in Ids |-> IF \E k \in 1..N-1 : p[k] = i THEN p[1 + At(i)]
                                    ELSE w.dials[i]]
    BY <1>4
  <2>3. v.dials \in [Ids -> {0} \cup Ids]
    BY <2>1, <2>2
  <2> QED BY <1>4, <1>8, <2>2, <2>3
<1>12. \A i \in Ids \ v.built : v.dials[i] = 0
  <2> TAKE i \in Ids \ v.built
  <2>1. ~(\E k \in 1..N-1 : p[k] = i)
    BY <1>1, <1>6, <1>8
  <2> QED BY <1>3, <1>8, <1>9, <2>1
<1>13. \A i \in v.built : IsRow(d, i) /\ i \in Referenced(d)
  <2> TAKE i \in v.built
  <2>1. ASSUME i \in Range(p) PROVE IsRow(d, i)
    BY <1>1, <2>1 DEF Range
  <2> QED BY <1>2, <1>3, <1>8, <2>1
<1>14. n \in v.built /\ w.built \subseteq v.built
  BY <1>1, <1>6, <1>8
<1>15. ASSUME NEW i \in v.built
       PROVE  \/ v.dials[i] = Relay(d, i)
              \/ \E m \in v.built : i \in Range(Path(d, m)) /\ ~Ends(d, m)
  <2>0. i \in Ids
    BY <1>8
  <2>1. CASE \E k \in 1..N-1 : p[k] = i
    BY <1>9, <2>0, <2>1
  <2>2. CASE ~(\E k \in 1..N-1 : p[k] = i) /\ i \in w.built
    BY <1>3, <1>9, <1>14, <2>0, <2>2
  <2>3. CASE ~(\E k \in 1..N-1 : p[k] = i) /\ i \notin w.built
    <3>1. i \in Range(p)
      BY <1>8, <2>3
    <3>2. i = p[N]
      <4>1. PICK k \in 1..N : p[k] = i
        BY <1>1, <3>1 DEF Range
      <4> QED BY <1>1, <2>3, <4>1
    <3>3. v.dials[i] = 0
      BY <1>3, <1>9, <2>0, <2>3
    <3>4. CASE Ends(d, n)
      BY <1>5, <3>2, <3>3, <3>4
    <3>5. CASE ~Ends(d, n)
      BY <1>14, <3>1, <3>5 DEF p
    <3> QED BY <3>4, <3>5
  <2> QED BY <2>1, <2>2, <2>3
<1> QED BY <1>10, <1>11, <1>12, <1>13, <1>14, <1>15 DEF Wirings, v


\* The active node, loaded by id, and then another root.
FirstWired(d) ==
  LET nothing == [built |-> {}, dials |-> [i \in Ids |-> 0]]
  IN IF IsRow(d, d.active) THEN Wire(d, nothing, d.active) ELSE nothing

Adding(d, w, n) == IF n \in w.built \/ ~Live(d, n) THEN w ELSE Wire(d, w, n)

LEMMA FirstFacts == ASSUME NEW d \in Tables PROVE FirstWired(d) \in Wirings(d)
<1> DEFINE nothing == [built |-> {}, dials |-> [i \in Ids |-> 0]]
<1>1. nothing \in Wirings(d)
  BY DEF Wirings
<1>2. ASSUME IsRow(d, d.active) PROVE d.active \in Referenced(d)
  <2>1. d.active \in Named(d) \cap Ids
    BY <1>2 DEF Named, IsRow
  <2> QED BY <2>1, ReferencedFacts
<1> HIDE DEF nothing
<1> QED BY <1>1, <1>2, WireFacts DEF FirstWired, nothing

LEMMA AddingFacts ==
  ASSUME NEW d \in Tables, NEW w \in Wirings(d), NEW n \in Named(d) \cap Ids
  PROVE  Adding(d, w, n) \in Wirings(d)
<1>1. n \in Referenced(d)
  BY ReferencedFacts
<1> QED BY <1>1, WireFacts DEF Adding, Live

LEMMA WiredFacts == ASSUME NEW d \in Tables PROVE Wired(d) \in Wirings(d)
<1> DEFINE D == Wirings(d)
           roots == Roots(d)
           N == Len(roots)
           b == FirstWired(d)
           Onward(w, k) == Adding(d, w, roots[k])
           g == [x \in D \X (0..N) |-> IF x[2] = 0 THEN x[1] ELSE Onward(x[1], x[2])]
           Grows(f) == f = [k \in 0..N |-> IF k = 0 THEN b ELSE Onward(f[k - 1], k)]
           f == CHOOSE f : Grows(f)
<1>1. N \in Nat /\ \A k \in 1..N : roots[k] \in Named(d) \cap Ids
  <2>1. roots \in Seq(Named(d) \cap Ids)
    BY RootsFacts
  <2> HIDE DEF roots
  <2> QED BY <2>1
<1>2. b \in D
  BY FirstFacts
<1>3. ASSUME NEW w \in D, NEW k \in 1..N PROVE Onward(w, k) \in D
  BY <1>1, AddingFacts
<1>4. g \in [D \X (0..N) -> D]
  <2>1. ASSUME NEW x \in D \X (0..N) PROVE (IF x[2] = 0 THEN x[1] ELSE Onward(x[1], x[2])) \in D
    <3>1. x[1] \in D /\ x[2] \in 0..N
      OBVIOUS
    <3> HIDE DEF D, Onward, N
    <3> QED BY <1>1, <1>3, <3>1
  <2> HIDE DEF D, Onward, N
  <2> QED BY <2>1
<1>5. PICK h : Iterated(h, D, N, b, g)
  <2> HIDE DEF b, D, g, N, f
  <2> QED BY <1>1, <1>2, <1>4, Iterates
<1> HIDE DEF D, Onward, b, N
<1>6. \A k \in 0..N : h[k] = IF k = 0 THEN b ELSE Onward(h[k - 1], k)
  <2> TAKE k \in 0..N
  <2>1. ASSUME k # 0 PROVE k - 1 \in 0..N
    BY <1>1, <2>1
  <2>2. h \in [0..N -> D] /\ h[k] = IF k = 0 THEN b ELSE g[<<h[k - 1], k>>]
    BY <1>5 DEF Iterated
  <2>3. ASSUME k # 0 PROVE g[<<h[k - 1], k>>] = Onward(h[k - 1], k)
    BY <2>1, <2>2, <2>3
  <2> QED BY <2>2, <2>3
<1>7. Grows(h)
  <2> DEFINE q == [k \in 0..N |-> IF k = 0 THEN b ELSE Onward(h[k - 1], k)]
  <2>1. \A k \in 0..N : h[k] = q[k]
    BY <1>6
  <2>2. h \in [0..N -> D]
    BY <1>5 DEF Iterated
  <2> QED BY <2>1, <2>2
<1> HIDE DEF Grows
<1>8. Grows(f)
  BY <1>7
<1>9. f[N] = h[N]
  <2> DEFINE B == {k \in 0..N : f[k] = h[k]}
  <2>1. \A k \in 0..N : f[k] = IF k = 0 THEN b ELSE Onward(f[k - 1], k)
    BY <1>8 DEF Grows
  <2> HIDE DEF f
  <2>2. 0 \in B
    <3>1. 0 \in 0..N
      BY <1>1
    <3>2. f[0] = h[0]
      BY <1>6, <2>1, <3>1
    <3> QED BY <3>1, <3>2
  <2>3. ASSUME NEW k \in 0..N, k \in B, k < N PROVE k + 1 \in B
    <3>1. k + 1 \in 0..N /\ k + 1 # 0 /\ (k + 1) - 1 = k /\ f[k] = h[k]
      BY <1>1, <2>3
    <3> QED BY <1>6, <2>1, <3>1
  <2> HIDE DEF B
  <2>4. \A k \in 0..N : k \in B
    BY <1>1, <2>2, <2>3, Climbs
  <2>5. N \in 0..N
    BY <1>1
  <2> QED BY <2>4, <2>5 DEF B
<1>10. h[N] \in D
  <2>1. N \in 0..N
    BY <1>1
  <2> QED BY <1>5, <2>1 DEF Iterated
<1>11. Wired(d) = f[N]
  BY DEF Wired, Adding, Grows, FirstWired, Onward, N, b
<1> HIDE DEF f
<1> QED BY <1>9, <1>10, <1>11 DEF D

\* What the configuration has.
LEMMA BuiltFacts ==
  ASSUME NEW d \in Tables
  PROVE  /\ Wired(d).built \subseteq Ids /\ Wired(d).dials \in [Ids -> {0} \cup Ids]
         /\ \A n \in Wired(d).built : IsRow(d, n) /\ n \in Referenced(d)
         /\ \A n \in Ids : Wired(d).dials[n] \in {0} \cup Wired(d).built
BY WiredFacts DEF Wirings

LEMMA DialsHold == ASSUME db \in Tables PROVE DialsFollowRows
<1> DEFINE w == Wired(db)
<1>1. w \in Wirings(db)
  BY WiredFacts
<1> HIDE DEF w
<1>2. SUFFICES ASSUME NEW n \in w.built, \A m \in w.built : n \in Range(Path(db, m)) => Ends(db, m)
               PROVE  w.dials[n] = Relay(db, n) /\ Relay(db, n) \in w.built \cup {0}
  BY DEF DialsFollowRows, w
<1> QED BY <1>1, <1>2 DEF Wirings


-----------------------------------------------------------------------------
(* Edits of the tables.                                                    *)

NodesType   == [Ids -> Node \cup {None}]
GroupsType  == [Groups -> Group \cup {None}]
CirclesType == [CircleIds -> CirclesOver(MemberLists) \cup {None}]

LEMMA TableNode ==
  ASSUME NEW d \in Tables, NEW ns \in NodesType
  PROVE  LET e == [d EXCEPT !.node = ns]
         IN /\ e \in Tables /\ e.node = ns /\ e.rule = d.rule /\ e.group = d.group
            /\ e.circle = d.circle /\ e.active = d.active
BY DEF Tables, NodesType

LEMMA TableRule ==
  ASSUME NEW d \in Tables, NEW rs \in Seq(Rule)
  PROVE  LET e == [d EXCEPT !.rule = rs]
         IN /\ e \in Tables /\ e.node = d.node /\ e.rule = rs /\ e.group = d.group
            /\ e.circle = d.circle /\ e.active = d.active
BY DEF Tables

LEMMA TableGroup ==
  ASSUME NEW d \in Tables, NEW gs \in GroupsType
  PROVE  LET e == [d EXCEPT !.group = gs]
         IN /\ e \in Tables /\ e.node = d.node /\ e.rule = d.rule /\ e.group = gs
            /\ e.circle = d.circle /\ e.active = d.active
BY DEF Tables, GroupsType

LEMMA TableCircle ==
  ASSUME NEW d \in Tables, NEW cs \in CirclesType
  PROVE  LET e == [d EXCEPT !.circle = cs]
         IN /\ e \in Tables /\ e.node = d.node /\ e.rule = d.rule /\ e.group = d.group
            /\ e.circle = cs /\ e.active = d.active
BY DEF Tables, CirclesType

LEMMA TableActive ==
  ASSUME NEW d \in Tables, NEW a \in {0} \cup Ids
  PROVE  LET e == [d EXCEPT !.active = a]
         IN /\ e \in Tables /\ e.node = d.node /\ e.rule = d.rule /\ e.group = d.group
            /\ e.circle = d.circle /\ e.active = a
BY DEF Tables

LEMMA IndexFits ==
  ASSUME NEW n \in Nat, NEW a \in Nat
  PROVE  a \in 0..Max({0, n - 1}) <=> (a < n \/ a = 0)
<1> DEFINE m == IF n = 0 THEN 0 ELSE n - 1
<1>1. m \in {0, n - 1} /\ m >= 0 /\ m >= n - 1 /\ m \in Nat
  OBVIOUS
<1> DEFINE M == Max({0, n - 1})
<1>2. M \in {0, n - 1} /\ \A y \in {0, n - 1} : M >= y
  <2>1. \E x \in {0, n - 1} : \A y \in {0, n - 1} : x >= y
    BY <1>1
  <2> QED BY <2>1 DEF Max
<1> HIDE DEF M
<1>3. M = m
  BY <1>1, <1>2
<1> QED BY <1>3 DEF M

\* A circle whose list is replaced; its index starts again when it is out of bounds.
LEMMA CircleEdit ==
  ASSUME NEW c \in CirclesOver(MemberLists), NEW s \in MemberLists
  PROVE  LET e == [c EXCEPT !.ids = s, !.at = IF c.at >= Len(s) THEN 0 ELSE @]
         IN /\ e \in CirclesOver(MemberLists) /\ e.ids = s /\ e.on = c.on
            /\ e.linked = c.linked /\ e # None
<1> DEFINE a == IF c.at >= Len(s) THEN 0 ELSE c.at
           e == [c EXCEPT !.ids = s, !.at = IF c.at >= Len(s) THEN 0 ELSE @]
<1>1. c \in [on : BOOLEAN, linked : BOOLEAN, ids : MemberLists, at : Nat]
  BY DEF CirclesOver
<1>2. Len(s) \in Nat
  BY DEF MemberLists
<1>3. a \in Nat /\ a \in 0..Max({0, Len(s) - 1})
  BY <1>1, <1>2, IndexFits
<1>4. e \in [on : BOOLEAN, linked : BOOLEAN, ids : MemberLists, at : Nat]
      /\ e.ids = s /\ e.at = a /\ e.on = c.on /\ e.linked = c.linked
  BY <1>1, <1>3
<1> HIDE DEF e, a
<1>5. e \in CirclesOver(MemberLists)
  BY <1>3, <1>4 DEF CirclesOver
<1> QED BY <1>4, <1>5, NoneIsNone DEF e

LEMMA KeepFacts ==
  ASSUME NEW s \in MemberLists, NEW gone
  PROVE  Keep(s, gone) \in MemberLists /\ Range(Keep(s, gone)) = Range(s) \ gone
<1> DEFINE I == {i \in DOMAIN s : s[i] \notin gone}
<1>1. s \in Seq(Ids) /\ IsInjective(s) /\ DOMAIN s = 1..Len(s)
  BY DEF MemberLists
<1>2. I \in SUBSET (1..Len(s))
  BY <1>1
<1>3. \A i, j \in I : s[i] = s[j] => i = j
  BY <1>1 DEF IsInjective
<1>4. Keep(s, gone) = Picked(s, I)
  BY DEF Keep
<1>5. {s[i] : i \in I} = Range(s) \ gone
  BY DEF Range
<1> HIDE DEF I
<1> QED BY <1>1, <1>2, <1>3, <1>4, <1>5, PickedFacts DEF MemberLists

LEMMA PruneFacts ==
  ASSUME NEW c \in CirclesOver(MemberLists) \cup {None}, NEW gone
  PROVE  /\ Prune(c, gone) \in CirclesOver(MemberLists) \cup {None}
         /\ Prune(c, gone) = None <=> c = None
         /\ c # None => /\ Range(Prune(c, gone).ids) = Range(c.ids) \ gone
                        /\ Prune(c, gone).on = c.on /\ Prune(c, gone).linked = c.linked
<1>1. CASE c = None
  BY <1>1 DEF Prune
<1>2. CASE c # None
  <2>1. c.ids \in MemberLists
    BY <1>2 DEF CirclesOver
  <2>2. Keep(c.ids, gone) \in MemberLists /\ Range(Keep(c.ids, gone)) = Range(c.ids) \ gone
    BY <2>1, KeepFacts
  <2> DEFINE s == Keep(c.ids, gone)
  <2>3. Prune(c, gone) = [c EXCEPT !.ids = s, !.at = IF c.at >= Len(s) THEN 0 ELSE @]
    BY <1>2 DEF Prune
  <2>4. c \in CirclesOver(MemberLists) /\ s \in MemberLists
    BY <1>2, <2>2
  <2> HIDE DEF s
  <2> DEFINE e == [c EXCEPT !.ids = s, !.at = IF c.at >= Len(s) THEN 0 ELSE @]
  <2>5. /\ e \in CirclesOver(MemberLists) /\ e.ids = s /\ e.on = c.on
        /\ e.linked = c.linked /\ e # None
    BY <2>4, CircleEdit
  <2>6. Prune(c, gone) = e
    BY <2>3
  <2> HIDE DEF e
  <2> QED BY <1>2, <2>2, <2>5, <2>6 DEF s
<1> QED BY <1>1, <1>2

LEMMA DedupFacts ==
  ASSUME NEW s \in Seq(Ids)
  PROVE  Dedup(s) \in MemberLists /\ Range(Dedup(s)) = Range(s)
<1> DEFINE I == {i \in DOMAIN s : \A j \in 1..i-1 : s[j] # s[i]}
<1>1. DOMAIN s = 1..Len(s) /\ Len(s) \in Nat
  OBVIOUS
<1>2. I \in SUBSET (1..Len(s))
  OBVIOUS
<1>3. \A i, j \in I : s[i] = s[j] => i = j
  <2> SUFFICES ASSUME NEW i \in I, NEW j \in I, i < j PROVE s[i] # s[j]
    BY <1>1
  <2>1. i \in 1..j-1
    BY <1>1
  <2> QED BY <2>1
<1>4. {s[i] : i \in I} = Range(s)
  <2> SUFFICES ASSUME NEW k \in 1..Len(s) PROVE \E i \in I : s[i] = s[k]
    BY <1>1 DEF Range
  <2> DEFINE S == {i \in 1..Len(s) : s[i] = s[k]}
             m == Min(S)
  <2>1. S \in SUBSET Nat /\ S # {}
    BY <1>1
  <2> HIDE DEF S
  <2>2. m \in S /\ \A y \in S : m <= y
    BY <2>1, MinFacts
  <2> HIDE DEF m
  <2>3. m \in 1..Len(s) /\ s[m] = s[k]
    BY <2>2 DEF S
  <2>4. \A j \in 1..m-1 : s[j] # s[m]
    BY <1>1, <2>2, <2>3 DEF S
  <2> QED BY <1>1, <2>3, <2>4
<1>5. Dedup(s) = Picked(s, I)
  BY DEF Dedup
<1> HIDE DEF I
<1>6. Picked(s, I) \in Seq(Ids) /\ Range(Picked(s, I)) = Range(s)
  BY <1>2, <1>4, PickedFacts
<1>7. IsInjective(Picked(s, I))
  BY <1>2, <1>3, PickedFacts
<1> QED BY <1>5, <1>6, <1>7 DEF MemberLists

LEMMA OthersFacts ==
  ASSUME NEW s \in Seq(Rule), NEW act
  PROVE  Others(s, act) \in Seq(Rule) /\ \A i \in DOMAIN Others(s, act) : Others(s, act)[i].act # act
<1> DEFINE I == {i \in DOMAIN s : s[i].act # act}
           q == Others(s, act)
<1>1. I \in SUBSET (1..Len(s)) /\ q = Picked(s, I)
  BY DEF Others
<1>2. \A x \in {s[i] : i \in I} : x.act # act
  OBVIOUS
<1> HIDE DEF I, q
<1>3. q \in Seq(Rule) /\ Range(q) = {s[i] : i \in I}
  BY <1>1, PickedFacts
<1>4. \A i \in DOMAIN q : q[i].act # act
  BY <1>2, <1>3 DEF Range
<1> QED BY <1>3, <1>4 DEF q


\* A list followed by another that shares nothing with it.
LEMMA ConcatFacts ==
  ASSUME NEW s \in MemberLists, NEW t \in MemberLists, Range(s) \cap Range(t) = {}
  PROVE  s \o t \in MemberLists /\ Range(s \o t) = Range(s) \cup Range(t)
<1> DEFINE q == s \o t
<1>1. /\ s \in Seq(Ids) /\ t \in Seq(Ids) /\ IsInjective(s) /\ IsInjective(t)
      /\ DOMAIN s = 1..Len(s) /\ DOMAIN t = 1..Len(t)
  BY DEF MemberLists
<1>2. /\ q \in Seq(Ids) /\ DOMAIN q = 1..Len(s) + Len(t)
      /\ Len(s) \in Nat /\ Len(t) \in Nat
      /\ \A i \in 1..Len(s) : q[i] = s[i]
      /\ \A i \in Len(s) + 1..Len(s) + Len(t) : q[i] = t[i - Len(s)]
  BY <1>1
<1> HIDE DEF q
<1>3. \A i \in 1..Len(s) : q[i] \in Range(s)
  BY <1>1, <1>2 DEF Range
<1>4. \A i \in Len(s) + 1..Len(s) + Len(t) : q[i] \in Range(t) /\ i - Len(s) \in 1..Len(t)
  BY <1>1, <1>2 DEF Range
<1>5. Range(q) = Range(s) \cup Range(t)
  <2>1. Range(q) \subseteq Range(s) \cup Range(t)
    <3> SUFFICES ASSUME NEW i \in 1..Len(s) + Len(t) PROVE q[i] \in Range(s) \cup Range(t)
      BY <1>2 DEF Range
    <3>1. i \in 1..Len(s) \/ i \in Len(s) + 1..Len(s) + Len(t)
      BY <1>2
    <3> QED BY <1>3, <1>4, <3>1
  <2>2. Range(s) \subseteq Range(q)
    <3> SUFFICES ASSUME NEW i \in 1..Len(s) PROVE s[i] \in Range(q)
      BY <1>1 DEF Range
    <3>1. i \in 1..Len(s) + Len(t)
      BY <1>2
    <3> QED BY <1>2, <3>1 DEF Range
  <2>3. Range(t) \subseteq Range(q)
    <3> SUFFICES ASSUME NEW i \in 1..Len(t) PROVE t[i] \in Range(q)
      BY <1>1 DEF Range
    <3>1. i + Len(s) \in Len(s) + 1..Len(s) + Len(t) /\ (i + Len(s)) - Len(s) = i
      BY <1>2
    <3>2. i + Len(s) \in 1..Len(s) + Len(t)
      BY <1>2
    <3> QED BY <1>2, <3>1, <3>2 DEF Range
  <2> QED BY <2>1, <2>2, <2>3
<1>6. ASSUME NEW i \in 1..Len(s) + Len(t), NEW j \in 1..Len(s) + Len(t), q[i] = q[j] PROVE i = j
  <2>1. CASE i \in 1..Len(s) /\ j \in 1..Len(s)
    BY <1>1, <1>2, <1>6, <2>1 DEF IsInjective
  <2>2. CASE i \in Len(s) + 1..Len(s) + Len(t) /\ j \in Len(s) + 1..Len(s) + Len(t)
    <3>1. t[i - Len(s)] = t[j - Len(s)] /\ i - Len(s) \in 1..Len(t) /\ j - Len(s) \in 1..Len(t)
      BY <1>2, <1>4, <1>6, <2>2
    <3>2. i - Len(s) = j - Len(s)
      BY <1>1, <3>1 DEF IsInjective
    <3> QED BY <1>2, <3>2
  <2>3. CASE i \in 1..Len(s) /\ j \in Len(s) + 1..Len(s) + Len(t)
    BY <1>3, <1>4, <1>6, <2>3
  <2>4. CASE j \in 1..Len(s) /\ i \in Len(s) + 1..Len(s) + Len(t)
    BY <1>3, <1>4, <1>6, <2>4
  <2>5. /\ i \in 1..Len(s) \/ i \in Len(s) + 1..Len(s) + Len(t)
        /\ j \in 1..Len(s) \/ j \in Len(s) + 1..Len(s) + Len(t)
    BY <1>2
  <2> QED BY <2>1, <2>2, <2>3, <2>4, <2>5
<1>7. IsInjective(q)
  BY <1>2, <1>6 DEF IsInjective
<1> QED BY <1>2, <1>5, <1>7 DEF MemberLists, q

LEMMA AscendingIds ==
  ASSUME NEW S \in SUBSET Ids
  PROVE  Ascending(S) \in MemberLists /\ Range(Ascending(S)) = S
<1>1. IsFiniteSet(S) /\ S \in SUBSET Nat
  BY FiniteIds, FS_Subset
<1>2. Ascending(S) \in Seq(S) /\ IsInjective(Ascending(S)) /\ Range(Ascending(S)) = S
  BY <1>1, AscendingFacts
<1> QED BY <1>2 DEF MemberLists

\* Deletion: the rows are no rows any more, the others stay as they are.
LEMMA WithoutFacts ==
  ASSUME NEW d \in Tables, NEW gone \in SUBSET Ids
  PROVE  LET e == Without(d, gone)
         IN /\ e \in Tables /\ e.rule = d.rule /\ e.group = d.group /\ e.circle = d.circle
            /\ e.active = d.active
            /\ \A n \in gone : e.node[n] = None
            /\ \A n \in Ids \ gone : e.node[n] = d.node[n]
<1> DEFINE ns == [n \in Ids |-> IF n \in gone THEN None ELSE d.node[n]]
<1>1. ns \in NodesType /\ (\A n \in gone : ns[n] = None) /\ (\A n \in Ids \ gone : ns[n] = d.node[n])
  BY TableFields DEF NodesType
<1>2. Without(d, gone) = [d EXCEPT !.node = ns]
  BY DEF Without
<1> HIDE DEF ns
<1> QED BY <1>1, <1>2, TableNode

\* A relay that is gone is forgotten; nothing else of a row changes.
LEMMA UnchainFacts ==
  ASSUME NEW d \in Tables, NEW gone \in SUBSET Ids
  PROVE  LET e == Unchain(d, gone)
         IN /\ e \in Tables /\ e.rule = d.rule /\ e.group = d.group /\ e.circle = d.circle
            /\ e.active = d.active
            /\ \A n \in Ids : IsRow(e, n) <=> IsRow(d, n)
            /\ \A n \in Ids : IsRow(d, n) => /\ e.node[n].chain \notin gone
                                             /\ e.node[n].server = d.node[n].server
                                             /\ e.node[n].ver = d.node[n].ver
                                             /\ e.node[n].on = d.node[n].on
                                             /\ e.node[n].sub = d.node[n].sub
<1> DEFINE f(n) == IF IsRow(d, n) /\ d.node[n].chain \in gone THEN [d.node[n] EXCEPT !.chain = 0]
                   ELSE d.node[n]
           ns == [n \in Ids |-> f(n)]
<1>1. ASSUME NEW n \in Ids
      PROVE  /\ f(n) \in Node \cup {None} /\ (f(n) # None <=> IsRow(d, n))
             /\ IsRow(d, n) => /\ f(n).chain \notin gone /\ f(n).server = d.node[n].server
                               /\ f(n).ver = d.node[n].ver /\ f(n).on = d.node[n].on
                               /\ f(n).sub = d.node[n].sub
  <2>1. CASE ~IsRow(d, n)
    BY <2>1, TableFields DEF IsRow
  <2>2. CASE IsRow(d, n)
    <3>1. d.node[n] \in Node
      BY <2>2, RowFields DEF IsRow
    <3>2. 0 \notin gone
      BY FiniteIds
    <3>3. f(n) \in Node
      BY <3>1 DEF Node
    <3>4. f(n) # None
      BY <3>3, NoneIsNone
    <3>5. /\ f(n).chain \notin gone /\ f(n).server = d.node[n].server
          /\ f(n).ver = d.node[n].ver /\ f(n).on = d.node[n].on /\ f(n).sub = d.node[n].sub
      BY <2>2, <3>1, <3>2 DEF Node
    <3> HIDE DEF f
    <3> QED BY <2>2, <3>3, <3>4, <3>5
  <2> QED BY <2>1, <2>2
<1>2. Unchain(d, gone) = [d EXCEPT !.node = ns]
  BY DEF Unchain
<1> HIDE DEF f
<1>3. ns \in NodesType /\ \A n \in Ids : ns[n] = f(n)
  BY <1>1 DEF NodesType
<1> HIDE DEF ns
<1> QED BY <1>1, <1>2, <1>3, TableNode DEF IsRow


-----------------------------------------------------------------------------
(* The refresh: duplicates, updates, new rows.                             *)

LEMMA ActionFacts ==
  /\ \A n \in Ids : <<"node", n>> \in Actions
  /\ \A a \in Actions : a[1] = "node" => a[2] \in Ids /\ a = <<"node", a[2]>>
  /\ \A n, m \in Ids : <<"node", n>> = <<"node", m>> => n = m
<1>1. \A n \in Ids : <<"node", n>> \in Actions
  BY DEF Actions
<1>2. ASSUME NEW a \in Actions, a[1] = "node" PROVE a[2] \in Ids /\ a = <<"node", a[2]>>
  <2>1. a \notin {<<"proxy">>, <<"direct">>, <<"block">>} /\ a \notin {"balancer"} \X Groups
    BY <1>2
  <2>2. a \in {"node"} \X Ids
    BY <2>1 DEF Actions
  <2> QED BY <2>2
<1>3. \A n, m \in Ids : <<"node", n>> = <<"node", m>> => n = m
  OBVIOUS
<1> QED BY <1>1, <1>2, <1>3

\* The row that stands for n once the duplicates are merged.
Heir(d, n) == IF n \in Twins(d) THEN Keeper(d, n) ELSE n

LEMMA HeirFacts ==
  ASSUME NEW d \in Tables
  PROVE  /\ Twins(d) \subseteq Ours(d) /\ Ours(d) \subseteq Ids
         /\ \A n \in Ids : Heir(d, n) \in Ids \ Twins(d)
         /\ \A n \in Twins(d) : Heir(d, n) \in Ours(d) /\ d.node[Heir(d, n)].server = d.node[n].server
         /\ \A n : n \notin Twins(d) => Heir(d, n) = n
         /\ Heir(d, d.active) \in {0} \cup Ids
<1>1. Twins(d) \subseteq Ours(d) /\ Ours(d) \subseteq Ids
  BY DEF Twins, Ours
<1>2. ASSUME NEW n \in Ours(d)
      PROVE  /\ Keeper(d, n) \in Ours(d) /\ d.node[Keeper(d, n)].server = d.node[n].server
             /\ Keeper(d, n) \notin Twins(d)
  <2> DEFINE S == {m \in Ours(d) : d.node[m].server = d.node[n].server}
             k == Keeper(d, n)
  <2>1. S \subseteq Nat /\ n \in S
    BY <1>1, FiniteIds
  <2>2. k = Min(S)
    BY DEF Keeper
  <2> HIDE DEF S
  <2>3. k \in S
    BY <2>1, <2>2, MinFacts
  <2>4. k \in Ours(d) /\ d.node[k].server = d.node[n].server
    BY <2>3 DEF S
  <2> HIDE DEF k
  <2>5. {m \in Ours(d) : d.node[m].server = d.node[k].server} = S
    BY <2>4 DEF S
  <2>6. Keeper(d, k) = k
    BY <2>2, <2>5 DEF Keeper
  <2> QED BY <2>4, <2>6 DEF Twins, k
<1>3. \A n \in Twins(d) : Heir(d, n) = Keeper(d, n)
  BY DEF Heir
<1>4. \A n : n \notin Twins(d) => Heir(d, n) = n
  BY DEF Heir
<1>5. 0 \notin Twins(d)
  BY <1>1, FiniteIds
<1>6. \A n \in Ids : Heir(d, n) \in Ids \ Twins(d)
  BY <1>1, <1>2, <1>3, <1>4
<1>7. Heir(d, d.active) \in {0} \cup Ids
  BY <1>4, <1>5, <1>6, TableFields
<1> QED BY <1>1, <1>2, <1>3, <1>4, <1>6, <1>7

\* Only rules and circles of tables that are moved, one by one.
RuleMoved(d, x) == IF x.act[1] = "node" THEN [x EXCEPT !.act = <<"node", Heir(d, x.act[2])>>] ELSE x

CircleMoved(d, c) ==
  LET s == Dedup([i \in DOMAIN c.ids |-> Heir(d, c.ids[i])])
  IN IF s = c.ids THEN c ELSE [c EXCEPT !.ids = s, !.at = IF @ >= Len(s) THEN 0 ELSE @]

LEMMA RuleMovedFacts ==
  ASSUME NEW d \in Tables, NEW x \in Rule
  PROVE  /\ RuleMoved(d, x) \in Rule
         /\ x.act[1] = "node" => RuleMoved(d, x).act = <<"node", Heir(d, x.act[2])>>
         /\ x.act[1] # "node" => RuleMoved(d, x) = x
<1>1. x.act \in Actions
  BY DEF Rule
<1>2. ASSUME x.act[1] = "node" PROVE <<"node", Heir(d, x.act[2])>> \in Actions
  BY <1>1, <1>2, ActionFacts, HeirFacts
<1> DEFINE a == <<"node", Heir(d, x.act[2])>>
<1>3. RuleMoved(d, x) = IF x.act[1] = "node" THEN [x EXCEPT !.act = a] ELSE x
  BY DEF RuleMoved
<1> HIDE DEF a
<1>4. ASSUME a \in Actions PROVE [x EXCEPT !.act = a] \in Rule /\ [x EXCEPT !.act = a].act = a
  BY <1>4 DEF Rule
<1> QED BY <1>2, <1>3, <1>4 DEF a

LEMMA CircleMovedFacts ==
  ASSUME NEW d \in Tables, NEW c \in CirclesOver(MemberLists)
  PROVE  /\ CircleMoved(d, c) \in CirclesOver(MemberLists) /\ CircleMoved(d, c) # None
         /\ Range(CircleMoved(d, c).ids) = {Heir(d, n) : n \in Range(c.ids)}
         /\ CircleMoved(d, c).linked = c.linked
<1> DEFINE t == [i \in DOMAIN c.ids |-> Heir(d, c.ids[i])]
           s == Dedup(t)
           e == [c EXCEPT !.ids = s, !.at = IF c.at >= Len(s) THEN 0 ELSE @]
<1>1. c.ids \in Seq(Ids)
  BY DEF CirclesOver, MemberLists
<1>2. t \in Seq(Ids)
  <2>1. \A i \in 1..Len(c.ids) : Heir(d, c.ids[i]) \in Ids
    BY <1>1, HeirFacts
  <2> QED BY <1>1, <2>1
<1>3. Range(t) = {Heir(d, n) : n \in Range(c.ids)}
  BY DEF Range
<1> HIDE DEF t
<1>4. s \in MemberLists /\ Range(s) = Range(t)
  BY <1>2, DedupFacts
<1> HIDE DEF s
<1>5. e \in CirclesOver(MemberLists) /\ e.ids = s /\ e.linked = c.linked /\ e # None
  BY <1>4, CircleEdit
<1>6. CircleMoved(d, c) = IF s = c.ids THEN c ELSE e
  BY DEF CircleMoved, s, t
<1> HIDE DEF e
<1>7. c # None
  BY NoneIsNone
<1> QED BY <1>3, <1>4, <1>5, <1>6, <1>7

LEMMA MergeFacts ==
  ASSUME NEW d \in Tables
  PROVE  LET e == MergeTwins(d)
         IN /\ e \in Tables /\ e.group = d.group /\ e.active = Heir(d, d.active)
            /\ \A n \in Twins(d) : e.node[n] = None
            /\ \A n \in Ids \ Twins(d) : e.node[n] = d.node[n]
            /\ DOMAIN e.rule = DOMAIN d.rule
            /\ \A i \in DOMAIN d.rule : e.rule[i] = RuleMoved(d, d.rule[i])
            /\ \A c \in CircleIds : e.circle[c] = IF d.circle[c] = None THEN None
                                                  ELSE CircleMoved(d, d.circle[c])
<1> DEFINE cs == [c \in CircleIds |-> IF d.circle[c] = None THEN None
                                      ELSE CircleMoved(d, d.circle[c])]
           rs == [i \in DOMAIN d.rule |-> RuleMoved(d, d.rule[i])]
           a == Heir(d, d.active)
           d0 == Without(d, Twins(d))
           d1 == [d0 EXCEPT !.circle = cs]
           d2 == [d1 EXCEPT !.rule = rs]
           d3 == [d2 EXCEPT !.active = a]
<1>1. Twins(d) \in SUBSET Ids
  BY HeirFacts
<1>2. /\ d0 \in Tables /\ d0.rule = d.rule /\ d0.group = d.group /\ d0.circle = d.circle
      /\ d0.active = d.active
      /\ \A n \in Twins(d) : d0.node[n] = None
      /\ \A n \in Ids \ Twins(d) : d0.node[n] = d.node[n]
  BY <1>1, WithoutFacts
<1>3. cs \in CirclesType
  BY CircleFields, CircleMovedFacts DEF CirclesType
<1>4. rs \in Seq(Rule) /\ DOMAIN rs = DOMAIN d.rule
  <2>1. d.rule \in Seq(Rule)
    BY TableFields
  <2>2. \A i \in 1..Len(d.rule) : RuleMoved(d, d.rule[i]) \in Rule
    BY <2>1, RuleMovedFacts
  <2> QED BY <2>1, <2>2
<1>5. MergeTwins(d) = d3
  BY DEF MergeTwins, Heir, RuleMoved, CircleMoved
<1> HIDE DEF d0
<1>6. \A c \in CircleIds : cs[c] = IF d.circle[c] = None THEN None ELSE CircleMoved(d, d.circle[c])
  OBVIOUS
<1>7. \A i \in DOMAIN d.rule : rs[i] = RuleMoved(d, d.rule[i])
  OBVIOUS
<1> HIDE DEF cs, rs
<1>8. d1 \in Tables /\ d1.node = d0.node /\ d1.group = d0.group /\ d1.circle = cs
  BY <1>2, <1>3, TableCircle
<1> HIDE DEF d1
<1>9. d2 \in Tables /\ d2.node = d1.node /\ d2.group = d1.group /\ d2.circle = d1.circle /\ d2.rule = rs
  BY <1>4, <1>8, TableRule
<1> HIDE DEF d2
<1>10. a \in {0} \cup Ids
  BY HeirFacts
<1> HIDE DEF a
<1>11. /\ d3 \in Tables /\ d3.node = d2.node /\ d3.group = d2.group /\ d3.circle = d2.circle
       /\ d3.rule = d2.rule /\ d3.active = a
  BY <1>9, <1>10, TableActive
<1> HIDE DEF d3
<1> QED BY <1>2, <1>4, <1>5, <1>6, <1>7, <1>8, <1>9, <1>11 DEF a

LEMMA NewIdFacts ==
  ASSUME NEW d \in Tables
  PROVE  /\ NewId(d) \in Nat \ {0}
         /\ \A n \in Ids : IsRow(d, n) => n < NewId(d)
<1> DEFINE S == {0} \cup {n \in Ids : d.node[n] # None}
<1>1. S \subseteq {0} \cup Ids /\ IsFiniteSet({0} \cup Ids) /\ S # {}
  <2>1. IsFiniteSet({0} \cup Ids)
    BY FiniteIds, FS_Singleton, FS_Union
  <2> QED BY <2>1
<1>2. IsFiniteSet(S)
  BY <1>1, FS_Subset
<1>3. S \subseteq Nat
  <2>1. Ids \subseteq Nat
    BY FiniteIds
  <2>2. S \subseteq {0} \cup Ids
    BY <1>1
  <2> HIDE DEF S
  <2> QED BY <2>1, <2>2
<1>4. \A n \in Ids : IsRow(d, n) => n \in S
  BY DEF IsRow
<1>5. NewId(d) = Max(S) + 1
  BY DEF NewId
<1> HIDE DEF S
<1>6. Max(S) \in Nat /\ \A y \in S : y <= Max(S)
  BY <1>1, <1>2, <1>3, MaxFacts
<1>7. \A n \in Ids : n \in Nat
  BY FiniteIds
<1> QED BY <1>4, <1>5, <1>6, <1>7


LEMMA UpsertFacts ==
  ASSUME NEW d \in Tables, NEW S \in SUBSET Served, NEW got \in [S -> {1, 2}]
  PROVE  LET e == Upsert(d, got)
         IN /\ e \in Tables /\ e.rule = d.rule /\ e.group = d.group /\ e.circle = d.circle
            /\ e.active = d.active
            /\ \A n \in Ids : IsRow(d, n) =>
                 /\ IsRow(e, n) /\ e.node[n].server = d.node[n].server
                 /\ e.node[n].sub = d.node[n].sub /\ e.node[n].chain = d.node[n].chain
                 /\ IF n \in Ours(d) /\ d.node[n].server \in S
                    THEN e.node[n].ver = got[d.node[n].server] ELSE e.node[n] = d.node[n]
<1> DEFINE new == {s \in DOMAIN got : \A n \in Ours(d) : d.node[n].server # s}
           fresh == Ascending(new)
           New(n) == n - NewId(d) + 1
           f(n) == IF n \in Ours(d) /\ d.node[n].server \in DOMAIN got
                   THEN [d.node[n] EXCEPT !.ver = got[d.node[n].server]]
                   ELSE IF New(n) \in DOMAIN fresh
                   THEN [server |-> fresh[New(n)], sub |-> TRUE, on |-> TRUE, chain |-> 0,
                         ver |-> got[fresh[New(n)]]]
                   ELSE d.node[n]
           ns == [n \in Ids |-> f(n)]
<1>1. new \subseteq S /\ IsFiniteSet(new) /\ new \subseteq Nat /\ new \subseteq Servers
  <2>1. new \subseteq S
    OBVIOUS
  <2> HIDE DEF new
  <2> QED BY <2>1, ServedAssumption, FS_Subset
<1>2. /\ fresh \in Seq(new) /\ DOMAIN fresh = 1..Cardinality(new) /\ Cardinality(new) \in Nat
      /\ Len(fresh) = Cardinality(new)
  <2> HIDE DEF new
  <2> QED BY <1>1, AscendingFacts
<1>3. Upsert(d, got) = [d EXCEPT !.node = ns]
  BY DEF Upsert
<1>4. DOMAIN got = S /\ \A s \in S : got[s] \in {1, 2}
  OBVIOUS
<1> HIDE DEF new, fresh
<1>5. ASSUME NEW n \in Ids, IsRow(d, n) PROVE New(n) \notin DOMAIN fresh
  <2>1. n \in Nat /\ n < NewId(d) /\ NewId(d) \in Nat
    BY <1>5, FiniteIds, NewIdFacts
  <2>2. ~(New(n) >= 1)
    BY <2>1
  <2> QED BY <1>2, <2>2
<1> HIDE DEF New
<1>6. ASSUME NEW n \in Ids, n \in Ours(d), d.node[n].server \in S
      PROVE  /\ f(n) \in Node /\ f(n).server = d.node[n].server /\ f(n).sub = d.node[n].sub
             /\ f(n).chain = d.node[n].chain /\ f(n).ver = got[d.node[n].server]
  <2>1. d.node[n] \in Node
    BY <1>6, RowFields DEF Ours, IsRow
  <2>2. f(n) = [d.node[n] EXCEPT !.ver = got[d.node[n].server]]
    BY <1>4, <1>6
  <2> HIDE DEF f
  <2>3. got[d.node[n].server] \in {1, 2}
    BY <1>4, <1>6
  <2> QED BY <2>1, <2>2, <2>3 DEF Node
<1>7. ASSUME NEW n \in Ids, ~(n \in Ours(d) /\ d.node[n].server \in S), New(n) \notin DOMAIN fresh
      PROVE  f(n) = d.node[n]
  BY <1>4, <1>7
<1>8. ASSUME NEW n \in Ids, ~(n \in Ours(d) /\ d.node[n].server \in S), New(n) \in DOMAIN fresh
      PROVE  f(n) \in Node
  <2>1. fresh[New(n)] \in new
    BY <1>2, <1>8
  <2>2. fresh[New(n)] \in Servers /\ got[fresh[New(n)]] \in {1, 2}
    BY <1>1, <1>4, <2>1
  <2>3. f(n) = [server |-> fresh[New(n)], sub |-> TRUE, on |-> TRUE, chain |-> 0,
                ver |-> got[fresh[New(n)]]]
    BY <1>4, <1>8
  <2> HIDE DEF f
  <2> QED BY <2>2, <2>3 DEF Node
<1>9. \A n \in Ids : d.node[n] \in Node \cup {None}
  BY TableFields
<1> HIDE DEF f
<1>10. \A n \in Ids : f(n) \in Node \cup {None} /\ ns[n] = f(n)
  BY <1>6, <1>7, <1>8, <1>9
<1>11. ns \in NodesType
  BY <1>10 DEF NodesType
<1> DEFINE e == Upsert(d, got)
<1> HIDE DEF ns
<1>12. /\ e \in Tables /\ e.rule = d.rule /\ e.group = d.group /\ e.circle = d.circle
       /\ e.active = d.active /\ e.node = ns
  BY <1>3, <1>11, TableNode
<1> HIDE DEF e
<1>13. ASSUME NEW n \in Ids, IsRow(d, n)
       PROVE  /\ IsRow(e, n) /\ e.node[n].server = d.node[n].server
              /\ e.node[n].sub = d.node[n].sub /\ e.node[n].chain = d.node[n].chain
              /\ IF n \in Ours(d) /\ d.node[n].server \in S
                 THEN e.node[n].ver = got[d.node[n].server] ELSE e.node[n] = d.node[n]
  <2>1. e.node[n] = f(n)
    BY <1>10, <1>12
  <2>2. CASE n \in Ours(d) /\ d.node[n].server \in S
    <3>1. f(n) # None
      BY <1>6, <2>2, NoneIsNone
    <3> QED BY <1>6, <2>1, <2>2, <3>1 DEF IsRow
  <2>3. CASE ~(n \in Ours(d) /\ d.node[n].server \in S)
    <3>1. f(n) = d.node[n]
      BY <1>5, <1>7, <1>13, <2>3
    <3> QED BY <1>13, <2>1, <2>3, <3>1 DEF IsRow
  <2> QED BY <2>2, <2>3
<1> QED BY <1>12, <1>13 DEF e

LEMMA SyncedFacts ==
  ASSUME NEW d \in Tables, NEW c \in CirclesOver(MemberLists) \cup {None}, NEW removed
  PROVE  /\ Synced(d, c, removed) \in CirclesOver(MemberLists) \cup {None}
         /\ (c # None => ~c.linked) => Synced(d, c, removed) = c
<1>1. CASE c = None \/ ~c.linked
  BY <1>1 DEF Synced
<1>2. CASE ~(c = None \/ ~c.linked)
  <2> DEFINE fresh == {n \in Ours(d) : d.node[n].on}
             kept == Keep(c.ids, fresh \cup removed)
             s == kept \o Ascending(fresh)
             e == [c EXCEPT !.ids = s, !.at = IF c.at >= Len(s) THEN 0 ELSE @]
  <2>1. fresh \in SUBSET Ids
    BY HeirFacts
  <2>2. c.ids \in MemberLists /\ c \in CirclesOver(MemberLists)
    BY <1>2 DEF CirclesOver
  <2>3. Synced(d, c, removed) = IF s = c.ids THEN c ELSE e
    BY <1>2 DEF Synced
  <2> HIDE DEF fresh
  <2>4. kept \in MemberLists /\ Range(kept) = Range(c.ids) \ (fresh \cup removed)
    BY <2>2, KeepFacts
  <2>5. Ascending(fresh) \in MemberLists /\ Range(Ascending(fresh)) = fresh
    BY <2>1, AscendingIds
  <2> HIDE DEF kept
  <2>6. s \in MemberLists
    BY <2>4, <2>5, ConcatFacts
  <2> HIDE DEF s
  <2>7. e \in CirclesOver(MemberLists)
    BY <2>2, <2>6, CircleEdit
  <2> HIDE DEF e
  <2> QED BY <1>2, <2>2, <2>3, <2>7
<1> QED BY <1>1, <1>2


\* What the commit of a refresh leaves behind.
LEMMA CommitFacts ==
  ASSUME db \in Tables, NEW S \in SUBSET Served, NEW got \in [S -> {1, 2}], RefreshCommit(got),
         NEW d1, d1 = MergeTwins(db), NEW gone, gone = Vanished(d1, got)
  PROVE  /\ db' \in Tables /\ db'.rule = d1.rule /\ db'.group = d1.group
         /\ db'.active = d1.active \/ (d1.active \in gone /\ db'.active \in Ids)
         /\ gone \subseteq Ours(d1)
         /\ \A n \in gone : ~IsRow(db', n)
         /\ \A n \in Ids \ gone : IsRow(d1, n) =>
              /\ IsRow(db', n) /\ db'.node[n].server = d1.node[n].server
              /\ db'.node[n].sub = d1.node[n].sub /\ db'.node[n].chain = d1.node[n].chain
              /\ IF n \in Ours(d1) THEN db'.node[n].ver = got[d1.node[n].server]
                 ELSE db'.node[n] = d1.node[n]
         /\ \A c \in CircleIds : (d1.circle[c] # None /\ ~d1.circle[c].linked) =>
              Range(db'.circle[c].ids) = Range(d1.circle[c].ids) \ gone
         /\ task.at = "fetch" /\ task'.at = "unchain" /\ task'.served = S /\ task'.removed = gone
         /\ task'.changed = Changed(d1, got) /\ task'.force \in BOOLEAN
         /\ task' = [at |-> "unchain", served |-> S, removed |-> gone, changed |-> Changed(d1, got),
                     force |-> task'.force]
         /\ UNCHANGED <<sub, conf, req, quota, solo, was>>
<1> DEFINE up == Upsert(d1, got)
           d2 == Without(up, gone)
           cs3 == [c \in CircleIds |-> IF gone = {} THEN d1.circle[c] ELSE Prune(d1.circle[c], gone)]
           d3 == [d2 EXCEPT !.circle = cs3]
           cs4 == [c \in CircleIds |-> Synced(d3, d3.circle[c], gone)]
           d4 == [d3 EXCEPT !.circle = cs4]
           heirs == {n \in Ours(d4) : d4.node[n].on}
           heal == d4.active \in gone /\ heirs # {}
<1>1. /\ \E n \in heirs \cup {0} : (n # 0) = heal /\ db' = IF heal THEN [d4 EXCEPT !.active = n] ELSE d4
      /\ task' = [at |-> "unchain", served |-> DOMAIN got, removed |-> gone,
                  changed |-> Changed(d1, got),
                  force |-> heal \/ \E c \in CircleIds : /\ d4.circle[c] # None
                                                         /\ d4.circle[c].on
                                                         /\ d4.circle[c] # d3.circle[c]]
      /\ task.at = "fetch" /\ UNCHANGED <<sub, conf, req, quota, solo, was>>
  <2>1. Save(d1, gone, got) /\ task.at = "fetch" /\ UNCHANGED <<sub, conf, req, quota, solo, was>>
    BY DEF RefreshCommit, GoOn
  <2> QED BY Zenon, <2>1 DEF Save
<1>2. /\ task.at = "fetch" /\ task'.at = "unchain" /\ task'.served = S /\ task'.removed = gone
      /\ task'.changed = Changed(d1, got) /\ task'.force \in BOOLEAN
      /\ task' = [at |-> "unchain", served |-> S, removed |-> gone, changed |-> Changed(d1, got),
                  force |-> task'.force]
      /\ UNCHANGED <<sub, conf, req, quota, solo, was>>
  <2> HIDE DEF heal, heirs, d4, d3
  <2> QED BY <1>1
<1>3. PICK n \in heirs \cup {0} : (n # 0) = heal /\ db' = IF heal THEN [d4 EXCEPT !.active = n] ELSE d4
  <2> HIDE DEF heal, heirs, d4, d3
  <2> QED BY <1>1
<1>4. d1 \in Tables
  BY MergeFacts
<1>5. gone \subseteq Ours(d1) /\ Ours(d1) \subseteq Ids
  BY <1>4, HeirFacts DEF Vanished
<1>6. /\ up \in Tables /\ up.rule = d1.rule /\ up.group = d1.group /\ up.circle = d1.circle
      /\ up.active = d1.active
      /\ \A i \in Ids : IsRow(d1, i) =>
                 /\ IsRow(up, i) /\ up.node[i].server = d1.node[i].server
                 /\ up.node[i].sub = d1.node[i].sub /\ up.node[i].chain = d1.node[i].chain
                 /\ IF i \in Ours(d1) /\ d1.node[i].server \in S
                    THEN up.node[i].ver = got[d1.node[i].server] ELSE up.node[i] = d1.node[i]
  BY <1>4, UpsertFacts
<1> HIDE DEF up
<1>7. /\ d2 \in Tables /\ d2.rule = up.rule /\ d2.group = up.group /\ d2.circle = up.circle
      /\ d2.active = up.active
      /\ \A i \in gone : d2.node[i] = None
      /\ \A i \in Ids \ gone : d2.node[i] = up.node[i]
  BY <1>5, <1>6, WithoutFacts
<1> HIDE DEF d2
<1>8. \A c \in CircleIds : d1.circle[c] \in CirclesOver(MemberLists) \cup {None}
  BY <1>4, TableFields
<1>9. cs3 \in CirclesType
  BY <1>8, PruneFacts DEF CirclesType
<1>10. ASSUME NEW c \in CircleIds, d1.circle[c] # None, ~d1.circle[c].linked
       PROVE  cs3[c] # None /\ ~cs3[c].linked /\ Range(cs3[c].ids) = Range(d1.circle[c].ids) \ gone
  BY <1>8, <1>10, PruneFacts
<1> HIDE DEF cs3
<1>11. /\ d3 \in Tables /\ d3.node = d2.node /\ d3.rule = d2.rule /\ d3.group = d2.group
       /\ d3.active = d2.active /\ d3.circle = cs3
  BY <1>7, <1>9, TableCircle
<1> HIDE DEF d3
<1>12. cs4 \in CirclesType
       /\ \A c \in CircleIds : (cs3[c] # None /\ ~cs3[c].linked) => cs4[c] = cs3[c]
  <2>1. \A c \in CircleIds : d3.circle[c] \in CirclesOver(MemberLists) \cup {None}
    BY <1>11, TableFields
  <2> QED BY <1>11, <2>1, SyncedFacts DEF CirclesType
<1> HIDE DEF cs4
<1>13. /\ d4 \in Tables /\ d4.node = d3.node /\ d4.rule = d3.rule /\ d4.group = d3.group
       /\ d4.active = d3.active /\ d4.circle = cs4
  BY <1>11, <1>12, TableCircle
<1> HIDE DEF d4
<1>14. heal => n \in Ids
  <2>1. heirs \subseteq Ids
    BY <1>13, HeirFacts
  <2> HIDE DEF heirs, heal
  <2> QED BY <1>3, <2>1
<1>15. heal => d1.active \in gone
  BY <1>6, <1>7, <1>11, <1>13
<1> HIDE DEF heal, heirs
<1>16. /\ db' \in Tables /\ db'.node = d4.node /\ db'.rule = d4.rule /\ db'.group = d4.group
       /\ db'.circle = d4.circle /\ db'.active = IF heal THEN n ELSE d4.active
  <2>1. CASE heal
    <3>1. db' = [d4 EXCEPT !.active = n] /\ n \in {0} \cup Ids
      BY <1>3, <1>14, <2>1
    <3>2. LET e == [d4 EXCEPT !.active = n]
          IN /\ e \in Tables /\ e.node = d4.node /\ e.rule = d4.rule /\ e.group = d4.group
             /\ e.circle = d4.circle /\ e.active = n
      BY <1>13, <3>1, TableActive
    <3> QED BY <2>1, <3>1, <3>2
  <2>2. CASE ~heal
    BY <1>3, <1>13, <2>2
  <2> QED BY <2>1, <2>2
<1>17. db'.rule = d1.rule /\ db'.group = d1.group /\ db'.circle = cs4 /\ db'.node = d2.node
  BY <1>6, <1>7, <1>11, <1>13, <1>16
<1>18. db'.active = d1.active \/ (d1.active \in gone /\ db'.active \in Ids)
  BY <1>6, <1>7, <1>11, <1>13, <1>14, <1>15, <1>16
<1>19. \A i \in gone : ~IsRow(db', i)
  BY <1>7, <1>17 DEF IsRow
<1>20. ASSUME NEW i \in Ids \ gone, IsRow(d1, i)
       PROVE  /\ IsRow(db', i) /\ db'.node[i].server = d1.node[i].server
              /\ db'.node[i].sub = d1.node[i].sub /\ db'.node[i].chain = d1.node[i].chain
              /\ IF i \in Ours(d1) THEN db'.node[i].ver = got[d1.node[i].server]
                 ELSE db'.node[i] = d1.node[i]
  <2>1. db'.node[i] = up.node[i] /\ i \in Ids
    BY <1>7, <1>17
  <2>2. i \in Ours(d1) => d1.node[i].server \in S
    BY <1>20 DEF Vanished
  <2> QED BY <1>6, <1>20, <2>1, <2>2 DEF IsRow
<1>21. \A c \in CircleIds : (d1.circle[c] # None /\ ~d1.circle[c].linked) =>
         Range(db'.circle[c].ids) = Range(d1.circle[c].ids) \ gone
  BY <1>10, <1>12, <1>17
<1> QED BY <1>2, <1>5, <1>16, <1>17, <1>18, <1>19, <1>20, <1>21


-----------------------------------------------------------------------------
(* Types.                                                                  *)

LEMMA RunningFacts ==
  ASSUME NEW d \in Tables
  PROVE  /\ Running(d) \in Confs /\ Running(d).built = Wired(d).built
         /\ Running(d).dials = Wired(d).dials
         /\ \A n \in Ids : Running(d).dials[n] \in {0} \cup Running(d).built
         /\ \A n \in Ids : IsRow(d, n) => Running(d).par[n] = Param(d, n)
<1> DEFINE w == Wired(d)
           f(n) == IF IsRow(d, n) THEN Param(d, n) ELSE <<0, 0>>
           ps == [n \in Ids |-> f(n)]
<1>1. /\ w.built \in SUBSET Ids /\ w.dials \in [Ids -> {0} \cup Ids]
      /\ \A n \in Ids : w.dials[n] \in {0} \cup w.built
  BY BuiltFacts
<1>2. Running(d) = [built |-> w.built, dials |-> w.dials, par |-> ps]
  BY DEF Running
<1> HIDE DEF w
<1>3. ASSUME NEW n \in Ids PROVE f(n) \in (Servers \X {1, 2}) \cup {<<0, 0>>}
  BY RowFields DEF IsRow, Param
<1>4. \A n \in Ids : IsRow(d, n) => f(n) = Param(d, n)
  OBVIOUS
<1> HIDE DEF f
<1>5. ps \in [Ids -> (Servers \X {1, 2}) \cup {<<0, 0>>}] /\ \A n \in Ids : ps[n] = f(n)
  BY <1>3
<1> HIDE DEF ps
<1>6. Running(d) \in Confs
  BY <1>1, <1>2, <1>5 DEF Confs
<1> QED BY <1>1, <1>2, <1>4, <1>5, <1>6 DEF w

LEMMA StoppedFacts == Stopped \in Confs /\ Stopped.built = {}
BY DEF Stopped, Confs

LEMMA ChainIsNode == ASSUME NEW m \in {0} \cup Ids, NEW s \in Servers, NEW on \in BOOLEAN,
                            NEW mine \in BOOLEAN, NEW v \in {1, 2}
                     PROVE  [server |-> s, sub |-> mine, on |-> on, chain |-> m, ver |-> v] \in Node
BY DEF Node

LEMMA CreateNodeTables ==
  ASSUME db \in Tables, NEW s \in Servers, NEW m \in {0} \cup Ids, CreateNode(s, m)
  PROVE  db' \in Tables
<1> DEFINE row == [server |-> s, sub |-> FALSE, on |-> TRUE, chain |-> m, ver |-> 1]
           ns == [db.node EXCEPT ![NewId(db)] = row]
<1>1. row \in Node
  BY ChainIsNode
<1>2. NewId(db) \in Ids /\ db' = [db EXCEPT !.node = ns]
  BY DEF CreateNode
<1> HIDE DEF row
<1>3. ns \in NodesType
  BY <1>1, <1>2, TableFields DEF NodesType
<1> HIDE DEF ns
<1> QED BY <1>2, <1>3, TableNode

LEMMA PatchNodeTables ==
  ASSUME db \in Tables, NEW n \in Ids, NEW on \in BOOLEAN, NEW m \in {0} \cup Ids, PatchNode(n, on, m)
  PROVE  db' \in Tables
<1> DEFINE row == [db.node[n] EXCEPT !.on = on, !.chain = m]
           ns == [db.node EXCEPT ![n] = row]
<1>1. db' = [db EXCEPT !.node[n].on = on, !.node[n].chain = m] /\ IsRow(db, n)
  BY DEF PatchNode
<1>2. db.node[n] \in Node /\ db.node \in [Ids -> Node \cup {None}]
  BY <1>1, RowFields, TableFields DEF IsRow
<1>3. row \in Node
  BY <1>2 DEF Node
<1>4. [db.node EXCEPT ![n].on = on, ![n].chain = m] = ns
  BY <1>2
<1>5. db' = [db EXCEPT !.node = [db.node EXCEPT ![n].on = on, ![n].chain = m]]
  BY <1>1 DEF Tables
<1> HIDE DEF row
<1>6. ns \in NodesType
  BY <1>2, <1>3 DEF NodesType
<1> HIDE DEF ns
<1> QED BY <1>4, <1>5, <1>6, TableNode

LEMMA CreateRuleTables ==
  ASSUME db \in Tables, NEW x \in Rule, CreateRule(x)
  PROVE  db' \in Tables
<1>1. Append(db.rule, x) \in Seq(Rule)
  BY TableFields
<1>2. db' = [db EXCEPT !.rule = Append(db.rule, x)]
  BY DEF CreateRule
<1> QED BY <1>1, <1>2, TableRule

LEMMA DeleteRuleTables ==
  ASSUME db \in Tables, NEW i, DeleteRule(i)
  PROVE  db' \in Tables
<1>1. db.rule \in Seq(Rule) /\ i \in 1..Len(db.rule)
  BY TableFields DEF DeleteRule
<1>2. RemoveAt(db.rule, i) \in Seq(Rule)
  BY <1>1 DEF RemoveAt
<1>3. db' = [db EXCEPT !.rule = RemoveAt(db.rule, i)]
  BY DEF DeleteRule
<1> QED BY <1>2, <1>3, TableRule

LEMMA PutGroupTables ==
  ASSUME db \in Tables, NEW g \in Groups, NEW on \in BOOLEAN, NEW S \in SUBSET Ids, PutGroup(g, on, S)
  PROVE  db' \in Tables
<1> DEFINE gs == [db.group EXCEPT ![g] = [on |-> on, ids |-> S]]
<1>1. gs \in GroupsType
  BY TableFields DEF GroupsType, Group
<1>2. db' = [db EXCEPT !.group = gs]
  BY DEF PutGroup
<1> HIDE DEF gs
<1> QED BY <1>1, <1>2, TableGroup

LEMMA DropGroupTables ==
  ASSUME db \in Tables, NEW g \in Groups, DropGroup(g)
  PROVE  db' \in Tables
<1> DEFINE gs == [db.group EXCEPT ![g] = None]
           rs == Others(db.rule, <<"balancer", g>>)
           e == [db EXCEPT !.group = gs]
<1>1. gs \in GroupsType
  BY TableFields DEF GroupsType
<1>2. rs \in Seq(Rule)
  BY TableFields, OthersFacts
<1>3. db' = [e EXCEPT !.rule = rs]
  BY DEF DropGroup, Tables
<1> HIDE DEF gs, rs
<1>4. e \in Tables
  BY <1>1, TableGroup
<1> HIDE DEF e
<1> QED BY <1>2, <1>3, <1>4, TableRule

LEMMA PutCircleTables ==
  ASSUME db \in Tables, NEW c \in CircleIds, NEW on \in BOOLEAN, NEW linked \in BOOLEAN,
         NEW s \in Memberships, PutCircle(c, on, linked, s)
  PROVE  db' \in Tables
<1> DEFINE a == IF db.circle[c] = None \/ db.circle[c].at >= Len(s) THEN 0 ELSE db.circle[c].at
           x == [on |-> on, linked |-> linked, ids |-> s, at |-> a]
           cs == [db.circle EXCEPT ![c] = x]
<1>1. s \in MemberLists /\ Len(s) \in Nat
  BY ImportAssumption DEF MemberLists
<1>2. db.circle[c] # None => db.circle[c].at \in Nat
  BY CircleFields DEF CirclesOver
<1>3. a \in Nat /\ (a < Len(s) \/ a = 0)
  BY <1>1, <1>2
<1>4. a \in 0..Max({0, Len(s) - 1})
  BY <1>1, <1>3, IndexFits
<1>5. db' = [db EXCEPT !.circle = cs]
  BY DEF PutCircle
<1> HIDE DEF a
<1>6. x \in CirclesOver(MemberLists)
  BY <1>1, <1>3, <1>4 DEF CirclesOver
<1> HIDE DEF x
<1>7. cs \in CirclesType
  BY <1>6, TableFields DEF CirclesType
<1> HIDE DEF cs
<1> QED BY <1>5, <1>7, TableCircle

\* DELETE /nodes/{id} up to its commit: nothing but the active node may still name the node.
LEMMA DropNodeTables ==
  ASSUME db \in Tables, NEW n \in Ids, DropNode(n)
  PROVE  /\ db' \in Tables /\ ~IsRow(db', n) /\ db'.active = db.active
         /\ \A i \in DOMAIN db'.rule : db'.rule[i].act # <<"node", n>>
         /\ \A g \in Groups : db'.group[g] # None => n \notin db'.group[g].ids
         /\ \A c \in CircleIds : db'.circle[c] # None => n \notin Range(db'.circle[c].ids)
         /\ \A m \in Ids : IsRow(db', m) => db'.node[m].chain # n
<1> DEFINE d0 == Without(db, {n})
           d1 == Unchain(d0, {n})
           rs == Others(db.rule, <<"node", n>>)
           G(g) == IF db.group[g] = None THEN None ELSE [db.group[g] EXCEPT !.ids = @ \ {n}]
           gs == [g \in Groups |-> G(g)]
           cs == [c \in CircleIds |-> Prune(db.circle[c], {n})]
           d2 == [d1 EXCEPT !.rule = rs]
           d3 == [d2 EXCEPT !.group = gs]
           d4 == [d3 EXCEPT !.circle = cs]
<1>1. d0 \in Tables /\ d0.node[n] = None /\ d0.active = db.active /\ d0.rule = db.rule
  BY WithoutFacts
<1>2. db' = [Unchain(Without(db, {n}), {n}) EXCEPT
              !.rule = Others(@, <<"node", n>>),
              !.group = [g \in Groups |-> IF db.group[g] = None THEN None ELSE
                                            [db.group[g] EXCEPT !.ids = @ \ {n}]],
              !.circle = [c \in CircleIds |-> Prune(db.circle[c], {n})]]
  BY DEF DropNode
<1>3. db' = [d1 EXCEPT !.rule = Others(@, <<"node", n>>), !.group = gs, !.circle = cs]
  BY <1>2
<1> HIDE DEF d0
<1>4. /\ d1 \in Tables /\ d1.active = db.active /\ d1.rule = db.rule
      /\ \A m \in Ids : IsRow(d1, m) <=> IsRow(d0, m)
      /\ \A m \in Ids : IsRow(d0, m) => d1.node[m].chain \notin {n}
  BY <1>1, UnchainFacts
<1> HIDE DEF d1
<1>5. db' = [d1 EXCEPT !.rule = rs, !.group = gs, !.circle = cs]
  BY <1>3, <1>4
<1>6. rs \in Seq(Rule) /\ \A i \in DOMAIN rs : rs[i].act # <<"node", n>>
  BY TableFields, OthersFacts
<1>7. ASSUME NEW g \in Groups
      PROVE  G(g) \in Group \cup {None} /\ (G(g) # None => n \notin G(g).ids)
  <2>1. CASE db.group[g] = None
    BY <2>1
  <2>2. CASE db.group[g] # None
    BY <2>2, GroupFields DEF Group
  <2> QED BY <2>1, <2>2
<1> HIDE DEF G
<1>8. gs \in GroupsType /\ \A g \in Groups : gs[g] # None => n \notin gs[g].ids
  BY <1>7 DEF GroupsType
<1>9. cs \in CirclesType /\ \A c \in CircleIds : cs[c] # None => n \notin Range(cs[c].ids)
  <2>1. \A c \in CircleIds : db.circle[c] \in CirclesOver(MemberLists) \cup {None}
    BY TableFields
  <2> QED BY <2>1, PruneFacts DEF CirclesType
<1>10. db' = d4
  BY <1>5
<1> HIDE DEF rs, gs, cs
<1>11. d2 \in Tables /\ d2.node = d1.node /\ d2.active = d1.active /\ d2.rule = rs
  BY <1>4, <1>6, TableRule
<1> HIDE DEF d2
<1>12. d3 \in Tables /\ d3.node = d2.node /\ d3.active = d2.active /\ d3.rule = d2.rule /\ d3.group = gs
  BY <1>8, <1>11, TableGroup
<1> HIDE DEF d3
<1>13. d4 \in Tables /\ d4.node = d3.node /\ d4.active = d3.active /\ d4.rule = d3.rule
       /\ d4.group = d3.group /\ d4.circle = cs
  BY <1>9, <1>12, TableCircle
<1> HIDE DEF d4
<1> QED BY <1>1, <1>4, <1>6, <1>8, <1>9, <1>10, <1>11, <1>12, <1>13 DEF IsRow


ReqType  == [at : {"idle", "unchain", "heal"}, gone : SUBSET Ids]
TaskType == [at : {"idle", "fetch", "unchain", "reload"}, served : SUBSET Served,
             removed : SUBSET Ids, changed : SUBSET Ids, force : BOOLEAN]
Here     == [db |-> db, conf |-> conf, sub |-> sub]

LEMMA TypeFrom ==
  ASSUME StoreTypeOK, db' \in Tables, conf' \in {conf, Stopped, Running(db')}, req' \in ReqType,
         task' \in TaskType, quota' \in [Kinds -> Nat], sub' \in BOOLEAN, solo' \in BOOLEAN,
         was' \in {was, Here}
  PROVE  StoreTypeOK'
<1>1. conf' \in Confs /\ \A n \in conf'.built : conf'.dials[n] \in {0} \cup conf'.built
  <2>1. CASE conf' = conf
    BY <2>1 DEF StoreTypeOK
  <2>2. CASE conf' = Stopped
    BY <2>2, StoppedFacts
  <2>3. CASE conf' = Running(db')
    <3>1. Running(db') \in Confs /\ \A n \in Ids : Running(db').dials[n] \in {0} \cup Running(db').built
      BY RunningFacts
    <3>2. Running(db').built \subseteq Ids
      BY <3>1 DEF Confs
    <3> QED BY <2>3, <3>1, <3>2
  <2> QED BY <2>1, <2>2, <2>3
<1>2. was' \in [db : Tables, conf : Confs, sub : BOOLEAN]
  BY DEF StoreTypeOK, Here
<1> QED BY <1>1, <1>2 DEF StoreTypeOK, ReqType, TaskType

LEMMA TakeType ==
  ASSUME quota \in [Kinds -> Nat], NEW k \in Kinds, Take(k) PROVE quota' \in [Kinds -> Nat]
<1>1. quota[k] \in Nat /\ quota[k] > 0 /\ quota' = [quota EXCEPT ![k] = @ - 1]
  BY DEF Take
<1>2. quota[k] - 1 \in Nat
  BY <1>1
<1> QED BY <1>1, <1>2

LEMMA NothingUnderWay == NoDelete \in ReqType /\ Idle \in TaskType
BY DEF NoDelete, Idle, ReqType, TaskType

\* An operator's edit is one commit, and meets whatever is under way.
EditFrame(k) == Take(k) /\ Meet /\ UNCHANGED <<sub, req, task>>

LEMMA EditFacts ==
  ASSUME db \in Tables, Edit
  PROVE  /\ db' \in Tables /\ conf' \in {conf, Stopped, Running(db')}
         /\ \E k \in Kinds : EditFrame(k)
<1> USE DEF EditFrame, Kinds
<1>1. ASSUME NEW s \in Servers \ Served, NEW m \in {0} \cup Ids, CreateNode(s, m)
      PROVE  db' \in Tables /\ conf' = conf /\ \E k \in Kinds : EditFrame(k)
  <2>1. EditFrame("create") /\ conf' = conf
    BY <1>1 DEF CreateNode
  <2> QED BY <1>1, <2>1, CreateNodeTables
<1>2. ASSUME NEW n \in Ids, NEW on \in BOOLEAN, NEW m \in {0} \cup Ids, PatchNode(n, on, m)
      PROVE  db' \in Tables /\ conf' = conf /\ \E k \in Kinds : EditFrame(k)
  <2>1. EditFrame("patch") /\ conf' = conf
    BY <1>2 DEF PatchNode
  <2> QED BY <1>2, <2>1, PatchNodeTables
<1>3. ASSUME NEW n \in Ids, Switch(n)
      PROVE  db' \in Tables /\ conf' = Running(db') /\ \E k \in Kinds : EditFrame(k)
  <2>1. EditFrame("switch") /\ conf' = Running(db') /\ db' = [db EXCEPT !.active = n]
    BY <1>3 DEF Switch
  <2>2. db' \in Tables
    BY <2>1, TableActive
  <2> QED BY <2>1, <2>2
<1>4. ASSUME NEW x \in Rule, CreateRule(x)
      PROVE  db' \in Tables /\ conf' \in {conf, Running(db')} /\ \E k \in Kinds : EditFrame(k)
  <2>1. EditFrame("rule") /\ conf' \in {conf, Running(db')}
    BY <1>4 DEF CreateRule, Reload
  <2> QED BY <1>4, <2>1, CreateRuleTables
<1>5. ASSUME NEW i, DeleteRule(i)
      PROVE  db' \in Tables /\ conf' \in {conf, Running(db')} /\ \E k \in Kinds : EditFrame(k)
  <2>1. EditFrame("rule") /\ conf' \in {conf, Running(db')}
    BY <1>5 DEF DeleteRule, Reload
  <2> QED BY <1>5, <2>1, DeleteRuleTables
<1>6. ASSUME NEW g \in Groups, DropGroup(g)
      PROVE  db' \in Tables /\ conf' = conf /\ \E k \in Kinds : EditFrame(k)
  <2>1. EditFrame("group") /\ conf' = conf
    BY <1>6 DEF DropGroup
  <2> QED BY <1>6, <2>1, DropGroupTables
<1>7. ASSUME NEW g \in Groups, NEW on \in BOOLEAN, NEW S \in SUBSET Ids, PutGroup(g, on, S)
      PROVE  db' \in Tables /\ conf' = conf /\ \E k \in Kinds : EditFrame(k)
  <2>1. EditFrame("group") /\ conf' = conf
    BY <1>7 DEF PutGroup
  <2> QED BY <1>7, <2>1, PutGroupTables
<1>8. ASSUME NEW c \in CircleIds, NEW on \in BOOLEAN, NEW linked \in BOOLEAN, NEW s \in Memberships,
             PutCircle(c, on, linked, s)
      PROVE  db' \in Tables /\ conf' = conf /\ \E k \in Kinds : EditFrame(k)
  <2>1. EditFrame("circle") /\ conf' = conf
    BY <1>8 DEF PutCircle
  <2> QED BY <1>8, <2>1, PutCircleTables
<1>9. ASSUME NEW ns \in Bundles, ImportReplace(ns)
      PROVE  db' \in Tables /\ conf' = conf /\ \E k \in Kinds : EditFrame(k)
  <2>1. EditFrame("import") /\ conf' = conf /\ db' = [db EXCEPT !.node = ns] /\ ns \in NodesType
    BY <1>9, ImportAssumption DEF ImportReplace, NodesType
  <2>2. db' \in Tables
    BY <2>1, TableNode
  <2> QED BY <2>1, <2>2
<1> QED BY <1>1, <1>2, <1>3, <1>4, <1>5, <1>6, <1>7, <1>8, <1>9 DEF Edit

LEMMA UnsubscribeFacts ==
  ASSUME db \in Tables, NEW nodes \in BOOLEAN, Unsubscribe(nodes)
  PROVE  /\ db' \in Tables /\ db'.active = db.active /\ req'.gone \subseteq Ids /\ req' \in ReqType
         /\ req.at = "idle" /\ sub /\ sub' = FALSE
         /\ req' = NoDelete \/ (req'.at = "unchain" /\ \A n \in req'.gone : ~IsRow(db', n))
<1> DEFINE gone == IF nodes THEN {n \in Ids : IsRow(db, n) /\ db.node[n].sub} ELSE {}
<1>1. /\ db' = Without(db, gone) /\ req.at = "idle" /\ sub /\ sub' = FALSE
      /\ req' = IF gone = {} THEN NoDelete ELSE [at |-> "unchain", gone |-> gone]
  BY DEF Unsubscribe
<1>2. gone \in SUBSET Ids
  OBVIOUS
<1> HIDE DEF gone
<1>3. db' \in Tables /\ db'.active = db.active /\ \A n \in gone : ~IsRow(db', n)
  BY <1>1, <1>2, WithoutFacts DEF IsRow
<1>4. req' \in ReqType
  BY <1>1, <1>2, NothingUnderWay DEF ReqType
<1>5. req'.gone \subseteq Ids
  BY <1>4 DEF ReqType
<1> QED BY <1>1, <1>3, <1>4, <1>5

\* Who takes over from an active node that is gone.
LEMMA HealFacts ==
  ASSUME db \in Tables, HealActive
  PROVE  /\ db' \in Tables /\ conf' \in {conf, Stopped, Running(db')} /\ req.at = "heal"
         /\ db'.node = db.node /\ db'.rule = db.rule /\ db'.group = db.group /\ db'.circle = db.circle
         /\ db.active \notin req.gone => db' = db /\ conf' = conf
         /\ db.active \in req.gone =>
              \/ db'.active = 0 /\ conf' = Stopped
              \/ IsRow(db, db'.active) /\ conf' = IF Up THEN Running(db') ELSE conf
         /\ req' = NoDelete
<1> DEFINE survivors == {n \in Ids : Live(db, n)}
<1>1. CASE db.active \notin req.gone
  BY <1>1 DEF HealActive
<1>2. CASE db.active \in req.gone /\ survivors = {}
  <2>1. /\ db' = [db EXCEPT !.active = 0] /\ conf' = Stopped /\ req.at = "heal" /\ req' = NoDelete
    BY <1>2 DEF HealActive
  <2> QED BY <1>2, <2>1, TableActive
<1>3. CASE db.active \in req.gone /\ survivors # {}
  <2>1. PICK n \in survivors : db' = [db EXCEPT !.active = n] /\ Reload(db')
    BY <1>3 DEF HealActive
  <2>2. req.at = "heal" /\ req' = NoDelete
    BY DEF HealActive
  <2>3. n \in Ids /\ IsRow(db, n)
    BY DEF Live
  <2> HIDE DEF survivors
  <2> QED BY <1>3, <2>1, <2>2, <2>3, TableActive DEF Reload
<1> QED BY <1>1, <1>2, <1>3

LEMMA CrashFacts ==
  ASSUME db \in Tables, Crash
  PROVE  db' \in Tables /\ conf' \in {Stopped, Running(db')}
<1> DEFINE survivors == {n \in Ids : Live(db, n)}
           a == IF survivors = {} THEN 0 ELSE Min(survivors)
<1>1. db' = (IF db.active = 0 \/ Live(db, db.active) THEN db ELSE [db EXCEPT !.active = a])
      /\ conf' \in {Stopped, Running(db')}
  BY DEF Crash
<1>2. survivors \subseteq Ids /\ survivors \subseteq Nat
  BY FiniteIds
<1> HIDE DEF survivors
<1>3. a \in {0} \cup Ids
  BY <1>2, MinFacts
<1> HIDE DEF a
<1> QED BY <1>1, <1>3, TableActive


LEMMA StoreTypeInit == ASSUME StoreInit PROVE StoreTypeOK
<1>1. db \in Tables /\ quota \in [Kinds -> Nat]
  BY WorldsAssumption DEF StoreInit
<1>2. conf = Running(db) /\ req = NoDelete /\ task = Idle /\ sub = TRUE /\ solo = TRUE
      /\ was = [db |-> db, conf |-> conf, sub |-> sub]
  BY DEF StoreInit
<1>3. conf \in Confs /\ \A n \in conf.built : conf.dials[n] \in {0} \cup conf.built
  <2>1. Running(db) \in Confs /\ \A n \in Ids : Running(db).dials[n] \in {0} \cup Running(db).built
    BY <1>1, RunningFacts
  <2>2. Running(db).built \subseteq Ids
    BY <2>1 DEF Confs
  <2> QED BY <1>2, <2>1, <2>2
<1>4. req \in ReqType /\ task \in TaskType
  BY <1>2, NothingUnderWay
<1> QED BY <1>1, <1>2, <1>3, <1>4 DEF StoreTypeOK, ReqType, TaskType

LEMMA StoreTypeStep == ASSUME StoreTypeOK, [StoreNext]_storeVars PROVE StoreTypeOK'
<1>1. /\ db \in Tables /\ quota \in [Kinds -> Nat] /\ req \in ReqType /\ task \in TaskType
      /\ sub \in BOOLEAN /\ solo \in BOOLEAN
  BY DEF StoreTypeOK, ReqType, TaskType
<1>2. Meet => solo' \in BOOLEAN /\ was' = was
  BY <1>1 DEF Meet
<1>3. Begin => solo' \in BOOLEAN /\ was' = Here
  BY DEF Begin, Here
<1>4. GoOn => solo' = solo /\ was' = was
  BY DEF GoOn
<1>5. CASE UNCHANGED storeVars
  BY <1>5 DEF StoreTypeOK, storeVars, Confs
<1>6. CASE Edit
  <2>1. PICK k \in Kinds : EditFrame(k)
    BY <1>1, <1>6, EditFacts
  <2>2. /\ quota' \in [Kinds -> Nat] /\ solo' \in BOOLEAN /\ was' = was
        /\ sub' = sub /\ req' = req /\ task' = task
    BY <1>1, <1>2, <2>1, TakeType DEF EditFrame
  <2>3. db' \in Tables /\ conf' \in {conf, Stopped, Running(db')}
    BY <1>1, <1>6, EditFacts
  <2> QED BY <1>1, <2>2, <2>3, TypeFrom
<1>7. ASSUME NEW n \in Ids, DropNode(n) PROVE StoreTypeOK'
  <2>1. Take("delete") /\ Begin /\ UNCHANGED <<sub, conf, task>> /\ req' = [at |-> "heal", gone |-> {n}]
    BY <1>7 DEF DropNode
  <2>2. db' \in Tables
    BY <1>1, <1>7, DropNodeTables
  <2>3. quota' \in [Kinds -> Nat]
    BY <1>1, <2>1, TakeType DEF Kinds
  <2>4. req' \in ReqType
    BY <2>1 DEF ReqType
  <2> QED BY <1>1, <1>3, <2>1, <2>2, <2>3, <2>4, TypeFrom
<1>8. ASSUME NEW nodes \in BOOLEAN, Unsubscribe(nodes) PROVE StoreTypeOK'
  <2>1. Take("unsubscribe") /\ Begin /\ UNCHANGED <<conf, task>>
    BY <1>8 DEF Unsubscribe
  <2>2. db' \in Tables /\ req' \in ReqType /\ sub' = FALSE
    BY <1>1, <1>8, UnsubscribeFacts
  <2>3. quota' \in [Kinds -> Nat]
    BY <1>1, <2>1, TakeType DEF Kinds
  <2> QED BY <1>1, <1>3, <2>1, <2>2, <2>3, TypeFrom
<1>9. CASE UnchainGone
  <2>1. /\ GoOn /\ UNCHANGED <<sub, conf, task, quota>> /\ req' = [req EXCEPT !.at = "heal"]
        /\ db' = Unchain(db, req.gone)
    BY <1>9 DEF UnchainGone
  <2>2. req' \in ReqType /\ req.gone \in SUBSET Ids
    BY <1>1, <2>1 DEF ReqType
  <2>3. db' \in Tables
    BY <1>1, <2>1, <2>2, UnchainFacts
  <2> QED BY <1>1, <1>4, <2>1, <2>2, <2>3, TypeFrom
<1>10. CASE HealActive
  <2>1. GoOn /\ UNCHANGED <<sub, task, quota>>
    BY <1>10 DEF HealActive
  <2>2. db' \in Tables /\ conf' \in {conf, Stopped, Running(db')} /\ req' = NoDelete
    BY <1>1, <1>10, HealFacts
  <2> QED BY <1>1, <1>4, <2>1, <2>2, NothingUnderWay, TypeFrom
<1>11. CASE RefreshBegin
  <2>1. Take("refresh") /\ Begin /\ UNCHANGED <<db, sub, conf, req>> /\ task' = [Idle EXCEPT !.at = "fetch"]
    BY <1>11 DEF RefreshBegin
  <2>2. task' \in TaskType
    BY <2>1 DEF TaskType, Idle
  <2>3. quota' \in [Kinds -> Nat]
    BY <1>1, <2>1, TakeType DEF Kinds
  <2> QED BY <1>1, <1>3, <2>1, <2>2, <2>3, TypeFrom
<1>12. CASE RefreshFails
  <2>1. task' = Idle /\ GoOn /\ UNCHANGED <<db, sub, conf, req, quota>>
    BY <1>12 DEF RefreshFails
  <2> QED BY <1>1, <1>4, <2>1, NothingUnderWay, TypeFrom
<1>13. CASE RefreshUnchain
  <2>1. /\ GoOn /\ UNCHANGED <<sub, conf, req, quota>> /\ task' = [task EXCEPT !.at = "reload"]
        /\ db' = Unchain(db, task.removed)
    BY <1>13 DEF RefreshUnchain
  <2>2. task' \in TaskType /\ task.removed \in SUBSET Ids
    BY <1>1, <2>1 DEF TaskType
  <2>3. db' \in Tables
    BY <1>1, <2>1, <2>2, UnchainFacts
  <2> QED BY <1>1, <1>4, <2>1, <2>2, <2>3, TypeFrom
<1>14. CASE RefreshReload
  <2>1. GoOn /\ UNCHANGED <<db, sub, req, quota>> /\ task' = Idle /\ conf' \in {conf, Running(db)}
    BY <1>14 DEF RefreshReload, Reload
  <2>2. Running(db') = Running(db)
    BY <2>1
  <2> QED BY <1>1, <1>4, <2>1, <2>2, NothingUnderWay, TypeFrom
<1>15. ASSUME NEW S \in SUBSET Served, NEW got \in [S -> {1, 2}], RefreshCommit(got)
       PROVE  StoreTypeOK'
  <2> DEFINE d1 == MergeTwins(db)
             gone == Vanished(d1, got)
  <2>1. /\ db' \in Tables /\ gone \subseteq Ours(d1)
        /\ task'.force \in BOOLEAN
        /\ task' = [at |-> "unchain", served |-> S, removed |-> gone, changed |-> Changed(d1, got),
                    force |-> task'.force]
        /\ UNCHANGED <<sub, conf, req, quota, solo, was>>
    BY <1>1, <1>15, CommitFacts
  <2>2. Ours(d1) \subseteq Ids /\ Changed(d1, got) \subseteq Ours(d1)
    BY DEF Ours, Changed
  <2>3. gone \in SUBSET Ids /\ Changed(d1, got) \in SUBSET Ids
    BY <2>1, <2>2
  <2> HIDE DEF d1, gone
  <2>4. task' \in TaskType
    BY <2>1, <2>3 DEF TaskType
  <2> QED BY <1>1, <2>1, <2>4, TypeFrom
<1>16. CASE Crash
  <2>1. Take("crash") /\ req' = NoDelete /\ task' = Idle /\ solo' = FALSE /\ UNCHANGED <<sub, was>>
    BY <1>16 DEF Crash
  <2>2. db' \in Tables /\ conf' \in {Stopped, Running(db')}
    BY <1>1, <1>16, CrashFacts
  <2>3. quota' \in [Kinds -> Nat]
    BY <1>1, <2>1, TakeType DEF Kinds
  <2> QED BY <1>1, <2>1, <2>2, <2>3, NothingUnderWay, TypeFrom
<1> QED BY <1>5, <1>6, <1>7, <1>8, <1>9, <1>10, <1>11, <1>12, <1>13, <1>14, <1>15, <1>16
        DEF StoreNext, Refresh, Delete

\* The tables, the configuration and what is under way are well formed: ids are ids, a circle
\* lists no node twice and its place is in its list, and xray dials only what it has.
THEOREM StoreTyped == StoreSpec => []StoreTypeOK
<1>1. StoreInit => StoreTypeOK
  BY StoreTypeInit
<1>2. StoreTypeOK /\ [StoreNext]_storeVars => StoreTypeOK'
  BY StoreTypeStep
<1> QED BY <1>1, <1>2, PTL DEF StoreSpec

\* Whatever brought a node into the configuration, its outbound dials through the relay of its
\* row, and the relay has an outbound, unless a chain it is on is cut short.
THEOREM OutboundsDial == StoreSpec => []DialsFollowRows
<1>1. StoreTypeOK => DialsFollowRows
  BY DialsHold DEF StoreTypeOK
<1> QED BY <1>1, StoreTyped, PTL

-----------------------------------------------------------------------------
(* What a refresh does to the rows that others name.                       *)

\* A row, and the one that stands for it after the merge: it is of the same server, and goes
\* only if the panel does not serve that any more.
LEMMA HeirKept ==
  ASSUME db \in Tables, NEW S \in SUBSET Served, NEW got \in [S -> {1, 2}], RefreshCommit(got),
         NEW n \in Ids, IsRow(db, n)
  PROVE  LET h == Heir(db, n)
             gone == Vanished(MergeTwins(db), got)
         IN /\ h \in Ids
            /\ h \in gone <=> (db.node[n].sub /\ db.node[n].server \notin S)
            /\ h \notin gone => Names(db', h) = Names(db, n)
<1> DEFINE h == Heir(db, n)
           d1 == MergeTwins(db)
           gone == Vanished(d1, got)
<1>1. h \in Ids \ Twins(db) /\ db.node[n] \in Node
  BY HeirFacts, RowFields DEF IsRow
<1>2. IsRow(db, h) /\ db.node[h].server = db.node[n].server /\ db.node[h].sub = db.node[n].sub
  <2>1. CASE n \in Twins(db)
    <3>1. h \in Ours(db) /\ n \in Ours(db) /\ db.node[h].server = db.node[n].server
      BY <2>1, HeirFacts
    <3>2. db.node[n].sub /\ db.node[h].sub /\ IsRow(db, h) /\ db.node[h] \in Node
      BY <3>1, RowFields DEF Ours, IsRow
    <3> HIDE DEF h
    <3> QED BY <1>1, <3>1, <3>2 DEF Node
  <2>2. CASE n \notin Twins(db)
    BY <2>2, HeirFacts
  <2> QED BY <2>1, <2>2
<1>3. d1.node[h] = db.node[h]
  BY <1>1, MergeFacts
<1> HIDE DEF h, d1
<1>4. IsRow(d1, h) /\ (h \in Ours(d1) <=> db.node[n].sub) /\ d1.node[h].server = db.node[n].server
  BY <1>1, <1>2, <1>3 DEF IsRow, Ours
<1>5. h \in gone <=> (db.node[n].sub /\ db.node[n].server \notin S)
  BY <1>4 DEF Vanished
<1>6. ASSUME h \notin gone PROVE IsRow(db', h) /\ db'.node[h].server = d1.node[h].server
  <2> HIDE DEF gone
  <2> QED BY <1>1, <1>4, <1>6, CommitFacts DEF gone, d1
<1>7. h \notin gone => Names(db', h) = Names(db, n)
  BY <1>4, <1>6 DEF Names
<1> QED BY <1>1, <1>5, <1>7 DEF h, d1

\* The conclusion of RefreshKeepsServers, of a commit.
LEMMA CommitKeepsServers ==
  ASSUME db \in Tables, NEW S \in SUBSET Served, NEW got \in [S -> {1, 2}], RefreshCommit(got),
         NEW K, K = {n \in Ids : IsRow(db, n) /\ (~db.node[n].sub \/ db.node[n].server \in S)}
  PROVE  /\ db.active \in K => Names(db', db'.active) = Names(db, db.active)
         /\ \A i \in DOMAIN db.rule :
               (db.rule[i].act[1] = "node" /\ db.rule[i].act[2] \in K)
               => /\ db'.rule[i].act[1] = "node"
                  /\ Names(db', db'.rule[i].act[2]) = Names(db, db.rule[i].act[2])
         /\ \A c \in {c \in CircleIds : /\ db.circle[c] # None /\ ~db.circle[c].linked
                                        /\ \A n \in Range(db.circle[c].ids) : IsRow(db, n)} :
               {Names(db', n) : n \in Range(db'.circle[c].ids)}
               = {Names(db, n) : n \in {n \in Range(db.circle[c].ids) : n \in K}}
<1> DEFINE d1 == MergeTwins(db)
           gone == Vanished(d1, got)
<1>1. ASSUME NEW n \in Ids, IsRow(db, n)
      PROVE  /\ Heir(db, n) \in gone <=> n \notin K
             /\ n \in K => Names(db', Heir(db, n)) = Names(db, n)
  <2>1. db.node[n].sub \in BOOLEAN
    BY <1>1, RowFields DEF IsRow, Node
  <2> QED BY <1>1, <2>1, HeirKept
<1>2. /\ d1.active = Heir(db, db.active) /\ DOMAIN d1.rule = DOMAIN db.rule
      /\ \A i \in DOMAIN db.rule : d1.rule[i] = RuleMoved(db, db.rule[i])
      /\ \A c \in CircleIds : d1.circle[c] = IF db.circle[c] = None THEN None
                                             ELSE CircleMoved(db, db.circle[c])
  BY MergeFacts
<1> HIDE DEF d1
<1>3. /\ db'.rule = d1.rule
      /\ db'.active = d1.active \/ d1.active \in gone
      /\ \A c \in CircleIds : (d1.circle[c] # None /\ ~d1.circle[c].linked) =>
           Range(db'.circle[c].ids) = Range(d1.circle[c].ids) \ gone
  BY CommitFacts DEF d1
<1> HIDE DEF gone
<1>4. \A n : IsRow(db, n) => n \in Ids
  BY DEF IsRow
<1>5. \A n : n \in K => IsRow(db, n)
  OBVIOUS
<1>6. db.active \in K => Names(db', db'.active) = Names(db, db.active)
  BY <1>1, <1>2, <1>3, <1>4, <1>5
<1>7. ASSUME NEW i \in DOMAIN db.rule, db.rule[i].act[1] = "node", db.rule[i].act[2] \in K
      PROVE  /\ db'.rule[i].act[1] = "node"
             /\ Names(db', db'.rule[i].act[2]) = Names(db, db.rule[i].act[2])
  <2> DEFINE x == db.rule[i]
  <2>1. x \in Rule
    <3>1. db.rule \in Seq(Rule)
      BY TableFields
    <3> QED BY <3>1
  <2>2. db'.rule[i].act = <<"node", Heir(db, x.act[2])>>
    BY <1>2, <1>3, <1>7, <2>1, RuleMovedFacts
  <2>3. Names(db', Heir(db, x.act[2])) = Names(db, x.act[2])
    BY <1>1, <1>4, <1>5, <1>7
  <2> QED BY <2>2, <2>3
<1>8. ASSUME NEW c \in CircleIds, db.circle[c] # None, ~db.circle[c].linked,
             \A n \in Range(db.circle[c].ids) : IsRow(db, n)
      PROVE  {Names(db', n) : n \in Range(db'.circle[c].ids)}
             = {Names(db, n) : n \in {n \in Range(db.circle[c].ids) : n \in K}}
  <2> DEFINE M == Range(db.circle[c].ids)
  <2>1. db.circle[c] \in CirclesOver(MemberLists)
    BY <1>8, CircleFields
  <2>2. /\ d1.circle[c] # None /\ ~d1.circle[c].linked
        /\ Range(d1.circle[c].ids) = {Heir(db, n) : n \in M}
    <3>1. d1.circle[c] = CircleMoved(db, db.circle[c])
      BY <1>2, <1>8
    <3> DEFINE e == db.circle[c]
    <3>2. /\ CircleMoved(db, e) # None /\ CircleMoved(db, e).linked = e.linked
          /\ Range(CircleMoved(db, e).ids) = {Heir(db, n) : n \in Range(e.ids)}
      <4> HIDE DEF e
      <4> QED BY <2>1, CircleMovedFacts DEF e
    <3> QED BY <1>8, <3>1, <3>2
  <2>3. Range(db'.circle[c].ids) = {Heir(db, n) : n \in M} \ gone
    BY <1>3, <2>2
  <2>4. \A n \in M : /\ Heir(db, n) \in gone <=> n \notin K
                     /\ n \in K => Names(db', Heir(db, n)) = Names(db, n)
    BY <1>1, <1>4, <1>8
  <2> HIDE DEF M
  <2>5. {Names(db', n) : n \in {Heir(db, n) : n \in M} \ gone}
        = {Names(db, n) : n \in {n \in M : n \in K}}
    <3>1. ASSUME NEW n \in {Heir(db, m) : m \in M} \ gone
          PROVE  Names(db', n) \in {Names(db, m) : m \in {m \in M : m \in K}}
      <4>1. PICK m \in M : n = Heir(db, m)
        OBVIOUS
      <4> QED BY <2>4, <4>1
    <3>2. ASSUME NEW m \in M, m \in K
          PROVE  Names(db, m) \in {Names(db', n) : n \in {Heir(db, k) : k \in M} \ gone}
      BY <2>4, <3>2
    <3> QED BY <3>1, <3>2
  <2> QED BY <2>3, <2>5 DEF M
<1> QED BY <1>6, <1>7, <1>8

\* What the refresh is about to do changes by its own steps only.
LEMMA TaskSteps ==
  ASSUME StoreTypeOK, [StoreNext]_storeVars
  PROVE  \/ task' = task
         \/ task' = Idle
         \/ RefreshBegin \/ RefreshUnchain
         \/ \E S \in SUBSET Served : \E got \in [S -> {1, 2}] : RefreshCommit(got)
<1>1. db \in Tables
  BY DEF StoreTypeOK
<1>2. Edit => task' = task
  BY <1>1, EditFacts DEF EditFrame
<1>3. Delete => task' = task
  BY DEF Delete, DropNode, Unsubscribe, UnchainGone, HealActive
<1>4. Crash => task' = Idle
  BY DEF Crash
<1>5. RefreshFails \/ RefreshReload => task' = Idle
  BY DEF RefreshFails, RefreshReload
<1> QED BY <1>2, <1>3, <1>4, <1>5 DEF StoreNext, Refresh, storeVars

\* A refresh keeps what the operator chose: while the panel serves its server, or the node is
\* the operator's own, the active node, the target of a rule and the members of a circle name
\* the same servers after the commit, whatever rows were merged, added or deleted.
THEOREM RefreshKeeps == StoreSpec => RefreshKeepsServers
<1>1. ASSUME StoreTypeOK, [StoreNext]_storeVars, task.at = "fetch", task'.at = "unchain"
      PROVE  \E S \in SUBSET Served : \E got \in [S -> {1, 2}] : RefreshCommit(got) /\ task'.served = S
  <2>1. ~RefreshBegin /\ ~RefreshUnchain /\ task' # task /\ task' # Idle
    BY <1>1 DEF RefreshBegin, RefreshUnchain, Idle
  <2>2. PICK S \in SUBSET Served : \E got \in [S -> {1, 2}] : RefreshCommit(got)
    BY <1>1, <2>1, TaskSteps
  <2>3. PICK got \in [S -> {1, 2}] : RefreshCommit(got)
    BY <2>2
  <2>4. db \in Tables
    BY <1>1 DEF StoreTypeOK
  <2>5. task'.served = S
    BY <2>3, <2>4, CommitFacts
  <2> QED BY <2>3, <2>5
<1>2. ASSUME StoreTypeOK, [StoreNext]_storeVars, task.at = "fetch", task'.at = "unchain"
      PROVE  LET Stays(n) == IsRow(db, n) /\ (~db.node[n].sub \/ db.node[n].server \in task'.served)
             IN /\ Stays(db.active) => Names(db', db'.active) = Names(db, db.active)
                /\ \A i \in DOMAIN db.rule :
                     (db.rule[i].act[1] = "node" /\ Stays(db.rule[i].act[2]))
                     => /\ db'.rule[i].act[1] = "node"
                        /\ Names(db', db'.rule[i].act[2]) = Names(db, db.rule[i].act[2])
                /\ \A c \in {c \in CircleIds : /\ db.circle[c] # None /\ ~db.circle[c].linked
                                             /\ \A n \in Range(db.circle[c].ids) : IsRow(db, n)} :
                     {Names(db', n) : n \in Range(db'.circle[c].ids)}
                     = {Names(db, n) : n \in {n \in Range(db.circle[c].ids) : Stays(n)}}
  <2> DEFINE Stays(n) == IsRow(db, n) /\ (~db.node[n].sub \/ db.node[n].server \in task'.served)
  <2>1. PICK S \in SUBSET Served : \E got \in [S -> {1, 2}] : RefreshCommit(got) /\ task'.served = S
    BY <1>1, <1>2
  <2>2. PICK got \in [S -> {1, 2}] : RefreshCommit(got) /\ task'.served = S
    BY <2>1
  <2> DEFINE K == {n \in Ids : IsRow(db, n) /\ (~db.node[n].sub \/ db.node[n].server \in S)}
  <2>3. \A n : Stays(n) <=> n \in K
    BY <2>2 DEF IsRow
  <2>4. db \in Tables
    BY <1>2 DEF StoreTypeOK
  <2>5. /\ db.active \in K => Names(db', db'.active) = Names(db, db.active)
        /\ \A i \in DOMAIN db.rule :
               (db.rule[i].act[1] = "node" /\ db.rule[i].act[2] \in K)
               => /\ db'.rule[i].act[1] = "node"
                  /\ Names(db', db'.rule[i].act[2]) = Names(db, db.rule[i].act[2])
        /\ \A c \in {c \in CircleIds : /\ db.circle[c] # None /\ ~db.circle[c].linked
                                       /\ \A n \in Range(db.circle[c].ids) : IsRow(db, n)} :
               {Names(db', n) : n \in Range(db'.circle[c].ids)}
               = {Names(db, n) : n \in {n \in Range(db.circle[c].ids) : n \in K}}
    <3> HIDE DEF Stays
    <3> QED BY <2>2, <2>4, CommitKeepsServers
  <2>6. \A T : {n \in T : Stays(n)} = {n \in T : n \in K}
    BY <2>3
  <2> HIDE DEF K
  <2> QED BY <2>3, <2>5, <2>6
<1> QED BY <1>2, StoreTyped, PTL DEF StoreSpec, RefreshKeepsServers

-----------------------------------------------------------------------------
(* Requests that meet nobody.                                              *)

\* Two requests are never both alone.
OneAlone == solo => req.at = "idle" \/ task.at = "idle"

Forgotten(n) ==
  /\ \A i \in DOMAIN db.rule : db.rule[i].act # <<"node", n>>
  /\ \A g \in Groups : db.group[g] # None => n \notin db.group[g].ids
  /\ \A c \in CircleIds : db.circle[c] # None => n \notin Range(db.circle[c].ids)

\* A deletion that met nobody, on its way: xray and the active node are as they were, the rows
\* are gone, and before the heal so are the relays; only a subscription leaves other references.
DeletionGoesOn ==
  (solo /\ req.at \in {"unchain", "heal"}) =>
    /\ conf = was.conf /\ db.active = was.db.active
    /\ \A n \in req.gone : ~IsRow(db, n)
    /\ req.at = "unchain" => was.sub # sub
    /\ req.at = "heal" => /\ \A m \in Ids : IsRow(db, m) => db.node[m].chain \notin req.gone
                          /\ was.sub = sub => \A n \in req.gone : Forgotten(n)

\* A refresh that met nobody, on its way: a row that was there before and that it does not
\* list, neither as removed nor as changed nor as merged, has the parameters it had.
RefreshGoesOn ==
  (solo /\ task.at \in {"fetch", "unchain", "reload"}) =>
    /\ conf = was.conf
    /\ task.at = "fetch" => db = was.db
    /\ task.at # "fetch" => \A n \in Ids :
         /\ n \in task.removed => ~IsRow(db, n)
         /\ (IsRow(was.db, n) /\ n \notin Twins(was.db) \cup task.removed \cup task.changed)
            => IsRow(db, n) /\ Param(db, n) = Param(was.db, n)

StoreInv == StoreTypeOK /\ OneAlone /\ DeletionGoesOn /\ RefreshGoesOn

LEMMA StoreInvInit == ASSUME StoreInit PROVE StoreInv
<1>1. StoreTypeOK
  BY StoreTypeInit
<1>2. req.at = "idle" /\ task.at = "idle"
  BY DEF StoreInit, NoDelete, Idle
<1> QED BY <1>1, <1>2 DEF StoreInv, OneAlone, DeletionGoesOn, RefreshGoesOn

\* A step that leaves alone what the history speaks of.
LEMMA NothingMoves ==
  ASSUME OneAlone, DeletionGoesOn, RefreshGoesOn, UNCHANGED <<db, sub, conf, req, task, solo, was>>
  PROVE  OneAlone' /\ DeletionGoesOn' /\ RefreshGoesOn'
<1>1. OneAlone'
  BY DEF OneAlone
<1>2. DeletionGoesOn'
  BY DEF DeletionGoesOn, Forgotten
<1>3. RefreshGoesOn'
  BY DEF RefreshGoesOn, IsRow, Param, Twins, Keeper, Ours
<1> QED BY <1>1, <1>2, <1>3

\* Nothing to show of a state where somebody met the one under way, or nothing is.
LEMMA MetOrIdle ==
  ASSUME solo' => req'.at = "idle" /\ task'.at = "idle"
  PROVE  OneAlone' /\ DeletionGoesOn' /\ RefreshGoesOn'
BY DEF OneAlone, DeletionGoesOn, RefreshGoesOn

LEMMA DeletionStep ==
  ASSUME StoreInv, Delete
  PROVE  OneAlone' /\ DeletionGoesOn' /\ RefreshGoesOn'
<1>1. db \in Tables /\ req \in ReqType /\ OneAlone /\ DeletionGoesOn
  BY DEF StoreInv, StoreTypeOK, ReqType
<1>2. ASSUME solo' => task'.at = "idle", DeletionGoesOn'
      PROVE  OneAlone' /\ DeletionGoesOn' /\ RefreshGoesOn'
  BY <1>2 DEF OneAlone, RefreshGoesOn
<1>3. ASSUME NEW n \in Ids, DropNode(n) PROVE DeletionGoesOn' /\ (solo' => task'.at = "idle")
  <2>1. /\ req' = [at |-> "heal", gone |-> {n}] /\ UNCHANGED <<sub, conf, task>>
        /\ solo' = (req.at = "idle" /\ task.at = "idle") /\ was' = [db |-> db, conf |-> conf, sub |-> sub]
    BY <1>3 DEF DropNode, Begin
  <2>2. /\ ~IsRow(db', n) /\ db'.active = db.active
        /\ \A i \in DOMAIN db'.rule : db'.rule[i].act # <<"node", n>>
        /\ \A g \in Groups : db'.group[g] # None => n \notin db'.group[g].ids
        /\ \A c \in CircleIds : db'.circle[c] # None => n \notin Range(db'.circle[c].ids)
        /\ \A m \in Ids : IsRow(db', m) => db'.node[m].chain # n
    BY <1>1, <1>3, DropNodeTables
  <2>3. req'.at = "heal" /\ req'.gone = {n} /\ was'.conf = conf' /\ was'.db.active = db'.active
    BY <2>1, <2>2
  <2>4. Forgotten(n)'
    BY <2>2 DEF Forgotten
  <2>5. DeletionGoesOn'
    BY <2>2, <2>3, <2>4 DEF DeletionGoesOn
  <2> QED BY <2>1, <2>5
<1>4. ASSUME NEW nodes \in BOOLEAN, Unsubscribe(nodes) PROVE DeletionGoesOn' /\ (solo' => task'.at = "idle")
  <2>1. /\ UNCHANGED <<conf, task>>
        /\ solo' = (req.at = "idle" /\ task.at = "idle") /\ was' = [db |-> db, conf |-> conf, sub |-> sub]
    BY <1>4 DEF Unsubscribe, Begin
  <2>2. /\ db'.active = db.active /\ sub /\ sub' = FALSE
        /\ req' = NoDelete \/ (req'.at = "unchain" /\ \A n \in req'.gone : ~IsRow(db', n))
    BY <1>1, <1>4, UnsubscribeFacts
  <2>3. was'.conf = conf' /\ was'.db.active = db'.active /\ was'.sub # sub'
    BY <2>1, <2>2
  <2>4. req' = NoDelete => req'.at = "idle"
    BY DEF NoDelete
  <2>5. DeletionGoesOn'
    BY <2>2, <2>3, <2>4 DEF DeletionGoesOn
  <2> QED BY <2>1, <2>5
<1>5. ASSUME UnchainGone PROVE DeletionGoesOn' /\ (solo' => task'.at = "idle")
  <2>1. /\ req.at = "unchain" /\ req' = [req EXCEPT !.at = "heal"] /\ db' = Unchain(db, req.gone)
        /\ UNCHANGED <<sub, conf, task, solo, was>>
    BY <1>5 DEF UnchainGone, GoOn
  <2>2. req'.at = "heal" /\ req'.gone = req.gone /\ req.gone \in SUBSET Ids
    BY <1>1, <2>1 DEF ReqType
  <2>3. /\ db'.active = db.active
        /\ \A n \in Ids : IsRow(db', n) <=> IsRow(db, n)
        /\ \A n \in Ids : IsRow(db, n) => db'.node[n].chain \notin req.gone
    BY <1>1, <2>1, <2>2, UnchainFacts
  <2>4. solo => /\ conf = was.conf /\ db.active = was.db.active /\ was.sub # sub
                /\ \A n \in req.gone : ~IsRow(db, n)
    BY <1>1, <2>1 DEF DeletionGoesOn
  <2>5. DeletionGoesOn'
    BY <2>1, <2>2, <2>3, <2>4 DEF DeletionGoesOn
  <2> QED BY <1>1, <2>1, <2>5 DEF OneAlone
<1>6. ASSUME HealActive PROVE DeletionGoesOn' /\ (solo' => task'.at = "idle")
  <2>1. req.at = "heal" /\ req' = NoDelete /\ UNCHANGED <<solo, task>>
    BY <1>6 DEF HealActive, GoOn
  <2>2. req'.at = "idle"
    BY <2>1 DEF NoDelete
  <2> QED BY <1>1, <2>1, <2>2 DEF DeletionGoesOn, OneAlone
<1> QED BY <1>2, <1>3, <1>4, <1>5, <1>6 DEF Delete

LEMMA RefreshStep ==
  ASSUME StoreInv, Refresh
  PROVE  OneAlone' /\ DeletionGoesOn' /\ RefreshGoesOn'
<1>1. db \in Tables /\ was.db \in Tables /\ task \in TaskType /\ OneAlone /\ RefreshGoesOn
  BY DEF StoreInv, StoreTypeOK, TaskType
<1>2. ASSUME solo' => req'.at = "idle", RefreshGoesOn'
      PROVE  OneAlone' /\ DeletionGoesOn' /\ RefreshGoesOn'
  BY <1>2 DEF OneAlone, DeletionGoesOn
<1>3. ASSUME RefreshBegin PROVE RefreshGoesOn' /\ (solo' => req'.at = "idle")
  <2>1. /\ task' = [Idle EXCEPT !.at = "fetch"] /\ UNCHANGED <<db, sub, conf, req>>
        /\ solo' = (req.at = "idle" /\ task.at = "idle") /\ was' = [db |-> db, conf |-> conf, sub |-> sub]
    BY <1>3 DEF RefreshBegin, Begin
  <2>2. task'.at = "fetch" /\ was'.conf = conf' /\ was'.db = db'
    BY <2>1 DEF Idle
  <2> QED BY <2>1, <2>2 DEF RefreshGoesOn
<1>4. ASSUME RefreshFails \/ RefreshReload PROVE RefreshGoesOn' /\ (solo' => req'.at = "idle")
  <2>1. task' = Idle /\ task.at \in {"fetch", "reload"} /\ UNCHANGED <<req, solo>>
    BY <1>4 DEF RefreshFails, RefreshReload, GoOn
  <2>2. task'.at = "idle"
    BY <2>1 DEF Idle
  <2> QED BY <1>1, <2>1, <2>2 DEF RefreshGoesOn, OneAlone
<1>5. ASSUME RefreshUnchain PROVE RefreshGoesOn' /\ (solo' => req'.at = "idle")
  <2>1. /\ task.at = "unchain" /\ task' = [task EXCEPT !.at = "reload"] /\ db' = Unchain(db, task.removed)
        /\ UNCHANGED <<sub, conf, req, solo, was>>
    BY <1>5 DEF RefreshUnchain, GoOn
  <2>2. /\ task'.at = "reload" /\ task'.removed = task.removed /\ task'.changed = task.changed
        /\ task.removed \in SUBSET Ids
    BY <1>1, <2>1 DEF TaskType
  <2>3. /\ \A n \in Ids : IsRow(db', n) <=> IsRow(db, n)
        /\ \A n \in Ids : IsRow(db, n) => Param(db', n) = Param(db, n)
    BY <1>1, <2>1, <2>2, UnchainFacts DEF Param
  <2> DEFINE Kept == (Ids \ (Twins(was.db) \cup task.removed \cup task.changed))
                     \cap {n \in Ids : IsRow(was.db, n)}
  <2>4. solo => /\ conf = was.conf
                /\ \A n \in task.removed : ~IsRow(db, n)
                /\ \A n \in Kept : IsRow(db, n) /\ Param(db, n) = Param(was.db, n)
    BY <1>1, <2>1, <2>2 DEF RefreshGoesOn
  <2>5. was' = was /\ Twins(was.db)' = Twins(was.db)
    BY <2>1
  <2>6. \A n \in Ids : IsRow(was.db, n)' <=> IsRow(was.db, n)
    BY <2>1
  <2>7. \A n \in Ids : Param(was.db, n)' = Param(was.db, n)
    BY <2>1
  <2>8. RefreshGoesOn'
    BY <2>1, <2>2, <2>3, <2>4, <2>5, <2>6, <2>7 DEF RefreshGoesOn
  <2> QED BY <1>1, <2>1, <2>8 DEF OneAlone
<1>6. ASSUME NEW S \in SUBSET Served, NEW got \in [S -> {1, 2}], RefreshCommit(got)
      PROVE  RefreshGoesOn' /\ (solo' => req'.at = "idle")
  <2> DEFINE d1 == MergeTwins(db)
             gone == Vanished(d1, got)
  <2>1. /\ task.at = "fetch" /\ task'.at = "unchain" /\ task'.removed = gone
        /\ task'.changed = Changed(d1, got) /\ UNCHANGED <<sub, conf, req, solo, was>>
        /\ gone \subseteq Ours(d1)
        /\ \A n \in gone : ~IsRow(db', n)
        /\ \A n \in Ids \ gone : IsRow(d1, n) =>
              /\ IsRow(db', n) /\ db'.node[n].server = d1.node[n].server
              /\ IF n \in Ours(d1) THEN db'.node[n].ver = got[d1.node[n].server]
                 ELSE db'.node[n] = d1.node[n]
    BY <1>1, <1>6, CommitFacts
  <2>2. solo => conf = was.conf /\ db = was.db
    BY <1>1, <2>1 DEF RefreshGoesOn
  <2>3. d1 \in Tables /\ \A n \in Ids \ Twins(db) : d1.node[n] = db.node[n]
    BY <1>1, MergeFacts
  <2>4. ASSUME NEW n \in Ids, IsRow(db, n), n \notin Twins(db), n \notin gone, n \notin Changed(d1, got)
        PROVE  IsRow(db', n) /\ Param(db', n) = Param(db, n)
    <3>1. d1.node[n] = db.node[n] /\ IsRow(d1, n)
      BY <2>3, <2>4 DEF IsRow
    <3>2. /\ IsRow(db', n) /\ db'.node[n].server = db.node[n].server
          /\ IF n \in Ours(d1) THEN db'.node[n].ver = got[d1.node[n].server]
             ELSE db'.node[n] = d1.node[n]
      <4> HIDE DEF d1, gone
      <4> QED BY <2>1, <2>4, <3>1
    <3>3. n \in Ours(d1) => got[d1.node[n].server] = d1.node[n].ver
      BY <2>4 DEF Changed
    <3>4. db'.node[n].ver = db.node[n].ver
      <4> HIDE DEF d1, gone
      <4> QED BY <3>1, <3>2, <3>3
    <3> QED BY <3>2, <3>4 DEF Param
  <2> HIDE DEF d1, gone
  <2>5. \A n \in Ids : IsRow(was.db, n)' <=> IsRow(was.db, n)
    BY <2>1
  <2>6. \A n \in Ids : Param(was.db, n)' = Param(was.db, n)
    BY <2>1
  <2>7. Twins(was.db)' = Twins(was.db)
    BY <2>1
  <2>8. ASSUME solo'
        PROVE  /\ conf' = was'.conf
               /\ \A n \in Ids :
                    /\ n \in task'.removed => ~IsRow(db', n)
                    /\ (IsRow(was.db, n)' /\ n \notin Twins(was.db)' \cup task'.removed \cup task'.changed)
                       => IsRow(db', n) /\ Param(db', n) = Param(was.db, n)'
    <3>1. was.db = db /\ conf' = was'.conf
      BY <2>1, <2>2, <2>8
    <3> QED BY <2>1, <2>4, <2>5, <2>6, <2>7, <3>1
  <2>9. RefreshGoesOn'
    BY <2>1, <2>8 DEF RefreshGoesOn
  <2> QED BY <1>1, <2>1, <2>9 DEF OneAlone
<1> QED BY <1>2, <1>3, <1>4, <1>5, <1>6 DEF Refresh

LEMMA StoreInvStep == ASSUME StoreInv, [StoreNext]_storeVars PROVE StoreInv'
<1>1. StoreTypeOK /\ StoreTypeOK'
  BY StoreTypeStep DEF StoreInv
<1>2. CASE UNCHANGED storeVars
  BY <1>1, <1>2, NothingMoves DEF StoreInv, storeVars
<1>3. CASE Edit
  <2>1. PICK k \in Kinds : EditFrame(k)
    BY <1>1, <1>3, EditFacts DEF StoreTypeOK
  <2>2. solo' => req'.at = "idle" /\ task'.at = "idle"
    BY <2>1 DEF EditFrame, Meet
  <2> QED BY <1>1, <2>2, MetOrIdle DEF StoreInv
<1>4. CASE Crash
  <2>1. ~solo'
    BY <1>4 DEF Crash
  <2> QED BY <1>1, <2>1, MetOrIdle DEF StoreInv
<1>5. CASE Delete
  BY <1>1, <1>5, DeletionStep DEF StoreInv
<1>6. CASE Refresh
  BY <1>1, <1>6, RefreshStep DEF StoreInv
<1> QED BY <1>2, <1>3, <1>4, <1>5, <1>6 DEF StoreNext

LEMMA StoreInvHolds == StoreSpec => []StoreInv
<1>1. StoreInit => StoreInv
  BY StoreInvInit
<1>2. StoreInv /\ [StoreNext]_storeVars => StoreInv'
  BY StoreInvStep
<1> QED BY <1>1, <1>2, PTL DEF StoreSpec

\* A request that deletes nodes and meets nobody leaves no reference behind, and xray is
\* stopped or has been told of the node that took over from an active one.
THEOREM DeletesCleanUp == StoreSpec => LoneDeletesCleanUp
<1>1. ASSUME StoreInv, req.at = "heal", solo, HealActive, NEW n \in req.gone
      PROVE  /\ db'.active # n
             /\ (was.db.active = n /\ was.conf # Stopped) => conf' \in {Stopped, Running(db')}
             /\ \A m \in Ids : IsRow(db', m) => db'.node[m].chain # n
             /\ was.sub = sub =>
                  /\ \A i \in DOMAIN db'.rule : db'.rule[i].act # <<"node", n>>
                  /\ \A g \in Groups : db'.group[g] # None => n \notin db'.group[g].ids
                  /\ \A c \in CircleIds : db'.circle[c] # None => n \notin Range(db'.circle[c].ids)
  <2>1. db \in Tables /\ n \in Ids /\ n # 0
    BY <1>1, FiniteIds DEF StoreInv, StoreTypeOK
  <2>2. /\ conf = was.conf /\ db.active = was.db.active /\ ~IsRow(db, n)
        /\ \A m \in Ids : IsRow(db, m) => db.node[m].chain \notin req.gone
        /\ was.sub = sub => Forgotten(n)
    BY <1>1 DEF StoreInv, DeletionGoesOn
  <2>3. /\ db'.node = db.node /\ db'.rule = db.rule /\ db'.group = db.group /\ db'.circle = db.circle
        /\ db.active \notin req.gone => db' = db /\ conf' = conf
        /\ db.active \in req.gone =>
             \/ db'.active = 0 /\ conf' = Stopped
             \/ IsRow(db, db'.active) /\ conf' = IF Up THEN Running(db') ELSE conf
    BY <1>1, <2>1, HealFacts
  <2>4. db'.active # n
    BY <1>1, <2>1, <2>2, <2>3
  <2>5. (was.db.active = n /\ was.conf # Stopped) => conf' \in {Stopped, Running(db')}
    BY <1>1, <2>2, <2>3 DEF Up
  <2>6. \A m \in Ids : IsRow(db', m) => db'.node[m].chain # n
    BY <1>1, <2>2, <2>3 DEF IsRow
  <2>7. was.sub = sub =>
          /\ \A i \in DOMAIN db'.rule : db'.rule[i].act # <<"node", n>>
          /\ \A g \in Groups : db'.group[g] # None => n \notin db'.group[g].ids
          /\ \A c \in CircleIds : db'.circle[c] # None => n \notin Range(db'.circle[c].ids)
    BY <2>2, <2>3 DEF Forgotten
  <2> QED BY <2>4, <2>5, <2>6, <2>7
<1>2. ASSUME StoreInv, req.at = "heal" /\ solo /\ HealActive
      PROVE  \A n \in req.gone :
               /\ db'.active # n
               /\ (was.db.active = n /\ was.conf # Stopped) => conf' \in {Stopped, Running(db')}
               /\ \A m \in Ids : IsRow(db', m) => db'.node[m].chain # n
               /\ was.sub = sub =>
                    /\ \A i \in DOMAIN db'.rule : db'.rule[i].act # <<"node", n>>
                    /\ \A g \in Groups : db'.group[g] # None => n \notin db'.group[g].ids
                    /\ \A c \in CircleIds : db'.circle[c] # None => n \notin Range(db'.circle[c].ids)
  BY <1>1, <1>2
<1> QED BY <1>2, StoreInvHolds, PTL DEF StoreSpec, LoneDeletesCleanUp

\* A refresh reaches xray: if xray ran what the rows said and nothing interfered, every node
\* that it runs and that the rows still wire has the parameters of its row in the end, a relay
\* behind a relay included, but for the id of a duplicate that was merged.
THEOREM RefreshReaches == StoreSpec => RefreshReachesXray
<1>1. ASSUME StoreInv, task.at = "reload", solo, RefreshReload, Up, was.conf = Running(was.db),
             NEW n \in (conf'.built \cap Wired(db').built) \ Twins(was.db)
      PROVE  conf'.par[n] = Param(db', n)
  <2>1. db \in Tables /\ was.db \in Tables
    BY <1>1 DEF StoreInv, StoreTypeOK
  <2>2. db' = db /\ n \in Wired(db).built
    BY <1>1 DEF RefreshReload
  <2>3. n \in Ids /\ IsRow(db, n) /\ n \in Referenced(db)
    BY <2>1, <2>2, BuiltFacts
  <2>4. CASE conf' = Running(db)
    BY <2>1, <2>2, <2>3, <2>4, RunningFacts
  <2>5. CASE (task.removed \cup task.changed) \cap Referenced(db) = {} /\ conf' = conf
    <3>1. n \notin task.removed \cup task.changed
      BY <2>3, <2>5
    <3>2. conf = was.conf
      BY <1>1 DEF StoreInv, RefreshGoesOn
    <3>3. n \in Wired(was.db).built
      BY <1>1, <2>1, <2>5, <3>2, RunningFacts
    <3>4. IsRow(was.db, n)
      BY <2>1, <3>3, BuiltFacts
    <3>5. Param(db, n) = Param(was.db, n)
      BY <1>1, <2>3, <3>1, <3>4 DEF StoreInv, RefreshGoesOn
    <3>6. conf'.par[n] = Param(was.db, n)
      BY <1>1, <2>1, <2>3, <2>5, <3>2, <3>4, RunningFacts
    <3> QED BY <2>2, <3>5, <3>6
  <2>6. conf' = Running(db) \/ ((task.removed \cup task.changed) \cap Referenced(db) = {} /\ conf' = conf)
    BY <1>1 DEF RefreshReload, Reload
  <2> QED BY <2>4, <2>5, <2>6
<1>2. ASSUME StoreInv, task.at = "reload" /\ solo /\ RefreshReload /\ Up /\ was.conf = Running(was.db)
      PROVE  \A n \in (conf'.built \cap Wired(db').built) \ Twins(was.db) : conf'.par[n] = Param(db', n)
  BY <1>1, <1>2
<1> QED BY <1>2, StoreInvHolds, PTL DEF StoreSpec, RefreshReachesXray

-----------------------------------------------------------------------------
(* The route explainer.                                                    *)

\* x is the first element of s in H; no element of s is in H.
Leads(s, H, x) == x \in H /\ \E i \in DOMAIN s : s[i] = x /\ \A j \in DOMAIN s : j < i => s[j] \notin H
Misses(s, H) == \A i \in DOMAIN s : s[i] \notin H

LEMMA FirstIs ==
  ASSUME NEW T, NEW s \in Seq(T), NEW H, NEW x, Leads(s, H, x)
  PROVE  FirstIn(s, H) = x
<1> DEFINE P == {i \in DOMAIN s : s[i] \in H}
<1>1. PICK i \in DOMAIN s : s[i] = x /\ \A j \in DOMAIN s : j < i => s[j] \notin H
  BY DEF Leads
<1>2. i \in P /\ P \subseteq Nat /\ \A j \in P : ~(j < i)
  BY <1>1 DEF Leads
<1> HIDE DEF P
<1>3. Min(P) \in P /\ Min(P) <= i /\ ~(Min(P) < i)
  BY <1>2, MinFacts
<1>4. Min(P) = i
  BY <1>2, <1>3
<1> QED BY <1>1, <1>4 DEF FirstIn, P

\* A sequence that has an element in H has a first one.
LEMMA LeadsOrMisses ==
  ASSUME NEW T, NEW s \in Seq(T), NEW H
  PROVE  Misses(s, H) \/ \E x : Leads(s, H, x)
<1> DEFINE P == {i \in DOMAIN s : s[i] \in H}
<1>1. P \subseteq Nat
  OBVIOUS
<1>2. CASE P = {}
  BY <1>2 DEF Misses
<1>3. CASE P # {}
  <2> HIDE DEF P
  <2>1. PICK i \in P : \A j \in P : i <= j
    BY <1>1, <1>3, LeastNat
  <2>2. i \in DOMAIN s /\ s[i] \in H /\ \A j \in DOMAIN s : j < i => s[j] \notin H
    BY <1>1, <2>1 DEF P
  <2> QED BY <2>2 DEF Leads
<1> QED BY <1>2, <1>3

\* The first match of a list is that of its first part, or of its second when that has none.
LEMMA LeadsConcat ==
  ASSUME NEW T, NEW s \in Seq(T), NEW t \in Seq(T), NEW H
  PROVE  /\ s \o t \in Seq(T)
         /\ \A x : Leads(s, H, x) => Leads(s \o t, H, x)
         /\ Misses(s, H) => \A x : Leads(t, H, x) => Leads(s \o t, H, x)
         /\ Misses(s, H) /\ Misses(t, H) => Misses(s \o t, H)
<1> DEFINE q == s \o t
<1>1. /\ q \in Seq(T) /\ DOMAIN q = 1..Len(s) + Len(t) /\ DOMAIN s = 1..Len(s) /\ DOMAIN t = 1..Len(t)
      /\ Len(s) \in Nat /\ Len(t) \in Nat
      /\ \A i \in 1..Len(s) : q[i] = s[i]
      /\ \A i \in Len(s) + 1..Len(s) + Len(t) : q[i] = t[i - Len(s)]
  OBVIOUS
<1> HIDE DEF q
<1>2. ASSUME NEW x, Leads(s, H, x) PROVE Leads(q, H, x)
  <2>1. PICK i \in DOMAIN s : s[i] = x /\ \A j \in DOMAIN s : j < i => s[j] \notin H
    BY <1>2 DEF Leads
  <2>2. i \in DOMAIN q /\ q[i] = x /\ \A j \in DOMAIN q : j < i => j \in DOMAIN s /\ q[j] = s[j]
    BY <1>1, <2>1
  <2> QED BY <1>2, <2>1, <2>2 DEF Leads
<1>3. ASSUME Misses(s, H), NEW x, Leads(t, H, x) PROVE Leads(q, H, x)
  <2>1. PICK i \in DOMAIN t : t[i] = x /\ \A j \in DOMAIN t : j < i => t[j] \notin H
    BY <1>3 DEF Leads
  <2> DEFINE k == i + Len(s)
  <2>2. k \in DOMAIN q /\ k - Len(s) = i /\ k \in Len(s) + 1..Len(s) + Len(t)
    BY <1>1, <2>1
  <2> HIDE DEF k
  <2>3. q[k] = x
    BY <1>1, <2>1, <2>2
  <2>4. ASSUME NEW j \in DOMAIN q, j < k PROVE q[j] \notin H
    <3>1. CASE j \in 1..Len(s)
      BY <1>1, <1>3, <3>1 DEF Misses
    <3>2. CASE j \notin 1..Len(s)
      <4>1. j \in Len(s) + 1..Len(s) + Len(t) /\ j - Len(s) \in DOMAIN t /\ j - Len(s) < i
        BY <1>1, <2>1, <2>2, <2>4, <3>2
      <4> QED BY <1>1, <2>1, <4>1
    <3> QED BY <3>1, <3>2
  <2> QED BY <1>3, <2>2, <2>3, <2>4 DEF Leads
<1>4. ASSUME Misses(s, H), Misses(t, H), NEW j \in DOMAIN q PROVE q[j] \notin H
  <2>1. CASE j \in 1..Len(s)
    BY <1>1, <1>4, <2>1 DEF Misses
  <2>2. CASE j \notin 1..Len(s)
    <3>1. j \in Len(s) + 1..Len(s) + Len(t) /\ j - Len(s) \in DOMAIN t
      BY <1>1, <1>4, <2>2
    <3> QED BY <1>1, <1>4, <3>1 DEF Misses
  <2> QED BY <2>1, <2>2
<1> QED BY <1>1, <1>2, <1>3, <1>4 DEF Misses, q

LEMMA AscendingClimbs ==
  ASSUME NEW S \in SUBSET Nat, IsFiniteSet(S), NEW k \in 1..Cardinality(S), NEW l \in 1..Cardinality(S),
         Ascending(S)[k] < Ascending(S)[l]
  PROVE  k < l
<1> DEFINE a == Ascending(S)
           Below(j) == {y \in S : y <= a[j]}
<1>1. a[k] \in S /\ a[l] \in S /\ Cardinality(Below(k)) = k /\ Cardinality(Below(l)) = l
      /\ Cardinality(S) \in Nat
  BY AscendingFacts
<1>2. a[k] \in Nat /\ a[l] \in Nat /\ a[k] < a[l]
  BY <1>1
<1> HIDE DEF a
<1>3. Below(k) \subseteq Below(l) /\ a[l] \in Below(l) /\ a[l] \notin Below(k)
  <2>1. \A y \in S : y <= a[k] => y <= a[l]
    BY <1>2
  <2>2. a[l] <= a[l] /\ ~(a[l] <= a[k])
    BY <1>2
  <2> QED BY <1>1, <2>1, <2>2
<1>4. IsFiniteSet(Below(l))
  BY FS_Subset
<1>5. Cardinality(Below(k)) <= Cardinality(Below(l)) /\ (Below(k) # Below(l) => Cardinality(Below(k)) # Cardinality(Below(l)))
  BY <1>3, <1>4, FS_Subset
<1>6. k # l /\ k <= l
  BY <1>1, <1>3, <1>5
<1> QED BY <1>1, <1>6

\* The first match in a selection is the match at the first place selected.
LEMMA LeadsPicked ==
  ASSUME NEW T, NEW s \in Seq(T), NEW I \in SUBSET (1..Len(s)), NEW H
  PROVE  /\ (\A i \in I : s[i] \notin H) => Misses(Picked(s, I), H)
         /\ \A i \in I : (s[i] \in H /\ \A j \in I : j < i => s[j] \notin H) => Leads(Picked(s, I), H, s[i])
<1> DEFINE a == Ascending(I)
           q == Picked(s, I)
           N == Cardinality(I)
<1>1. IsFiniteSet(I) /\ I \subseteq Nat /\ N \in Nat
  <2>1. Len(s) \in Nat /\ I \subseteq Nat
    OBVIOUS
  <2>2. \A n \in Nat : IsFiniteSet(1..n)
    BY FS_Interval
  <2>3. IsFiniteSet(I)
    BY <2>1, <2>2, FS_Subset
  <2>4. Cardinality(I) \in Nat
    BY <2>3, FS_CardinalityType
  <2> QED BY <2>1, <2>3, <2>4
<1>2. q = [k \in 1..N |-> s[a[k]]]
  BY DEF Picked
<1>3. /\ DOMAIN a = 1..N /\ Range(a) = I /\ \A k \in 1..N : a[k] \in I
  BY <1>1, AscendingFacts
<1>4. \A k, l \in 1..N : a[k] < a[l] => k < l
  BY <1>1, AscendingClimbs
<1>5. IsInjective(a)
  BY <1>1, AscendingFacts
<1> HIDE DEF a, q
<1>6. DOMAIN q = 1..N /\ \A k \in 1..N : q[k] = s[a[k]]
  BY <1>2
<1> HIDE DEF N
<1>7. ASSUME \A i \in I : s[i] \notin H PROVE Misses(q, H)
  BY <1>3, <1>6, <1>7 DEF Misses
<1>8. ASSUME NEW i \in I, s[i] \in H, \A j \in I : j < i => s[j] \notin H PROVE Leads(q, H, s[i])
  <2>1. PICK k \in 1..N : a[k] = i
    BY <1>3 DEF Range
  <2>2. ASSUME NEW l \in 1..N, l < k PROVE q[l] \notin H
    <3>1. a[l] \in I /\ a[l] \in Nat /\ i \in Nat
      BY <1>1, <1>3
    <3>2. a[l] # i
      BY <1>3, <1>5, <2>1, <2>2 DEF IsInjective
    <3>3. ~(i < a[l])
      <4>1. ~(k < l)
        BY <1>1, <2>2
      <4> QED BY <1>4, <2>1, <4>1
    <3>4. a[l] < i
      BY <3>1, <3>2, <3>3
    <3> QED BY <1>6, <1>8, <3>1, <3>4
  <2>3. q[k] = s[i]
    BY <1>6, <2>1
  <2> QED BY <1>6, <1>8, <2>1, <2>2, <2>3 DEF Leads
<1> QED BY <1>7, <1>8 DEF q

-----------------------------------------------------------------------------
\* Where traffic may be sent, and the rules of a configuration.
Outs == Actions \cup ({"circle"} \X CircleIds)
XrayRule == [via : {0} \cup Sets, when : Whens \cup {"dns", "private", "all"}, to : Outs]
RuleEntry(d, v, r) == [via |-> v, when |-> r.when, to |-> Target(d, r.act)]

LEMMA TargetFacts ==
  ASSUME NEW d \in Tables, NEW act \in Actions
  PROVE  ProxyTarget(d) \in Outs /\ Target(d, act) \in Outs
<1>1. <<"direct">> \in Outs /\ Actions \subseteq Outs
  BY DEF Outs, Actions
<1>2. CASE ActiveCircle(d) # 0
  <2>1. ActiveCircle(d) \in CircleIds
    BY <1>2, ActiveCircleFacts
  <2> QED BY <1>1, <1>2, <2>1 DEF ProxyTarget, Outs, Target
<1>3. CASE ActiveCircle(d) = 0 /\ IsRow(d, d.active)
  <2>1. d.active \in Ids
    BY <1>3 DEF IsRow
  <2>2. <<"node", d.active>> \in Outs
    BY <2>1 DEF Outs, Actions
  <2> QED BY <1>1, <1>3, <2>2 DEF ProxyTarget, Target
<1>4. CASE ActiveCircle(d) = 0 /\ ~IsRow(d, d.active)
  BY <1>1, <1>4 DEF ProxyTarget, Target
<1> QED BY <1>2, <1>3, <1>4

\* The rules of one set, as the explainer walks them.
RowsOf(d, v) == Picked(d.rule, {i \in DOMAIN d.rule : d.rule[i].set = v})

\* What the explainer takes for a match, and what xray does.
Possible(p) == {x \in Rule : x.when = "list" \/ Matches(x.when, p)}
Certain(p) == {x \in XrayRule : x.via \in {0, p.via} /\ Matches(x.when, p)}

LEMMA EmittedTyped ==
  ASSUME NEW d \in Tables, NEW v \in {0} \cup Sets
  PROVE  Emitted(d, v) \in Seq(XrayRule) /\ RowsOf(d, v) \in Seq(Rule)
<1> DEFINE I == {i \in DOMAIN d.rule : d.rule[i].set = v /\ d.rule[i].when # "mac"}
           own == Picked(d.rule, I)
<1>1. d.rule \in Seq(Rule)
  BY TableFields
<1>2. I \in SUBSET (1..Len(d.rule)) /\ {i \in DOMAIN d.rule : d.rule[i].set = v} \in SUBSET (1..Len(d.rule))
  BY <1>1
<1>3. own \in Seq(Rule) /\ RowsOf(d, v) \in Seq(Rule)
  BY <1>1, <1>2, PickedFacts DEF RowsOf
<1>4. Emitted(d, v) = [i \in DOMAIN own |-> RuleEntry(d, v, own[i])]
  BY DEF Emitted, RuleEntry
<1> HIDE DEF own
<1>5. \A i \in DOMAIN own : RuleEntry(d, v, own[i]) \in XrayRule
  <2> TAKE i \in DOMAIN own
  <2>1. own[i] \in Rule
    BY <1>3
  <2>2. own[i].when \in Whens /\ own[i].act \in Actions
    BY <2>1 DEF Rule
  <2>3. Target(d, own[i].act) \in Outs
    BY <2>2, TargetFacts
  <2> QED BY <2>2, <2>3 DEF RuleEntry, XrayRule
<1>6. DOMAIN own = 1..Len(own) /\ Len(own) \in Nat
  BY <1>3
<1> QED BY <1>3, <1>4, <1>5, <1>6

\* Within one set, the explainer's first possible match is xray's first match, unless the
\* explainer cannot know whether it matches.
LEMMA SetAgrees ==
  ASSUME NEW d \in Tables, NEW p \in Packets, NEW v \in {0, p.via}
  PROVE  \/ Misses(RowsOf(d, v), Possible(p)) /\ Misses(Emitted(d, v), Certain(p))
         \/ \E r \in Rule : /\ Leads(RowsOf(d, v), Possible(p), r)
                            /\ r.when # "list" => Leads(Emitted(d, v), Certain(p), RuleEntry(d, v, r))
<1> DEFINE s == d.rule
           W == {i \in DOMAIN s : s[i].set = v}
           I == {i \in DOMAIN s : s[i].set = v /\ s[i].when # "mac"}
           E == {x \in Rule : RuleEntry(d, v, x) \in Certain(p)}
           G == {i \in W : s[i] \in Possible(p)}
           own == Picked(s, I)
<1>1. s \in Seq(Rule) /\ DOMAIN s = 1..Len(s) /\ v \in {0} \cup Sets
  BY TableFields DEF Packets
<1>2. W \in SUBSET (1..Len(s)) /\ I \in SUBSET (1..Len(s)) /\ I \subseteq W /\ G \subseteq Nat
  BY <1>1
<1>3. \A x \in Rule : RuleEntry(d, v, x) \in Certain(p) <=> Matches(x.when, p)
  <2> TAKE x \in Rule
  <2>1. x.when \in Whens /\ x.act \in Actions
    BY DEF Rule
  <2>2. Target(d, x.act) \in Outs
    BY <2>1, TargetFacts
  <2>3. RuleEntry(d, v, x) \in XrayRule /\ RuleEntry(d, v, x).via = v /\ RuleEntry(d, v, x).when = x.when
    BY <1>1, <2>1, <2>2 DEF RuleEntry, XrayRule
  <2> QED BY <2>3 DEF Certain
<1>4. own \in Seq(Rule) /\ DOMAIN Emitted(d, v) = DOMAIN own
      /\ \A i \in DOMAIN own : own[i] \in Rule /\ Emitted(d, v)[i] = RuleEntry(d, v, own[i])
  <2>1. own \in Seq(Rule)
    BY <1>1, <1>2, PickedFacts
  <2>2. Emitted(d, v) = [i \in DOMAIN own |-> RuleEntry(d, v, own[i])]
    BY DEF Emitted, RuleEntry
  <2> HIDE DEF own
  <2> QED BY <2>1, <2>2
<1>5. ASSUME Misses(own, E) PROVE Misses(Emitted(d, v), Certain(p))
  <2> HIDE DEF own
  <2> QED BY <1>4, <1>5 DEF Misses
<1>6. ASSUME NEW r, Leads(own, E, r) PROVE Leads(Emitted(d, v), Certain(p), RuleEntry(d, v, r))
  <2> HIDE DEF own
  <2>1. PICK i \in DOMAIN own : own[i] = r /\ \A j \in DOMAIN own : j < i => own[j] \notin E
    BY <1>6 DEF Leads
  <2>2. r \in E /\ RuleEntry(d, v, r) \in Certain(p)
    BY <1>6 DEF Leads
  <2>3. Emitted(d, v)[i] = RuleEntry(d, v, r) /\ i \in DOMAIN Emitted(d, v)
    BY <1>4, <2>1
  <2>4. \A j \in DOMAIN Emitted(d, v) : j < i => Emitted(d, v)[j] \notin Certain(p)
    BY <1>4, <2>1
  <2> QED BY <2>2, <2>3, <2>4 DEF Leads
<1>7. \A i \in W : s[i] \in Rule /\ (s[i] \in E <=> Matches(s[i].when, p))
                   /\ (Matches(s[i].when, p) => i \in I)
                   /\ (Matches(s[i].when, p) => s[i] \in Possible(p))
                   /\ (s[i] \in Possible(p) /\ s[i].when # "list" => Matches(s[i].when, p))
  <2> TAKE i \in W
  <2>1. s[i] \in Rule /\ i \in DOMAIN s /\ s[i].set = v
    BY <1>1
  <2>2. s[i].when = "mac" => ~Matches(s[i].when, p)
    BY DEF Matches
  <2> QED BY <1>3, <2>1, <2>2 DEF Possible
<1> HIDE DEF s, E
<1>8. CASE G = {}
  <2>1. \A i \in W : s[i] \notin Possible(p)
    BY <1>8
  <2>2. \A i \in I : s[i] \notin E
    BY <1>2, <1>7, <2>1
  <2>3. Misses(RowsOf(d, v), Possible(p))
    BY <1>1, <1>2, <2>1, LeadsPicked DEF RowsOf, s
  <2>4. Misses(own, E)
    BY <1>1, <1>2, <2>2, LeadsPicked
  <2> QED BY <1>5, <2>3, <2>4
<1>9. CASE G # {}
  <2> HIDE DEF G
  <2>1. PICK i \in G : \A j \in G : i <= j
    BY <1>2, <1>9, LeastNat
  <2> USE DEF G
  <2>2. i \in W /\ s[i] \in Possible(p) /\ \A j \in W : j < i => s[j] \notin Possible(p)
    BY <1>2, <2>1
  <2>3. Leads(RowsOf(d, v), Possible(p), s[i])
    BY <1>1, <1>2, <2>2, LeadsPicked DEF RowsOf, s
  <2>4. ASSUME s[i].when # "list" PROVE Leads(Emitted(d, v), Certain(p), RuleEntry(d, v, s[i]))
    <3>1. i \in I /\ s[i] \in E
      BY <1>7, <2>2, <2>4
    <3>2. \A j \in I : j < i => s[j] \notin E
      BY <1>2, <1>7, <2>2
    <3>3. Leads(own, E, s[i])
      BY <1>1, <1>2, <3>1, <3>2, LeadsPicked
    <3> QED BY <1>6, <3>3
  <2>5. s[i] \in Rule
    BY <1>7, <2>2
  <2> QED BY <2>3, <2>4, <2>5
<1> QED BY <1>8, <1>9

\* The rules of the other sets match nothing that comes in by this one.
LEMMA OthersMiss ==
  ASSUME NEW d \in Tables, NEW p \in Packets, NEW v \in Sets, v # p.via
  PROVE  Misses(Emitted(d, v), Certain(p))
<1>1. v # 0
  BY IdsAssumption
<1>2. \A i \in DOMAIN Emitted(d, v) : Emitted(d, v)[i].via = v
  BY DEF Emitted
<1> QED BY <1>1, <1>2 DEF Misses, Certain

\* Put together, the rules of all sets do what the rules of the packet's set do.
LEMMA OfSetsActs ==
  ASSUME NEW d \in Tables, NEW p \in Packets, p.via \in {0} \cup d.peopled
  PROVE  /\ OfSets(d) \in Seq(XrayRule)
         /\ p.via = 0 => Misses(OfSets(d), Certain(p))
         /\ p.via # 0 => /\ Misses(Emitted(d, p.via), Certain(p)) => Misses(OfSets(d), Certain(p))
                         /\ \A x : Leads(Emitted(d, p.via), Certain(p), x)
                                     => Leads(OfSets(d), Certain(p), x)
<1> DEFINE D == Seq(XrayRule)
           N == Max({0} \cup Sets)
           b == <<>>
           H == Certain(p)
           v == p.via
           New(k) == IF k \in d.peopled THEN Emitted(d, k) ELSE <<>>
           g == [x \in D \X (0..N) |-> x[1] \o New(x[2])]
           Grows(f) == f = [s \in 0..N |-> IF s = 0 THEN <<>>
                                           ELSE f[s - 1] \o (IF s \in d.peopled THEN Emitted(d, s) ELSE <<>>)]
           f == CHOOSE f : Grows(f)
<1>1. N \in Nat /\ \A k \in Sets : k \in 1..N
  <2>1. IsFiniteSet({0}) /\ IsFiniteSet(Sets)
    BY IdsAssumption, FS_Singleton
  <2>2. IsFiniteSet({0} \cup Sets)
    BY <2>1, FS_Union
  <2>3. {0} \cup Sets \subseteq Nat /\ 0 \notin Sets
    BY IdsAssumption
  <2>4. Max({0} \cup Sets) \in {0} \cup Sets /\ \A y \in {0} \cup Sets : y <= Max({0} \cup Sets)
    BY <2>2, <2>3, MaxFacts
  <2> QED BY <2>3, <2>4
<1>2. b \in D /\ Misses(<<>>, H)
  BY DEF Misses
<1>3. ASSUME NEW k PROVE New(k) \in D
  <2>1. d.peopled \subseteq {0} \cup Sets
    BY DEF Tables
  <2>2. \A j \in d.peopled : Emitted(d, j) \in D
    BY <2>1, EmittedTyped
  <2>3. <<>> \in D
    OBVIOUS
  <2> HIDE DEF D
  <2> QED BY <2>2, <2>3
<1> HIDE DEF New
<1>4. g \in [D \X (0..N) -> D]
  <2>1. ASSUME NEW x \in D \X (0..N) PROVE x[1] \o New(x[2]) \in D
    <3>1. x[1] \in D /\ New(x[2]) \in D
      BY <1>3
    <3> QED BY <3>1
  <2> HIDE DEF D, N
  <2> QED BY <2>1
<1>5. PICK h : Iterated(h, D, N, b, g)
  <2> HIDE DEF b, D, g, N, f
  <2> QED BY <1>1, <1>2, <1>4, Iterates
<1>6. h \in [0..N -> D] /\ \A k \in 0..N : h[k] = IF k = 0 THEN <<>> ELSE h[k - 1] \o New(k)
  <2>1. h \in [0..N -> D]
    BY <1>5 DEF Iterated
  <2> SUFFICES ASSUME NEW k \in 0..N PROVE h[k] = IF k = 0 THEN <<>> ELSE h[k - 1] \o New(k)
    BY <2>1
  <2>2. ASSUME k # 0 PROVE k - 1 \in 0..N
    BY <1>1, <2>2
  <2>3. h[k] = IF k = 0 THEN <<>> ELSE g[<<h[k - 1], k>>]
    BY <1>5 DEF Iterated
  <2>4. ASSUME k # 0 PROVE g[<<h[k - 1], k>>] = h[k - 1] \o New(k)
    BY <2>1, <2>2, <2>4
  <2> QED BY <2>3, <2>4
<1>7. Grows(h)
  <2> DEFINE q == [s \in 0..N |-> IF s = 0 THEN <<>>
                                  ELSE h[s - 1] \o (IF s \in d.peopled THEN Emitted(d, s) ELSE <<>>)]
  <2>1. \A k \in 0..N : h[k] = q[k]
    BY <1>6 DEF New
  <2> QED BY <1>6, <2>1
<1> HIDE DEF Grows
<1>8. Grows(f)
  BY <1>7
<1>9. f[N] = OfSets(d)
  BY DEF OfSets, Grows
<1>10. \A k \in 0..N : f[k] = h[k]
  <2> DEFINE B == {k \in 0..N : f[k] = h[k]}
  <2>1. \A k \in 0..N : f[k] = IF k = 0 THEN <<>> ELSE f[k - 1] \o New(k)
    BY <1>8 DEF Grows, New
  <2> HIDE DEF f
  <2>2. 0 \in B
    <3>1. 0 \in 0..N
      BY <1>1
    <3> HIDE DEF N
    <3>2. f[0] = h[0]
      BY <1>6, <2>1, <3>1
    <3> QED BY <3>1, <3>2
  <2>3. ASSUME NEW k \in 0..N, k \in B, k < N PROVE k + 1 \in B
    <3>1. k + 1 \in 0..N /\ k + 1 # 0 /\ (k + 1) - 1 = k /\ f[k] = h[k]
      BY <1>1, <2>3
    <3> QED BY <1>6, <2>1, <3>1
  <2> HIDE DEF B
  <2>4. \A k \in 0..N : k \in B
    BY <1>1, <2>2, <2>3, Climbs
  <2> QED BY <2>4 DEF B
<1> HIDE DEF f, g, b, N, H, v
\* The rules of the sets up to k miss while v is not among them, and act as those of v after.
<1> DEFINE Acts(k) == /\ (v = 0 \/ k < v) => Misses(h[k], H)
                      /\ (v # 0 /\ v <= k) => /\ Misses(Emitted(d, v), H) => Misses(h[k], H)
                                              /\ \A x : Leads(Emitted(d, v), H, x) => Leads(h[k], H, x)
           A == {k \in 0..N : Acts(k)}
<1>11. v \in {0} \cup d.peopled /\ v \in Nat /\ d.peopled \subseteq Sets /\ (v # 0 => v \in 1..N)
  <2>1. d.peopled \subseteq Sets
    BY DEF Tables
  <2>2. v \in {0} \cup d.peopled
    BY DEF v
  <2>3. v \in Nat /\ (v # 0 => v \in Sets)
    BY <2>1, <2>2, IdsAssumption
  <2> QED BY <1>1, <2>1, <2>2, <2>3
<1>12. 0 \in A
  <2>1. 0 \in 0..N /\ h[0] = <<>> /\ ~(v # 0 /\ v <= 0)
    BY <1>1, <1>6, <1>11
  <2> HIDE DEF D
  <2> QED BY <1>2, <2>1
<1>13. ASSUME NEW k \in 0..N, k \in A, k < N PROVE k + 1 \in A
  <2>1. k + 1 \in 0..N /\ k + 1 # 0 /\ (k + 1) - 1 = k /\ k \in Nat
    BY <1>1, <1>13
  <2> DEFINE s == h[k]
             t == New(k + 1)
  <2>2. h[k + 1] = s \o t /\ s \in D /\ t \in D
    <3> HIDE DEF D
    <3> QED BY <1>3, <1>6, <2>1
  <2>3. Acts(k)
    BY <1>13
  <2>4. k + 1 # v => Misses(t, H)
    <3>1. CASE k + 1 \in d.peopled /\ k + 1 # v
      BY <1>11, <3>1, OthersMiss DEF New, H, v
    <3>2. CASE k + 1 \notin d.peopled
      BY <1>2, <3>2 DEF New
    <3> QED BY <3>1, <3>2
  <2>5. k + 1 = v => t = Emitted(d, v)
    BY <1>11, <2>1 DEF New
  <2>6. /\ \A x : Leads(s, H, x) => Leads(s \o t, H, x)
        /\ Misses(s, H) => \A x : Leads(t, H, x) => Leads(s \o t, H, x)
        /\ Misses(s, H) /\ Misses(t, H) => Misses(s \o t, H)
    BY <2>2, LeadsConcat
  <2> HIDE DEF s, t
  <2>7. CASE v = 0 \/ k + 1 < v
    <3>1. (v = 0 \/ k < v) /\ k + 1 # v /\ ~(v # 0 /\ v <= k + 1)
      BY <1>11, <2>1, <2>7
    <3>2. Misses(h[k], H)
      BY <2>3, <3>1
    <3> QED BY <2>1, <2>2, <2>4, <2>6, <3>1, <3>2 DEF s
  <2>8. CASE v # 0 /\ v = k + 1
    <3>1. k < v /\ ~(k + 1 < v)
      BY <1>11, <2>1, <2>8
    <3>2. Misses(h[k], H)
      BY <2>3, <3>1
    <3> QED BY <2>1, <2>2, <2>5, <2>6, <2>8, <3>1, <3>2 DEF s
  <2>9. CASE v # 0 /\ v < k + 1
    <3>1. v <= k /\ k + 1 # v /\ ~(k + 1 < v)
      BY <1>11, <2>1, <2>9
    <3>2. /\ Misses(Emitted(d, v), H) => Misses(h[k], H)
          /\ \A x : Leads(Emitted(d, v), H, x) => Leads(h[k], H, x)
      BY <2>3, <2>9, <3>1
    <3> QED BY <2>1, <2>2, <2>4, <2>6, <2>9, <3>1, <3>2 DEF s
  <2> QED BY <1>11, <2>1, <2>7, <2>8, <2>9
<1>14. \A k \in 0..N : k \in A
  <2> HIDE DEF A
  <2> QED BY <1>1, <1>12, <1>13, Climbs
<1>15. N \in 0..N /\ Acts(N)
  <2>1. N \in 0..N
    BY <1>1
  <2> QED BY <1>14, <2>1
<1>16. h[N] \in D /\ h[N] = OfSets(d)
  <2> HIDE DEF D
  <2> QED BY <1>6, <1>9, <1>10, <1>15
<1>17. v # 0 => v <= N
  BY <1>1, <1>11
<1> QED BY <1>15, <1>16, <1>17 DEF H, v

\* What a packet meets when the rules are asked: the port of DNS, a private destination, the
\* rules of its set, the rules for all, and last the direct way.
LEMMA RoutedBy ==
  ASSUME NEW d \in Tables, NEW p \in Packets, NEW x, Leads(Rules(d), Certain(p), x),
         Rules(d) \in Seq(XrayRule)
  PROVE  Routed(d, p) = x.to
<1> DEFINE s == Rules(d)
           H == {y \in Range(s) : y.via \in {0, p.via} /\ Matches(y.when, p)}
<1>1. \A i \in DOMAIN s : s[i] \in XrayRule /\ s[i] \in Range(s)
  BY DEF Range
<1> HIDE DEF s
<1>2. \A i \in DOMAIN s : s[i] \in H <=> s[i] \in Certain(p)
  BY <1>1 DEF Certain
<1>3. Leads(s, H, x)
  <2>1. PICK i \in DOMAIN s : s[i] = x /\ \A j \in DOMAIN s : j < i => s[j] \notin Certain(p)
    BY DEF Leads, s
  <2>2. x \in Certain(p)
    BY DEF Leads
  <2> QED BY <1>2, <2>1, <2>2 DEF Leads
<1>4. FirstIn(s, H) = x
  BY <1>3, FirstIs DEF s
<1> QED BY <1>4 DEF Routed, s

\* One rule for everything, and a list after it.
LEMMA EverywhereActs ==
  ASSUME NEW p \in Packets, NEW when \in Whens \cup {"dns", "private", "all"}, NEW to \in Outs
  PROVE  LET e == [via |-> 0, when |-> when, to |-> to]
         IN /\ Everywhere(when, to) \in Seq(XrayRule)
            /\ Matches(when, p) => Leads(Everywhere(when, to), Certain(p), e)
            /\ ~Matches(when, p) => Misses(Everywhere(when, to), Certain(p))
<1> DEFINE e == [via |-> 0, when |-> when, to |-> to]
<1>1. e \in XrayRule /\ e.via = 0 /\ e.when = when
  BY DEF XrayRule
<1>2. Everywhere(when, to) = <<e>>
  BY DEF Everywhere
<1>3. e \in Certain(p) <=> Matches(when, p)
  BY <1>1 DEF Certain
<1> HIDE DEF e
<1>4. DOMAIN <<e>> = {1} /\ <<e>>[1] = e /\ <<e>> \in Seq(XrayRule)
  BY <1>1
<1>5. Matches(when, p) => Leads(<<e>>, Certain(p), e)
  BY <1>3, <1>4 DEF Leads
<1>6. ~Matches(when, p) => Misses(<<e>>, Certain(p))
  BY <1>3, <1>4 DEF Misses
<1> QED BY <1>2, <1>4, <1>5, <1>6 DEF e

\* The rules after that for DNS.
Body(d) ==
  CASE d.mode = "bypass" -> Everywhere("all", <<"direct">>)
    [] d.mode = "global" -> Everywhere("private", <<"direct">>) \o Everywhere("all", ProxyTarget(d))
    [] d.mode = "rules"  -> Everywhere("private", <<"direct">>) \o OfSets(d)
                            \o Emitted(d, 0) \o Everywhere("all", <<"direct">>)

LEMMA RulesActs ==
  ASSUME NEW d \in Tables, NEW p \in Packets, Body(d) \in Seq(XrayRule)
  PROVE  /\ Rules(d) \in Seq(XrayRule)
         /\ p.port = 53 => Routed(d, p) = <<"direct">>
         /\ p.port # 53 => \A x : Leads(Body(d), Certain(p), x) => Routed(d, p) = x.to
<1> DEFINE one == Everywhere("dns", <<"direct">>)
           H == Certain(p)
           e == [via |-> 0, when |-> "dns", to |-> <<"direct">>]
<1>1. Rules(d) = one \o Body(d)
  BY DEF Rules, Body
<1>2. <<"direct">> \in Outs
  BY DEF Outs, Actions
<1>3. /\ one \in Seq(XrayRule)
      /\ Matches("dns", p) => Leads(one, H, e)
      /\ ~Matches("dns", p) => Misses(one, H)
  BY <1>2, EverywhereActs
<1>4. Matches("dns", p) <=> p.port = 53
  BY DEF Matches
<1> HIDE DEF one, H
<1>5. /\ Rules(d) \in Seq(XrayRule)
      /\ \A x : Leads(one, H, x) => Leads(Rules(d), H, x)
      /\ Misses(one, H) => \A x : Leads(Body(d), H, x) => Leads(Rules(d), H, x)
  BY <1>1, <1>3, LeadsConcat
<1>6. ASSUME p.port = 53 PROVE Routed(d, p) = <<"direct">>
  <2>1. Leads(Rules(d), H, e)
    BY <1>3, <1>4, <1>5, <1>6
  <2>2. Routed(d, p) = e.to
    BY <1>5, <2>1, RoutedBy DEF H
  <2> QED BY <2>2
<1>7. ASSUME p.port # 53, NEW x, Leads(Body(d), H, x) PROVE Routed(d, p) = x.to
  <2>1. Leads(Rules(d), H, x)
    BY <1>3, <1>4, <1>5, <1>7
  <2> QED BY <1>5, <2>1, RoutedBy DEF H
<1> QED BY <1>5, <1>6, <1>7 DEF H

\* In global mode, a private destination is direct, everything else is proxied.
LEMMA GlobalActs ==
  ASSUME NEW d \in Tables, NEW p \in Packets, d.mode = "global", p.port # 53
  PROVE  Routed(d, p) = IF p.private THEN <<"direct">> ELSE ProxyTarget(d)
<1> DEFINE s == Everywhere("private", <<"direct">>)
           t == Everywhere("all", ProxyTarget(d))
           H == Certain(p)
           e == [via |-> 0, when |-> "private", to |-> <<"direct">>]
           c == [via |-> 0, when |-> "all", to |-> ProxyTarget(d)]
<1>1. Body(d) = s \o t
  BY DEF Body
<1>2. <<"direct">> \in Outs /\ ProxyTarget(d) \in Outs
  <2>1. <<"direct">> \in Actions
    BY DEF Actions
  <2> QED BY <2>1, TargetFacts DEF Outs
<1>3. Matches("all", p) /\ (Matches("private", p) <=> p.private)
  BY DEF Matches, Packets
<1>4. /\ s \in Seq(XrayRule)
      /\ p.private => Leads(s, H, e)
      /\ ~p.private => Misses(s, H)
      /\ t \in Seq(XrayRule) /\ Leads(t, H, c)
  BY <1>2, <1>3, EverywhereActs
<1> HIDE DEF s, t, H
<1>5. /\ Body(d) \in Seq(XrayRule)
      /\ p.private => Leads(Body(d), H, e)
      /\ ~p.private => Leads(Body(d), H, c)
  BY <1>1, <1>4, LeadsConcat
<1>6. \A x : Leads(Body(d), H, x) => Routed(d, p) = x.to
  BY <1>5, RulesActs DEF H
<1>7. e.to = <<"direct">> /\ c.to = ProxyTarget(d)
  OBVIOUS
<1> HIDE DEF e, c
<1> QED BY <1>5, <1>6, <1>7

\* In rules mode, unless the destination is private or its port that of DNS, the packet goes
\* where the first match of its set sends it, or else the first match of the rules for all.
LEMMA RulesModeActs ==
  ASSUME NEW d \in Tables, NEW p \in Packets, p.via \in {0} \cup d.peopled, d.mode = "rules"
  PROVE  LET H    == Certain(p)
             mine == Emitted(d, p.via)
             all  == Emitted(d, 0)
         IN /\ (p.private \/ p.port = 53) => Routed(d, p) = <<"direct">>
            /\ ~p.private /\ p.port # 53 =>
                 /\ \A x : Leads(mine, H, x) => Routed(d, p) = x.to
                 /\ Misses(mine, H) => \A x : Leads(all, H, x) => Routed(d, p) = x.to
                 /\ Misses(mine, H) /\ Misses(all, H) => Routed(d, p) = <<"direct">>
<1> DEFINE H == Certain(p)
           s == Everywhere("private", <<"direct">>)
           o == OfSets(d)
           a == Emitted(d, 0)
           m == Emitted(d, p.via)
           t == Everywhere("all", <<"direct">>)
           e == [via |-> 0, when |-> "private", to |-> <<"direct">>]
           c == [via |-> 0, when |-> "all", to |-> <<"direct">>]
<1>1. Body(d) = ((s \o o) \o a) \o t
  BY DEF Body
<1>2. <<"direct">> \in Outs
  BY DEF Outs, Actions
<1>3. Matches("all", p) /\ (Matches("private", p) <=> p.private)
  BY DEF Matches, Packets
<1>4. /\ s \in Seq(XrayRule)
      /\ p.private => Leads(s, H, e)
      /\ ~p.private => Misses(s, H)
      /\ t \in Seq(XrayRule) /\ Leads(t, H, c)
  BY <1>2, <1>3, EverywhereActs
<1>5. a \in Seq(XrayRule)
  BY EmittedTyped
<1>6. /\ o \in Seq(XrayRule)
      /\ p.via = 0 => Misses(o, H)
      /\ p.via # 0 => /\ Misses(m, H) => Misses(o, H)
                      /\ \A x : Leads(m, H, x) => Leads(o, H, x)
  BY OfSetsActs
<1>7. p.via = 0 => m = a
  OBVIOUS
<1>8. e.to = <<"direct">> /\ c.to = <<"direct">>
  OBVIOUS
<1> HIDE DEF H, s, o, a, m, t, e, c
<1>9. /\ s \o o \in Seq(XrayRule)
      /\ \A x : Leads(s, H, x) => Leads(s \o o, H, x)
      /\ Misses(s, H) => \A x : Leads(o, H, x) => Leads(s \o o, H, x)
      /\ Misses(s, H) /\ Misses(o, H) => Misses(s \o o, H)
  BY <1>4, <1>6, LeadsConcat
<1> DEFINE so == s \o o
<1> HIDE DEF so
<1>10. /\ so \o a \in Seq(XrayRule)
       /\ \A x : Leads(so, H, x) => Leads(so \o a, H, x)
       /\ Misses(so, H) => \A x : Leads(a, H, x) => Leads(so \o a, H, x)
       /\ Misses(so, H) /\ Misses(a, H) => Misses(so \o a, H)
  BY <1>5, <1>9, LeadsConcat DEF so
<1> DEFINE soa == so \o a
<1> HIDE DEF soa
<1>11. /\ soa \o t \in Seq(XrayRule)
       /\ \A x : Leads(soa, H, x) => Leads(soa \o t, H, x)
       /\ Misses(soa, H) => \A x : Leads(t, H, x) => Leads(soa \o t, H, x)
  BY <1>4, <1>10, LeadsConcat DEF soa
<1>12. Body(d) = soa \o t
  BY <1>1 DEF so, soa
<1>13. \A x : Leads(s, H, x) => Leads(Body(d), H, x)
  BY <1>9, <1>10, <1>11, <1>12 DEF so, soa
<1>14. Misses(s, H) => \A x : Leads(o, H, x) => Leads(Body(d), H, x)
  BY <1>9, <1>10, <1>11, <1>12 DEF so, soa
<1>15. Misses(s, H) /\ Misses(o, H) => \A x : Leads(a, H, x) => Leads(Body(d), H, x)
  BY <1>9, <1>10, <1>11, <1>12 DEF so, soa
<1>16. Misses(s, H) /\ Misses(o, H) /\ Misses(a, H) => Leads(Body(d), H, c)
  BY <1>4, <1>9, <1>10, <1>11, <1>12 DEF so, soa
<1>17. /\ p.port = 53 => Routed(d, p) = <<"direct">>
       /\ p.port # 53 => \A x : Leads(Body(d), H, x) => Routed(d, p) = x.to
  BY <1>11, <1>12, RulesActs DEF H
<1>18. p.private \in BOOLEAN
  BY DEF Packets
<1>19. (p.private \/ p.port = 53) => Routed(d, p) = <<"direct">>
  BY <1>4, <1>8, <1>13, <1>17
<1>20. ASSUME ~p.private, p.port # 53
       PROVE  /\ \A x : Leads(m, H, x) => Routed(d, p) = x.to
              /\ Misses(m, H) => \A x : Leads(a, H, x) => Routed(d, p) = x.to
              /\ Misses(m, H) /\ Misses(a, H) => Routed(d, p) = <<"direct">>
  <2>1. Misses(s, H) /\ \A x : Leads(Body(d), H, x) => Routed(d, p) = x.to
    BY <1>4, <1>17, <1>20
  <2>2. CASE p.via = 0
    BY <1>6, <1>7, <1>8, <1>15, <1>16, <2>1, <2>2
  <2>3. CASE p.via # 0
    BY <1>6, <1>8, <1>14, <1>15, <1>16, <2>1, <2>3
  <2> QED BY <2>2, <2>3
<1> QED BY <1>19, <1>20 DEF H, a, m


-----------------------------------------------------------------------------
\* The explainer, in the words of the lemmas above.
ActiveOut(d) == IF d.active # 0 THEN <<"node", d.active>> ELSE <<"direct">>
Walk(d, p) == IF p.via = 0 THEN RowsOf(d, 0) ELSE RowsOf(d, p.via) \o RowsOf(d, 0)

LEMMA ExplainedBy ==
  ASSUME NEW d \in Tables, NEW p \in Packets, d.mode = "rules", ~p.private, p.port # 53,
         Walk(d, p) \in Seq(Rule)
  PROVE  /\ Misses(Walk(d, p), Possible(p)) => Explained(d, p) = [to |-> <<"direct">>, sure |-> TRUE]
         /\ \A r : Leads(Walk(d, p), Possible(p), r) =>
              Explained(d, p) = [to |-> IF r.act = <<"proxy">> THEN ActiveOut(d) ELSE r.act,
                                 sure |-> r.when # "list"]
<1> DEFINE w == Walk(d, p)
           hits == {x \in Range(w) : x.when = "list" \/ Matches(x.when, p)}
           hit == FirstIn(w, hits)
<1>1. Explained(d, p) = IF hits = {} THEN [to |-> <<"direct">>, sure |-> TRUE]
                        ELSE [to |-> IF hit.act = <<"proxy">> THEN ActiveOut(d) ELSE hit.act,
                              sure |-> hit.when # "list"]
  BY DEF Explained, Walk, RowsOf, ActiveOut
<1>2. \A i \in DOMAIN w : w[i] \in Rule /\ w[i] \in Range(w)
  BY DEF Range
<1> HIDE DEF w
<1>3. \A i \in DOMAIN w : w[i] \in hits <=> w[i] \in Possible(p)
  BY <1>2 DEF Possible
<1>4. ASSUME Misses(w, Possible(p)) PROVE hits = {}
  <2>1. \A i \in DOMAIN w : w[i] \notin hits
    BY <1>3, <1>4 DEF Misses
  <2> QED BY <2>1 DEF Range
<1>5. ASSUME NEW r, Leads(w, Possible(p), r) PROVE hits # {} /\ hit = r
  <2>1. PICK i \in DOMAIN w : w[i] = r /\ \A j \in DOMAIN w : j < i => w[j] \notin Possible(p)
    BY <1>5 DEF Leads
  <2>2. r \in Possible(p)
    BY <1>5 DEF Leads
  <2>3. r \in hits /\ Leads(w, hits, r)
    BY <1>3, <2>1, <2>2 DEF Leads
  <2>4. FirstIn(w, hits) = r
    BY <2>3, FirstIs DEF w
  <2> QED BY <2>3, <2>4
<1> HIDE DEF hits, hit
<1> QED BY <1>1, <1>4, <1>5 DEF w

\* What a rule says and what xray does about it are the same, the circle standing for the
\* active node.
LEMMA SaidAndDone ==
  ASSUME NEW d \in Tables, NEW act \in Actions, d.active = 0 \/ IsRow(d, d.active)
  PROVE  LET said == IF act = <<"proxy">> THEN ActiveOut(d) ELSE act
             done == Target(d, act)
         IN said = IF done[1] = "circle" THEN <<"node", d.active>> ELSE done
<1>1. act[1] # "circle"
  <2>1. CASE act \in {<<"proxy">>, <<"direct">>, <<"block">>}
    BY <2>1
  <2>2. CASE act \in {"node"} \X Ids
    BY <2>2
  <2>3. CASE act \in {"balancer"} \X Groups
    BY <2>3
  <2> QED BY <2>1, <2>2, <2>3 DEF Actions
<1>2. CASE act # <<"proxy">>
  BY <1>1, <1>2 DEF Target
<1>3. CASE act = <<"proxy">>
  <2>1. Target(d, act) = ProxyTarget(d)
    BY <1>3 DEF Target
  <2>2. IsRow(d, d.active) => d.active # 0
    BY FiniteIds DEF IsRow
  <2>3. CASE ActiveCircle(d) # 0
    <3>1. IsRow(d, d.active)
      BY <2>3 DEF ActiveCircle
    <3>2. ProxyTarget(d)[1] = "circle"
      BY <2>3 DEF ProxyTarget
    <3> QED BY <1>3, <2>1, <2>2, <3>1, <3>2 DEF ActiveOut
  <2>4. CASE ActiveCircle(d) = 0 /\ IsRow(d, d.active)
    <3>1. ProxyTarget(d) = <<"node", d.active>> /\ ProxyTarget(d)[1] # "circle"
      BY <2>4 DEF ProxyTarget
    <3> QED BY <1>3, <2>1, <2>2, <2>4, <3>1 DEF ActiveOut
  <2>5. CASE ActiveCircle(d) = 0 /\ ~IsRow(d, d.active)
    <3>1. ProxyTarget(d) = <<"direct">> /\ ProxyTarget(d)[1] # "circle" /\ d.active = 0
      BY <2>5 DEF ProxyTarget
    <3> QED BY <1>3, <2>1, <3>1 DEF ActiveOut
  <2> QED BY <2>3, <2>4, <2>5
<1> QED BY <1>2, <1>3

LEMMA Agrees ==
  ASSUME NEW d \in Tables, NEW p \in Packets, p.via \in {0} \cup d.peopled,
         Explained(d, p).sure, d.active = 0 \/ IsRow(d, d.active),
         ~(d.mode = "global" /\ p.port = 53)
  PROVE  Explained(d, p).to = IF Routed(d, p)[1] = "circle" THEN <<"node", d.active>>
                              ELSE Routed(d, p)
<1> DEFINE Same == Explained(d, p).to = IF Routed(d, p)[1] = "circle" THEN <<"node", d.active>>
                                        ELSE Routed(d, p)
           P == Possible(p)
           H == Certain(p)
<1>1. d.mode \in {"rules", "global", "bypass"} /\ p.private \in BOOLEAN /\ p.via \in {0} \cup Sets
  BY DEF Tables, Packets
<1>2. CASE d.mode = "bypass"
  <2> DEFINE c == [via |-> 0, when |-> "all", to |-> <<"direct">>]
  <2>1. Body(d) = Everywhere("all", <<"direct">>) /\ Explained(d, p).to = <<"direct">>
    BY <1>2 DEF Body, Explained
  <2>2. <<"direct">> \in Outs /\ Matches("all", p)
    BY DEF Outs, Actions, Matches
  <2>3. Body(d) \in Seq(XrayRule) /\ Leads(Body(d), H, c)
    BY <2>1, <2>2, EverywhereActs
  <2>4. Routed(d, p) = <<"direct">>
    <3>1. c.to = <<"direct">>
      OBVIOUS
    <3> HIDE DEF c
    <3> QED BY <2>3, <3>1, RulesActs
  <2> QED BY <2>1, <2>4
<1>3. CASE d.mode = "global"
  <2>1. Routed(d, p) = IF p.private THEN <<"direct">> ELSE ProxyTarget(d)
    BY <1>3, GlobalActs
  <2>2. Explained(d, p).to = IF p.private THEN <<"direct">> ELSE ActiveOut(d)
    BY <1>3 DEF Explained, ActiveOut
  <2>3. ActiveOut(d) = IF ProxyTarget(d)[1] = "circle" THEN <<"node", d.active>> ELSE ProxyTarget(d)
    <3>1. <<"proxy">> \in Actions
      BY DEF Actions
    <3> QED BY <3>1, SaidAndDone DEF Target
  <2> QED BY <2>1, <2>2, <2>3
<1>4. CASE d.mode = "rules" /\ (p.private \/ p.port = 53)
  <2>1. Routed(d, p) = <<"direct">>
    BY <1>4, RulesModeActs
  <2>2. Explained(d, p).to = <<"direct">>
    BY <1>4 DEF Explained
  <2> QED BY <2>1, <2>2
<1>5. CASE d.mode = "rules" /\ ~p.private /\ p.port # 53
  <2> DEFINE mine == RowsOf(d, p.via)
             all == RowsOf(d, 0)
             w == Walk(d, p)
             m == Emitted(d, p.via)
             a == Emitted(d, 0)
  <2>1. mine \in Seq(Rule) /\ all \in Seq(Rule)
    BY <1>1, EmittedTyped
  <2>2. /\ mine \o all \in Seq(Rule)
        /\ \A x : Leads(mine, P, x) => Leads(mine \o all, P, x)
        /\ Misses(mine, P) => \A x : Leads(all, P, x) => Leads(mine \o all, P, x)
        /\ Misses(mine, P) /\ Misses(all, P) => Misses(mine \o all, P)
    BY <2>1, LeadsConcat
  <2>3. /\ w \in Seq(Rule)
        /\ \A x : Leads(mine, P, x) => Leads(w, P, x)
        /\ Misses(mine, P) => \A x : Leads(all, P, x) => Leads(w, P, x)
        /\ Misses(mine, P) /\ Misses(all, P) => Misses(w, P)
    <3>1. CASE p.via = 0
      BY <2>1, <3>1 DEF Walk, Misses, Leads
    <3>2. CASE p.via # 0
      BY <2>2, <3>2 DEF Walk
    <3> QED BY <3>1, <3>2
  <2>4. /\ \A x : Leads(m, H, x) => Routed(d, p) = x.to
        /\ Misses(m, H) => \A x : Leads(a, H, x) => Routed(d, p) = x.to
        /\ Misses(m, H) /\ Misses(a, H) => Routed(d, p) = <<"direct">>
    BY <1>5, RulesModeActs
  <2>5. /\ Misses(w, P) => Explained(d, p) = [to |-> <<"direct">>, sure |-> TRUE]
        /\ \A r : Leads(w, P, r) =>
             Explained(d, p) = [to |-> IF r.act = <<"proxy">> THEN ActiveOut(d) ELSE r.act,
                                sure |-> r.when # "list"]
    BY <1>5, <2>3, ExplainedBy
  <2>6. \/ Misses(mine, P) /\ Misses(m, H)
        \/ \E r \in Rule : Leads(mine, P, r) /\ (r.when # "list" => Leads(m, H, RuleEntry(d, p.via, r)))
    BY SetAgrees
  <2>7. \/ Misses(all, P) /\ Misses(a, H)
        \/ \E r \in Rule : Leads(all, P, r) /\ (r.when # "list" => Leads(a, H, RuleEntry(d, 0, r)))
    BY SetAgrees
  <2> HIDE DEF mine, all, w, m, a, P, H
  \* The rule that decides, of the packet's set or of all, decides for both.
  <2>8. ASSUME NEW r \in Rule, NEW v, Leads(w, P, r),
               r.when # "list" => Routed(d, p) = RuleEntry(d, v, r).to
        PROVE  Same
    <3>1. /\ Explained(d, p).to = IF r.act = <<"proxy">> THEN ActiveOut(d) ELSE r.act
          /\ Explained(d, p).sure = (r.when # "list")
      <4> DEFINE e == Explained(d, p)
                 to == IF r.act = <<"proxy">> THEN ActiveOut(d) ELSE r.act
                 sure == r.when # "list"
      <4>1. e = [to |-> to, sure |-> sure]
        BY <2>5, <2>8
      <4> HIDE DEF e, to, sure
      <4>2. e.to = to /\ e.sure = sure
        BY <4>1
      <4> QED BY <4>2 DEF e, to, sure
    <3>2. r.when # "list"
      BY <3>1
    <3>3. Routed(d, p) = Target(d, r.act)
      BY <2>8, <3>2 DEF RuleEntry
    <3>4. r.act \in Actions
      BY DEF Rule
    <3>5. (IF r.act = <<"proxy">> THEN ActiveOut(d) ELSE r.act)
            = IF Target(d, r.act)[1] = "circle" THEN <<"node", d.active>> ELSE Target(d, r.act)
      BY <3>4, SaidAndDone
    <3> QED BY <3>1, <3>3, <3>5
  <2>9. ASSUME NEW r \in Rule, Leads(mine, P, r),
               r.when # "list" => Leads(m, H, RuleEntry(d, p.via, r))
        PROVE  Same
    <3>1. Leads(w, P, r) /\ (r.when # "list" => Routed(d, p) = RuleEntry(d, p.via, r).to)
      BY <2>3, <2>4, <2>9
    <3> HIDE DEF Same
    <3> QED BY <2>8, <3>1
  <2>10. ASSUME Misses(mine, P), Misses(m, H), NEW r \in Rule, Leads(all, P, r),
                r.when # "list" => Leads(a, H, RuleEntry(d, 0, r))
         PROVE  Same
    <3>1. Leads(w, P, r) /\ (r.when # "list" => Routed(d, p) = RuleEntry(d, 0, r).to)
      BY <2>3, <2>4, <2>10
    <3> HIDE DEF Same
    <3> QED BY <2>8, <3>1
  <2>11. ASSUME Misses(mine, P), Misses(m, H), Misses(all, P), Misses(a, H) PROVE Same
    <3>1. Explained(d, p) = [to |-> <<"direct">>, sure |-> TRUE]
      BY <2>3, <2>5, <2>11
    <3>2. Explained(d, p).to = <<"direct">> /\ Routed(d, p) = <<"direct">>
      BY <2>4, <2>11, <3>1
    <3> QED BY <3>2
  <2> HIDE DEF Same
  <2>12. Same
    BY <2>6, <2>7, <2>9, <2>10, <2>11
  <2> QED BY <2>12 DEF Same
<1> QED BY <1>1, <1>2, <1>3, <1>4, <1>5

\* The route explainer is right when it says it is sure.
THEOREM Explains == StoreSpec => []ExplainAgrees
<1>1. StoreTypeOK => ExplainAgrees
  <2>1. ASSUME StoreTypeOK PROVE db \in Tables
    BY <2>1 DEF StoreTypeOK
  <2> QED BY <2>1, Agrees DEF ExplainAgrees
<1> QED BY <1>1, StoreTyped, PTL
===============================================================================
