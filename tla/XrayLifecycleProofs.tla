------------------------ MODULE XrayLifecycleProofs -------------------------
(***************************************************************************)
(* Proofs about XrayLifecycle, for any calls, launches, settings and       *)
(* bounds: the kill switch's table is never gone while nobody replaces it, *)
(* no xray process is lost once the boot is over, and a call made in peace *)
(* leaves what it promises.                                                *)
(*                                                                         *)
(* And about NaiveSidecar, the other processes the backend keeps: nodes    *)
(* changed one request at a time have the sidecar their row asks for.      *)
(***************************************************************************)
EXTENDS XrayLifecycle, NaiveSidecar, FiniteSetTheorems, TLAPS

\* The coroutines that hold _lock; the boot launches without it.
Inside(a) ==
  IF a \in Ops THEN pc[a] \in {"term", "spawn"}
  ELSE pc[a] \in {"decide", "rules_del", "rules_load", "spawn"}

\* One holder, and what it finds.  The process a call is terminating is still the
\* manager's: nobody else assigns the handle.
LockInv ==
  /\ TypeOK
  /\ \A a, b \in Ops \cup Runs : Inside(a) /\ Inside(b) => a = b
  /\ \A o \in Ops : pc[o] = "term" => handle \in Runs
  /\ \A i \in reaped : life[i] \in {"crashed", "exited"}
  /\ handle \in Runs => life[handle] # "unborn"
  /\ \A i \in Runs : life[i] = "unborn" => pc[i] = "unborn"

\* The reader a stop cancels is never in the middle of a table: it leaves its loop
\* only when the exit status is known, and no stop terminates such a process.
ReaderSafe ==
  handle \in Runs /\ (handle \notin reaped \/ \E o \in Ops : pc[o] = "term")
    => pc[handle] \in {"reading", "gone"}

FlushInv == \A o \in Ops : pc[o] = "flush" => ~conf.kill

TableInv ==
  /\ LockInv
  /\ ReaderSafe
  /\ left["load"] = 0
  /\ FlushInv
  /\ KillSwitchHolds

BootLabels == {"decide", "rules_del", "rules_load", "spawn"}

\* Until the boot is over no call and no reader competes with its launch.
Booting ==
  pc["boot"] \in BootLabels =>
    /\ \A o \in Ops : pc[o] = "new"
    /\ \A i \in Runs : pc[i] = "unborn"

NoneAlive == \A i \in Runs : life[i] # "alive"

\* Who is about to launch xray found or left none running.
LaunchInv ==
  /\ LockInv
  /\ pc["boot"] \in BootLabels \cup {"gone"}
  /\ Booting
  /\ \A a \in Actors : pc[a] = "spawn" => NoneAlive
  /\ OneXray

-----------------------------------------------------------------------------
(* Types.                                                                  *)

USE DEF Actors, None, Ended, Labels, Lives, Goto

LEMMA SpendType ==
  ASSUME TypeOK, NEW k \in {"crash", "fault", "load", "deadline"}, Spend(k)
  PROVE  left' \in [{"crash", "fault", "load", "deadline"} -> Nat]
BY DEF TypeOK, Spend

LEMMA AfterRulesType == ASSUME NEW a PROVE AfterRules(a) \in Labels
BY DEF AfterRules

LEMMA LeaveType == ASSUME NEW o PROVE Leave(o) \in Labels \ {"term", "spawn"}
BY DEF Leave

LEMMA StoppingType == ASSUME TypeOK, NEW o PROVE Stopping(o) \in BOOLEAN
BY DEF Stopping, Wanted, TypeOK

LEMMA TerminatedType ==
  ASSUME TypeOK, handle \in Runs, NEW o, NEW l \in Labels, Terminated(o, l)
  PROVE  /\ life' \in [Runs -> Lives] /\ reaped' \subseteq Runs
         /\ handle' \in Runs \cup {None} /\ pc' \in [Actors -> Labels]
BY DEF TypeOK, Terminated

LEMMA TypeStep ==
  ASSUME TypeOK, \A o \in Ops : pc[o] = "term" => handle \in Runs, [Next]_vars
  PROVE  TypeOK'
<1>1. CASE UNCHANGED vars
  BY <1>1 DEF vars, TypeOK
<1>2. ASSUME NEW o \in Ops, Call(o) PROVE TypeOK'
  <2>1. CASE Begin(o)
    <3>1. PICK k \in Kinds :
            /\ kind' = [kind EXCEPT ![o] = IF k = "start" /\ Running THEN "restart" ELSE k]
            /\ Goto(o, IF k \in {"reload", "rotate", "refresh"} /\ ~Running THEN "ok"
                       ELSE IF k = "stop" /\ conf.kill THEN "block_del"
                       ELSE IF k = "refresh" THEN "rules_del" ELSE "wait")
            /\ solo' = IF Quiet THEN o ELSE None
            /\ halted' = (halted /\ k \notin {"start", "restart"})
      BY <2>1 DEF Begin
    <3>2. kind' \in [Ops -> Kinds \cup {None, "restart"}] /\ pc' \in [Actors -> Labels]
      BY <3>1 DEF TypeOK
    <3>3. solo' \in Ops \cup {None}
      BY <3>1
    <3>4. halted' \in BOOLEAN
      BY <3>1
    <3>5. UNCHANGED <<conf, life, reaped, handle, nft, left, loaded>>
      BY <2>1 DEF Begin
    <3> QED BY <3>2, <3>3, <3>4, <3>5 DEF TypeOK
  <2>2. CASE Acquire(o)
    BY <2>2, LeaveType, StoppingType DEF Acquire, TypeOK
  <2>3. CASE Busy(o)
    BY <2>3 DEF Busy, TypeOK
  <2>4. CASE Term(o)
    BY <2>4, TerminatedType, LeaveType, StoppingType DEF Term, TypeOK
  <2>5. CASE Deadline(o)
    BY <2>5, TerminatedType, SpendType DEF Deadline, TypeOK
  <2>6. CASE BlockDelete(o)
    BY <2>6 DEF BlockDelete, Delete, TypeOK
  <2>7. CASE BlockLoad(o)
    BY <2>7, SpendType DEF BlockLoad, Load, TypeOK
  <2>8. CASE Flush(o)
    BY <2>8 DEF Flush, Delete, TypeOK
  <2> QED BY <1>2, <2>1, <2>2, <2>3, <2>4, <2>5, <2>6, <2>7, <2>8 DEF Call
<1>3. ASSUME NEW i \in Runs, Reader(i) \/ Die(i) \/ Reap(i) PROVE TypeOK'
  <2>1. CASE Eof(i)
    BY <2>1 DEF Eof, TypeOK
  <2>2. CASE KillDelete(i)
    BY <2>2 DEF KillDelete, Delete, TypeOK
  <2>3. CASE KillLoad(i)
    BY <2>3, SpendType DEF KillLoad, Load, TypeOK
  <2>4. CASE Wake(i)
    BY <2>4 DEF Wake, TypeOK
  <2>5. CASE ReaderAcquire(i)
    BY <2>5 DEF ReaderAcquire, TypeOK
  <2>6. CASE Die(i)
    BY <2>6, SpendType DEF Die, TypeOK
  <2>7. CASE Reap(i)
    BY <2>7 DEF Reap, TypeOK
  <2> QED BY <1>3, <2>1, <2>2, <2>3, <2>4, <2>5, <2>6, <2>7 DEF Reader
<1>4. ASSUME NEW a \in Runs \cup {"boot"}, Decide(a) PROVE TypeOK'
  BY <1>4 DEF Decide, TypeOK
<1>5. ASSUME NEW a \in Actors, Table(a) \/ Launch(a) PROVE TypeOK'
  <2>1. CASE RulesDelete(a)
    BY <2>1, AfterRulesType DEF RulesDelete, Delete, TypeOK
  <2>2. CASE RulesLoad(a)
    BY <2>2, AfterRulesType, SpendType DEF RulesLoad, Load, TypeOK
  <2>3. CASE Spawn(a)
    BY <2>3, LeaveType DEF Spawn, TypeOK
  <2>4. CASE SpawnFails(a)
    BY <2>4, SpendType DEF SpawnFails, TypeOK
  <2> QED BY <1>5, <2>1, <2>2, <2>3, <2>4 DEF Table, Launch
<1> QED BY <1>1, <1>2, <1>3, <1>4, <1>5 DEF Next

-----------------------------------------------------------------------------
(* The lock.                                                               *)

\* A free lock has nobody inside.
LEMMA FreeLock ==
  ASSUME ~Held, NEW a \in Ops \cup Runs PROVE ~Inside(a)
BY ActorAssumption DEF Held, Inside

LEMMA LockInit == ASSUME Init PROVE LockInv
<1>1. TypeOK
  <2>1. left \in [{"crash", "fault", "load", "deadline"} -> Nat]
    BY BoundAssumption DEF Init
  <2>2. pc \in [Actors -> Labels] /\ kind \in [Ops -> Kinds \cup {None, "restart"}]
    BY DEF Init
  <2> QED BY <2>1, <2>2 DEF Init, TypeOK
<1> QED BY <1>1, ActorAssumption DEF Init, LockInv, Inside

\* A coroutine that goes where nobody is inside disturbs no other.
LEMMA LockOutside ==
  ASSUME LockInv, NEW a \in Actors, NEW l \in Labels, Goto(a, l), TypeOK',
         UNCHANGED <<life, reaped, handle>>, pc[a] # "unborn",
         l = "spawn" => a = "boot" \/ Inside(a) \/ ~Held,
         l = "term" => a \in Ops /\ handle \in Runs /\ ~Held,
         l \in {"rules_del", "rules_load"} => a \notin Runs \/ Inside(a),
         l = "decide" => a \in Runs /\ ~Held
  PROVE  LockInv'
<1>1. \A b \in Actors : b # a => pc'[b] = pc[b] /\ (Inside(b)' <=> Inside(b))
  BY DEF LockInv, TypeOK, Inside
<1>2. pc'[a] = l
  BY DEF LockInv, TypeOK
<1>3. a \in Ops \cup Runs /\ Inside(a)' => Inside(a) \/ ~Held
  BY <1>2, ActorAssumption DEF Inside
<1>4. \A b, c \in Ops \cup Runs : Inside(b)' /\ Inside(c)' => b = c
  BY <1>1, <1>3, FreeLock DEF LockInv
<1>5. \A o \in Ops : pc'[o] = "term" => handle' \in Runs
  BY <1>1, <1>2 DEF LockInv
<1>6. \A i \in Runs : life'[i] = "unborn" => pc'[i] = "unborn"
  BY <1>1, <1>2 DEF LockInv
<1> QED BY <1>4, <1>5, <1>6 DEF LockInv

LEMMA LockTerminated ==
  ASSUME LockInv, NEW o \in Ops, pc[o] = "term", NEW l \in Labels \ {"term"}, Terminated(o, l),
         TypeOK'
  PROVE  LockInv'
<1>1. handle \in Runs /\ handle # o /\ life[handle] # "unborn"
  BY ActorAssumption DEF LockInv
<1>2. pc' = [pc EXCEPT ![o] = l, ![handle] = "gone"] /\ handle' = None
  BY DEF Terminated
<1>3. /\ pc'[o] = l /\ pc'[handle] = "gone"
      /\ \A b \in Actors : b # o /\ b # handle => pc'[b] = pc[b]
  BY <1>1, <1>2 DEF LockInv, TypeOK
<1>4. \A b \in Ops \cup Runs : Inside(b)' => Inside(b)
  BY <1>1, <1>3, ActorAssumption DEF Inside
<1>5. \A b \in Ops : pc'[b] # "term"
  <2>1. \A b \in Ops : b # o => pc[b] # "term"
    BY DEF LockInv, Inside
  <2> QED BY <2>1, <1>1, <1>3, ActorAssumption
<1>6. \A i \in reaped' : life'[i] \in {"crashed", "exited"}
  BY <1>1 DEF LockInv, TypeOK, Terminated
<1>7. \A i \in Runs : life'[i] = "unborn" => pc'[i] = "unborn"
  BY <1>1, <1>3, ActorAssumption DEF LockInv, TypeOK, Terminated
<1> QED BY <1>2, <1>4, <1>5, <1>6, <1>7, ActorAssumption DEF LockInv

LEMMA LockSpawn ==
  ASSUME LockInv, NEW a \in Actors, Spawn(a), TypeOK'
  PROVE  LockInv'
<1>1. PICK i \in Runs :
        /\ life[i] = "unborn" /\ life' = [life EXCEPT ![i] = "alive"] /\ handle' = i
        /\ pc' = [pc EXCEPT ![i] = "reading", ![a] = IF a \in Ops THEN Leave(a) ELSE "gone"]
        /\ reaped' = reaped /\ pc[a] = "spawn"
  BY DEF Spawn
<1>2. pc[i] = "unborn" /\ a # i /\ i \notin reaped
  BY <1>1 DEF LockInv
<1>3. /\ pc'[i] = "reading" /\ pc'[a] \in Labels \ {"term", "spawn", "unborn"}
      /\ a \notin Ops => pc'[a] = "gone"
      /\ \A b \in Actors : b # a /\ b # i => pc'[b] = pc[b]
  BY <1>1, <1>2, LeaveType DEF LockInv, TypeOK, Leave
<1>4. \A b \in Ops \cup Runs : Inside(b)' => Inside(b)
  BY <1>3, <1>2, ActorAssumption DEF Inside
<1>5. \A j \in Runs : life'[j] = "unborn" => pc'[j] = "unborn"
  BY <1>1, <1>3 DEF LockInv, TypeOK
<1>6. \A j \in reaped' : life'[j] \in {"crashed", "exited"}
  BY <1>1, <1>2 DEF LockInv, TypeOK
<1>7. handle' \in Runs /\ life'[handle'] # "unborn"
  BY <1>1 DEF LockInv, TypeOK
<1> QED BY <1>4, <1>5, <1>6, <1>7 DEF LockInv

LEMMA LockStep == ASSUME LockInv, [Next]_vars PROVE LockInv'
<1>0. TypeOK'
  BY TypeStep DEF LockInv
<1>1. CASE UNCHANGED vars
  BY <1>1 DEF vars, LockInv, TypeOK, Inside
<1>2. ASSUME NEW o \in Ops, Call(o) PROVE LockInv'
  <2>1. CASE Begin(o)
    <3>1. PICK l \in {"ok", "block_del", "rules_del", "wait"} : Goto(o, l)
      BY <2>1 DEF Begin
    <3>2. pc[o] = "new" /\ UNCHANGED <<life, reaped, handle>>
      BY <2>1 DEF Begin
    <3> QED BY <3>1, <3>2, <1>0, LockOutside, ActorAssumption
  <2>2. CASE Acquire(o)
    <3>1. CASE Running
      <4>1. handle \in Runs /\ o \notin Runs
        BY <3>1, ActorAssumption DEF Running, LockInv, TypeOK
      <4>2. PICK l \in {"term", "rules_del", "ok", "flush"} : Goto(o, l)
        BY <2>2, <3>1 DEF Acquire, Leave
      <4> QED BY <2>2, <4>1, <4>2, <1>0, LockOutside DEF Acquire
    <3>2. CASE ~Running
      <4>1. PICK l \in {"spawn", "rules_del", "ok", "flush"} : Goto(o, l)
        BY <2>2, <3>2 DEF Acquire, Leave
      <4> QED BY <2>2, <4>1, <1>0, LockOutside, ActorAssumption DEF Acquire
    <3> QED BY <3>1, <3>2
  <2>3. CASE Busy(o)
    BY <2>3, <1>0, LockOutside DEF Busy
  <2>4. CASE Term(o)
    BY <2>4, <1>0, LockTerminated, LeaveType DEF Term
  <2>5. CASE Deadline(o)
    <3>1. CASE pc[o] = "term" /\ Terminated(o, "failed")
      BY <3>1, <1>0, LockTerminated
    <3>2. CASE pc[o] \in {"wait", "spawn"} /\ Goto(o, "failed") /\ UNCHANGED <<life, reaped, handle>>
      BY <3>2, <1>0, LockOutside
    <3> QED BY <2>5, <3>1, <3>2 DEF Deadline
  <2>6. CASE BlockDelete(o)
    BY <2>6, <1>0, LockOutside DEF BlockDelete, Delete
  <2>7. CASE BlockLoad(o)
    BY <2>7, <1>0, LockOutside DEF BlockLoad, Load
  <2>8. CASE Flush(o)
    BY <2>8, <1>0, LockOutside DEF Flush, Delete
  <2> QED BY <1>2, <2>1, <2>2, <2>3, <2>4, <2>5, <2>6, <2>7, <2>8 DEF Call
<1>3. ASSUME NEW i \in Runs, Reader(i) \/ Die(i) \/ Reap(i) PROVE LockInv'
  <2>1. CASE Eof(i)
    BY <2>1, <1>0, LockOutside DEF Eof
  <2>2. CASE KillDelete(i)
    BY <2>2, <1>0, LockOutside DEF KillDelete, Delete
  <2>3. CASE KillLoad(i)
    BY <2>3, <1>0, LockOutside DEF KillLoad, Load
  <2>4. CASE Wake(i)
    BY <2>4, <1>0, LockOutside DEF Wake
  <2>5. CASE ReaderAcquire(i)
    BY <2>5, <1>0, LockOutside DEF ReaderAcquire
  <2>6. CASE Die(i)
    BY <2>6, <1>0 DEF Die, LockInv, TypeOK, Inside
  <2>7. CASE Reap(i)
    BY <2>7, <1>0 DEF Reap, LockInv, Inside
  <2> QED BY <1>3, <2>1, <2>2, <2>3, <2>4, <2>5, <2>6, <2>7 DEF Reader
<1>4. ASSUME NEW a \in Runs \cup {"boot"}, Decide(a) PROVE LockInv'
  <2>1. a \in Runs => Inside(a)
    BY <1>4, ActorAssumption DEF Decide, Inside
  <2>2. PICK l \in {"rules_del", "gone"} : Goto(a, l)
    BY <1>4 DEF Decide
  <2> QED BY <1>4, <2>1, <2>2, <1>0, LockOutside DEF Decide
<1>5. ASSUME NEW a \in Actors, Table(a) \/ Launch(a) PROVE LockInv'
  <2>1. CASE RulesDelete(a)
    BY <2>1, <1>0, LockOutside, AfterRulesType, ActorAssumption DEF RulesDelete, Delete, AfterRules, Inside
  <2>2. CASE RulesLoad(a)
    BY <2>2, <1>0, LockOutside, AfterRulesType, ActorAssumption DEF RulesLoad, Load, AfterRules, Inside
  <2>3. CASE Spawn(a)
    BY <2>3, <1>0, LockSpawn
  <2>4. CASE SpawnFails(a)
    BY <2>4, <1>0, LockOutside DEF SpawnFails
  <2> QED BY <1>5, <2>1, <2>2, <2>3, <2>4 DEF Table, Launch
<1> QED BY <1>1, <1>2, <1>3, <1>4, <1>5 DEF Next

\* Every variable keeps its type, among them the handle, which names a launch while a
\* call is terminating one.
THEOREM TypesKept == Spec => []TypeOK
<1>1. Init => LockInv
  BY LockInit
<1>2. LockInv /\ [Next]_vars => LockInv'
  BY LockStep
<1>3. LockInv => TypeOK
  BY DEF LockInv
<1> QED BY <1>1, <1>2, <1>3, PTL DEF Spec

-----------------------------------------------------------------------------
(* The kill switch.                                                        *)

\* The parts of TableInv that follow the reader of the current process.
LEMMA ReaderStep == ASSUME LockInv, ReaderSafe, [Next]_vars PROVE ReaderSafe'
<1> USE DEF ReaderSafe
<1>0. LockInv'
  BY LockStep
<1>1. CASE UNCHANGED vars
  BY <1>1 DEF vars
<1>2. ASSUME NEW o \in Ops, Call(o) PROVE ReaderSafe'
  <2>0. o \notin Runs
    BY ActorAssumption
  <2>1. ASSUME NEW l \in Labels, Goto(o, l), UNCHANGED <<reaped, handle>>, l = "term" => Running
        PROVE  ReaderSafe'
    BY <2>0, <2>1 DEF LockInv, TypeOK, Running
  <2>2. CASE Begin(o)
    <3>1. PICK l \in {"ok", "block_del", "rules_del", "wait"} : Goto(o, l)
      BY <2>2 DEF Begin
    <3>2. UNCHANGED <<reaped, handle>>
      BY <2>2 DEF Begin
    <3> QED BY <3>1, <3>2, <2>1
  <2>3. CASE Acquire(o)
    <3>1. PICK l \in Labels : Goto(o, l) /\ (l = "term" => Running)
      BY <2>3, LeaveType DEF Acquire
    <3> QED BY <2>3, <3>1, <2>1 DEF Acquire
  <2>4. CASE Busy(o)
    BY <2>4, <2>1 DEF Busy
  <2>5. CASE Term(o) \/ Deadline(o)
    <3>1. CASE handle' = None
      BY <3>1, ActorAssumption
    <3>2. CASE pc[o] \in {"wait", "spawn"} /\ Goto(o, "failed") /\ UNCHANGED <<reaped, handle>>
      BY <3>2, <2>1
    <3> QED BY <2>5, <3>1, <3>2 DEF Term, Deadline, Terminated
  <2>6. CASE BlockDelete(o) \/ BlockLoad(o) \/ Flush(o)
    BY <2>6, <2>1 DEF BlockDelete, BlockLoad, Flush, Delete, Load
  <2> QED BY <1>2, <2>2, <2>3, <2>4, <2>5, <2>6 DEF Call
<1>3. ASSUME NEW i \in Runs, Reader(i) \/ Die(i) \/ Reap(i) PROVE ReaderSafe'
  <2>0. i \notin Ops
    BY ActorAssumption
  <2>1. ASSUME NEW l \in Labels, Goto(i, l), UNCHANGED <<reaped, handle>>,
               pc[i] \notin {"reading", "gone"}
        PROVE  ReaderSafe'
    BY <2>0, <2>1 DEF LockInv, TypeOK
  <2>2. CASE Eof(i)
    BY <2>0, <2>2 DEF Eof, LockInv, TypeOK
  <2>3. CASE KillDelete(i) \/ KillLoad(i)
    BY <2>3, <2>1 DEF KillDelete, KillLoad, Delete, Load
  <2>4. CASE Wake(i) \/ ReaderAcquire(i)
    <3>1. PICK l \in {"gone", "lock", "decide"} : Goto(i, l)
      BY <2>4 DEF Wake, ReaderAcquire
    <3> QED BY <2>4, <3>1, <2>1 DEF Wake, ReaderAcquire
  <2>5. CASE Die(i) \/ Reap(i)
    BY <2>5 DEF Die, Reap
  <2> QED BY <1>3, <2>2, <2>3, <2>4, <2>5 DEF Reader
<1>4. ASSUME NEW a \in Actors, NEW l \in Labels \ {"term"}, Goto(a, l), UNCHANGED <<reaped, handle>>,
             pc[a] \notin {"reading", "gone"}
      PROVE  ReaderSafe'
  BY <1>4 DEF LockInv, TypeOK
<1>5. ASSUME NEW a \in Runs \cup {"boot"}, Decide(a) PROVE ReaderSafe'
  <2>1. PICK l \in {"rules_del", "gone"} : Goto(a, l)
    BY <1>5 DEF Decide
  <2> QED BY <1>4, <1>5, <2>1 DEF Decide
<1>6. ASSUME NEW a \in Actors, Table(a) \/ Launch(a) PROVE ReaderSafe'
  <2>1. CASE Table(a)
    <3>1. PICK l \in {"rules_load", "ok", "gone", "spawn"} : Goto(a, l)
      BY <2>1 DEF Table, RulesDelete, RulesLoad, Delete, Load, AfterRules
    <3> QED BY <1>4, <2>1, <3>1 DEF Table, RulesDelete, RulesLoad, Delete, Load
  <2>2. CASE Spawn(a)
    BY <2>2, LeaveType DEF Spawn, LockInv, TypeOK
  <2>3. CASE SpawnFails(a)
    BY <1>4, <2>3 DEF SpawnFails
  <2> QED BY <1>6, <2>1, <2>2, <2>3 DEF Launch
<1> QED BY <1>1, <1>2, <1>3, <1>5, <1>6 DEF Next

Loading == {"rules_load", "block_load", "kill_load"}

\* A coroutine that is not loading leaves the table as it is.
LEMMA KeepTable ==
  ASSUME TypeOK, FlushInv, KillSwitchHolds, NEW a \in Actors, pc[a] \notin Loading,
         NEW l \in Labels, Goto(a, l), l = "flush" => ~conf.kill,
         UNCHANGED <<conf, nft, loaded>>
  PROVE  FlushInv' /\ KillSwitchHolds'
<1>1. \A b \in Actors : b # a => pc'[b] = pc[b]
  BY DEF TypeOK
<1>2. pc'[a] = l
  BY DEF TypeOK
<1>3. Replacing => Replacing'
  BY <1>1 DEF Replacing, Loading
<1>4. FlushInv'
  BY <1>1, <1>2 DEF FlushInv
<1> QED BY <1>3, <1>4 DEF KillSwitchHolds

\* Who deletes the table goes on to load one, or need not.
LEMMA DeleteTable ==
  ASSUME TypeOK, FlushInv, NEW a \in Actors, NEW l \in Labels \ {"flush"}, Delete(a, l),
         l \in Loading \/ ~conf.kill \/ conf.bypass
  PROVE  FlushInv' /\ KillSwitchHolds'
<1>1. pc'[a] = l /\ \A b \in Actors : b # a => pc'[b] = pc[b]
  BY DEF Delete, TypeOK
<1>2. FlushInv'
  BY <1>1 DEF FlushInv, Delete
<1>3. l \in Loading => Replacing'
  BY <1>1 DEF Replacing, Loading
<1> QED BY <1>2, <1>3 DEF KillSwitchHolds, Delete

\* No script is refused: a load leaves a table.
LEMMA LoadTable ==
  ASSUME TypeOK, FlushInv, left["load"] = 0, NEW a \in Actors, NEW rules,
         NEW l \in Labels \ {"flush"}, Load(a, rules, l)
  PROVE  FlushInv' /\ KillSwitchHolds' /\ left' = left
<1>1. nft' = nft \cup {rules} /\ left' = left /\ UNCHANGED conf /\ Goto(a, l)
  BY DEF Load, Spend
<1>2. FlushInv'
  BY <1>1 DEF FlushInv, TypeOK
<1> QED BY <1>1, <1>2 DEF KillSwitchHolds

\* A launch or a stop moves two coroutines; neither is loading.
LEMMA KeepTwo ==
  ASSUME TypeOK, FlushInv, KillSwitchHolds, NEW a \in Actors, NEW i \in Runs,
         pc[a] \notin Loading, pc[i] \notin Loading,
         NEW l \in Labels, NEW m \in Labels \ {"flush"}, l = "flush" => ~conf.kill,
         \/ pc' = [pc EXCEPT ![a] = l, ![i] = m]
         \/ pc' = [pc EXCEPT ![i] = m, ![a] = l],
         UNCHANGED <<conf, nft, loaded>>
  PROVE  FlushInv' /\ KillSwitchHolds'
<1>1. \A b \in Actors : b # a /\ b # i => pc'[b] = pc[b]
  BY DEF TypeOK
<1>2. \A b \in Actors : pc'[b] = "flush" => pc[b] = "flush" \/ ~conf.kill
  BY <1>1 DEF TypeOK
<1>3. Replacing => Replacing'
  BY <1>1 DEF Replacing, Loading
<1>4. FlushInv'
  BY <1>2 DEF FlushInv
<1> QED BY <1>3, <1>4 DEF KillSwitchHolds

LEMMA LeaveFlush == ASSUME NEW o, Leave(o) = "flush" PROVE ~conf.kill
BY DEF Leave

LEMMA TerminatedTable ==
  ASSUME LockInv, ReaderSafe, FlushInv, KillSwitchHolds, NEW o \in Ops, pc[o] = "term",
         NEW l \in Labels, l = "flush" => ~conf.kill, Terminated(o, l),
         UNCHANGED <<conf, nft, loaded>>
  PROVE  FlushInv' /\ KillSwitchHolds'
<1>1. handle \in Runs /\ pc[handle] \in {"reading", "gone"}
  BY DEF LockInv, ReaderSafe
<1>2. pc' = [pc EXCEPT ![o] = l, ![handle] = "gone"]
  BY DEF Terminated
<1> QED BY <1>1, <1>2, KeepTwo DEF LockInv, Loading

LEMMA TableStep == ASSUME TableInv, [Next]_vars PROVE TableInv'
<1> DEFINE Goal == FlushInv' /\ KillSwitchHolds' /\ left'["load"] = 0
<1> USE DEF TableInv
<1>0. LockInv' /\ ReaderSafe'
  BY LockStep, ReaderStep
<1>1. TypeOK /\ FlushInv /\ KillSwitchHolds /\ left["load"] = 0 /\ ReaderSafe /\ LockInv
  BY DEF LockInv
<1>2. ASSUME NEW k \in {"crash", "fault", "deadline"}, Spend(k) PROVE left'["load"] = 0
  BY <1>1, <1>2 DEF Spend, TypeOK
<1>3. CASE UNCHANGED vars
  BY <1>0, <1>1, <1>3 DEF vars, FlushInv, KillSwitchHolds, Replacing
<1>4. ASSUME NEW o \in Ops, Call(o) PROVE Goal
  <2>1. CASE Begin(o)
    <3>1. PICK l \in {"ok", "block_del", "rules_del", "wait"} : Goto(o, l)
      BY <2>1 DEF Begin
    <3>2. pc[o] = "new" /\ UNCHANGED <<conf, nft, loaded, left>>
      BY <2>1 DEF Begin
    <3> QED BY <1>1, <3>1, <3>2, KeepTable DEF Loading
  <2>2. CASE Acquire(o)
    <3>1. PICK l \in Labels : Goto(o, l) /\ (l = "flush" => ~conf.kill)
      BY <2>2, LeaveType, LeaveFlush DEF Acquire
    <3>2. pc[o] = "wait" /\ UNCHANGED <<conf, nft, loaded, left>>
      BY <2>2 DEF Acquire
    <3> QED BY <1>1, <3>1, <3>2, KeepTable DEF Loading
  <2>3. CASE Busy(o)
    BY <1>1, <2>3, KeepTable DEF Busy, Loading
  <2>4. CASE Term(o)
    <3>1. PICK l \in Labels : Terminated(o, l) /\ (l = "flush" => ~conf.kill)
      BY <2>4, LeaveType, LeaveFlush DEF Term
    <3> QED BY <1>1, <2>4, <3>1, TerminatedTable DEF Term
  <2>5. CASE Deadline(o)
    <3>1. UNCHANGED <<conf, nft, loaded>> /\ left'["load"] = 0
      BY <1>2, <2>5 DEF Deadline
    <3>2. CASE pc[o] \in {"wait", "spawn"} /\ Goto(o, "failed")
      BY <1>1, <3>1, <3>2, KeepTable DEF Loading
    <3>3. CASE pc[o] = "term" /\ Terminated(o, "failed")
      BY <1>1, <3>1, <3>3, TerminatedTable
    <3> QED BY <2>5, <3>2, <3>3 DEF Deadline
  <2>6. CASE BlockDelete(o)
    BY <1>1, <2>6, DeleteTable DEF BlockDelete, Delete, Loading
  <2>7. CASE BlockLoad(o)
    BY <1>1, <2>7, LoadTable DEF BlockLoad
  <2>8. CASE Flush(o)
    BY <1>1, <2>8, DeleteTable DEF Flush, FlushInv, Delete
  <2> QED BY <1>4, <2>1, <2>2, <2>3, <2>4, <2>5, <2>6, <2>7, <2>8 DEF Call
<1>5. ASSUME NEW i \in Runs, Reader(i) \/ Die(i) \/ Reap(i) PROVE Goal
  <2>1. CASE Eof(i) \/ Wake(i) \/ ReaderAcquire(i)
    <3>1. PICK l \in {"kill_del", "backoff", "gone", "lock", "decide"} : Goto(i, l)
      BY <2>1 DEF Eof, Wake, ReaderAcquire
    <3>2. pc[i] \notin Loading /\ UNCHANGED <<conf, nft, loaded, left>>
      BY <2>1 DEF Eof, Wake, ReaderAcquire, Loading
    <3> QED BY <1>1, <3>1, <3>2, KeepTable
  <2>2. CASE KillDelete(i)
    BY <1>1, <2>2, DeleteTable DEF KillDelete, Delete, Loading
  <2>3. CASE KillLoad(i)
    BY <1>1, <2>3, LoadTable DEF KillLoad
  <2>4. CASE Die(i)
    BY <1>1, <1>2, <2>4 DEF Die, FlushInv, KillSwitchHolds, Replacing
  <2>5. CASE Reap(i)
    BY <1>1, <2>5 DEF Reap, FlushInv, KillSwitchHolds, Replacing
  <2> QED BY <1>5, <2>1, <2>2, <2>3, <2>4, <2>5 DEF Reader
<1>6. ASSUME NEW a \in Runs \cup {"boot"}, Decide(a) PROVE Goal
  <2>1. PICK l \in {"rules_del", "gone"} : Goto(a, l)
    BY <1>6 DEF Decide
  <2> QED BY <1>1, <1>6, <2>1, KeepTable DEF Decide, Loading
<1>7. ASSUME NEW a \in Actors, Table(a) \/ Launch(a) PROVE Goal
  <2>0. AfterRules(a) \in Labels \ {"flush"}
    BY DEF AfterRules
  <2>1. CASE RulesDelete(a)
    <3>1. PICK l \in Labels \ {"flush"} : Delete(a, l) /\ (l = "rules_load" \/ conf.bypass)
      BY <2>0, <2>1 DEF RulesDelete
    <3> QED BY <1>1, <3>1, DeleteTable DEF Loading, Delete
  <2>2. CASE RulesLoad(a)
    BY <1>1, <2>0, <2>2, LoadTable DEF RulesLoad
  <2>3. CASE Spawn(a)
    <3> DEFINE l == IF a \in Ops THEN Leave(a) ELSE "gone"
    <3>0. l \in Labels /\ (l = "flush" => ~conf.kill)
      BY LeaveType, LeaveFlush
    <3>1. PICK i \in Runs : life[i] = "unborn" /\ pc' = [pc EXCEPT ![i] = "reading", ![a] = l]
      BY <2>3 DEF Spawn
    <3>2. pc[a] = "spawn" /\ pc[i] = "unborn" /\ UNCHANGED <<conf, nft, loaded, left>>
      BY <1>1, <2>3, <3>1 DEF Spawn, LockInv
    <3> HIDE DEF l
    <3> QED BY <1>1, <3>0, <3>1, <3>2, KeepTwo DEF Loading
  <2>4. CASE SpawnFails(a)
    <3>1. PICK l \in {"failed", "gone"} : Goto(a, l)
      BY <2>4 DEF SpawnFails
    <3> QED BY <1>1, <1>2, <2>4, <3>1, KeepTable DEF SpawnFails, Loading
  <2> QED BY <1>7, <2>1, <2>2, <2>3, <2>4 DEF Table, Launch
<1> QED BY <1>0, <1>3, <1>4, <1>5, <1>6, <1>7 DEF Next

\* With the kill switch on, whatever calls, crashes, recoveries and cancelled
\* rotations overlap, a table once loaded is gone only while somebody replaces it,
\* as long as no nft script is refused.
THEOREM KillSwitchKept == ASSUME LoadFaults = 0 PROVE Spec => []KillSwitchHolds
<1>1. Init => TableInv
  <2>1. Init => LockInv
    BY LockInit
  <2>2. Init => ReaderSafe /\ left["load"] = 0 /\ FlushInv /\ KillSwitchHolds
    BY ActorAssumption DEF Init, ReaderSafe, FlushInv, KillSwitchHolds
  <2> QED BY <2>1, <2>2 DEF TableInv
<1>2. TableInv /\ [Next]_vars => TableInv'
  BY TableStep
<1>3. TableInv => KillSwitchHolds
  BY DEF TableInv
<1> QED BY <1>1, <1>2, <1>3, PTL DEF Spec

-----------------------------------------------------------------------------
(* One xray.                                                               *)

LEMMA NotRunning == ASSUME LaunchInv, ~Running PROVE NoneAlive
BY ActorAssumption DEF LaunchInv, LockInv, TypeOK, Running, NoneAlive, OneXray

\* The coroutines that take part only when the boot is over.
LEMMA AfterBoot ==
  ASSUME LaunchInv, NEW a \in Ops \cup Runs, pc[a] \notin {"new", "unborn"}
  PROVE  pc["boot"] = "gone"
BY DEF LaunchInv, Booting

\* A coroutine moves, and no process changes.
LEMMA LaunchGoto ==
  ASSUME LaunchInv, LockInv', NEW a \in Actors, NEW l \in Labels, Goto(a, l),
         UNCHANGED <<life, handle>>,
         l = "spawn" => pc[a] = "spawn" \/ ~Running,
         a = "boot" => pc[a] # "gone" /\ l \in BootLabels \cup {"gone"},
         a # "boot" => pc["boot"] = "gone"
  PROVE  LaunchInv'
<1>1. pc'[a] = l /\ \A b \in Actors : b # a => pc'[b] = pc[b]
  BY DEF LaunchInv, LockInv, TypeOK
<1>2. \A b \in Actors : pc'[b] = "spawn" => NoneAlive
  BY <1>1, NotRunning DEF LaunchInv
<1>3. pc'["boot"] \in BootLabels \cup {"gone"} /\ Booting'
  BY <1>1, ActorAssumption DEF LaunchInv, Booting, BootLabels
<1> QED BY <1>2, <1>3 DEF LaunchInv, NoneAlive, OneXray

LEMMA LaunchTerminated ==
  ASSUME LaunchInv, LockInv', NEW o \in Ops, pc[o] = "term", NEW l \in Labels, Terminated(o, l)
  PROVE  LaunchInv'
<1>1. pc["boot"] = "gone" /\ handle \in Runs
  BY AfterBoot DEF LaunchInv, LockInv
<1>2. pc' = [pc EXCEPT ![o] = l, ![handle] = "gone"]
      /\ life' = [life EXCEPT ![handle] = IF @ = "alive" THEN "exited" ELSE @]
  BY DEF Terminated
<1>3. pc'["boot"] = "gone"
  BY <1>1, <1>2, ActorAssumption DEF LaunchInv, LockInv, TypeOK
<1>4. \A i \in Runs : life'[i] # "alive"
  BY <1>1, <1>2 DEF LaunchInv, LockInv, TypeOK, OneXray
<1> QED BY <1>3, <1>4 DEF LaunchInv, Booting, BootLabels, NoneAlive, OneXray

\* Only the one coroutine that is inside launches, and there was no process.
LEMMA LaunchSpawn ==
  ASSUME LaunchInv, LockInv', NEW a \in Actors, Spawn(a)
  PROVE  LaunchInv'
<1> DEFINE l == IF a \in Ops THEN Leave(a) ELSE "gone"
<1>0. l \in Labels \ {"spawn", "term"} /\ (a = "boot" => l = "gone")
  BY LeaveType, ActorAssumption
<1>1. PICK i \in Runs :
        /\ life[i] = "unborn" /\ life' = [life EXCEPT ![i] = "alive"] /\ handle' = i
        /\ pc' = [pc EXCEPT ![i] = "reading", ![a] = l] /\ pc[a] = "spawn"
  BY DEF Spawn
<1> HIDE DEF l
<1>2. /\ pc'[a] = l /\ pc'[i] = "reading"
      /\ \A b \in Actors : b # a /\ b # i => pc'[b] = pc[b]
  BY <1>0, <1>1 DEF LaunchInv, LockInv, TypeOK
<1>3. \A b \in Actors : pc[b] = "spawn" => b = a
  BY <1>1, AfterBoot DEF LaunchInv, LockInv, Inside, Booting, BootLabels
<1>4. \A b \in Actors : pc'[b] # "spawn"
  BY <1>0, <1>2, <1>3
<1>5. pc'["boot"] = "gone"
  BY <1>0, <1>1, <1>2, AfterBoot, ActorAssumption DEF LaunchInv
<1>6. OneXray'
  BY <1>1 DEF LaunchInv, LockInv, TypeOK, NoneAlive, OneXray
<1> QED BY <1>4, <1>5, <1>6 DEF LaunchInv, Booting, BootLabels

LEMMA LaunchStep == ASSUME ~EarlyChecks, LaunchInv, [Next]_vars PROVE LaunchInv'
<1>0. LockInv /\ LockInv'
  BY LockStep DEF LaunchInv
<1>1. CASE UNCHANGED vars
  BY <1>0, <1>1 DEF vars, LaunchInv, Booting, NoneAlive, OneXray
<1>2. ASSUME NEW o \in Ops, Call(o) PROVE LaunchInv'
  <2>0. o # "boot"
    BY ActorAssumption
  <2>1. CASE Begin(o)
    <3>1. PICK l \in {"ok", "block_del", "rules_del", "wait"} : Goto(o, l)
      BY <2>1 DEF Begin
    <3>2. pc["boot"] = "gone" /\ UNCHANGED <<life, handle>>
      BY <2>1 DEF Begin, Serving
    <3> QED BY <1>0, <2>0, <3>1, <3>2, LaunchGoto
  <2>2. CASE Acquire(o)
    <3>1. PICK l \in Labels : Goto(o, l) /\ (l = "spawn" => ~Running)
      BY <2>2, LeaveType DEF Acquire
    <3>2. pc["boot"] = "gone" /\ UNCHANGED <<life, handle>>
      BY <2>2, AfterBoot DEF Acquire
    <3> QED BY <1>0, <2>0, <3>1, <3>2, LaunchGoto
  <2>3. CASE Busy(o)
    BY <1>0, <2>0, <2>3, LaunchGoto, AfterBoot DEF Busy
  <2>4. CASE Term(o)
    BY <1>0, <2>4, LaunchTerminated, LeaveType DEF Term
  <2>5. CASE Deadline(o)
    <3>1. CASE pc[o] \in {"wait", "spawn"} /\ Goto(o, "failed") /\ UNCHANGED <<life, reaped, handle>>
      BY <1>0, <2>0, <3>1, LaunchGoto, AfterBoot
    <3>2. CASE pc[o] = "term" /\ Terminated(o, "failed")
      BY <1>0, <3>2, LaunchTerminated
    <3> QED BY <2>5, <3>1, <3>2 DEF Deadline
  <2>6. CASE BlockDelete(o) \/ BlockLoad(o) \/ Flush(o)
    BY <1>0, <2>0, <2>6, LaunchGoto, AfterBoot DEF BlockDelete, BlockLoad, Flush, Delete, Load
  <2> QED BY <1>2, <2>1, <2>2, <2>3, <2>4, <2>5, <2>6 DEF Call
<1>3. ASSUME NEW i \in Runs, Reader(i) \/ Die(i) \/ Reap(i) PROVE LaunchInv'
  <2>0. i # "boot"
    BY ActorAssumption
  <2>1. CASE Reader(i)
    <3>1. PICK l \in Labels \ {"spawn"} : Goto(i, l)
      BY <2>1 DEF Reader, Eof, KillDelete, KillLoad, Wake, ReaderAcquire, Delete, Load
    <3>2. pc[i] \notin {"new", "unborn"} /\ UNCHANGED <<life, handle>>
      BY <2>1 DEF Reader, Eof, KillDelete, KillLoad, Wake, ReaderAcquire, Delete, Load
    <3> QED BY <1>0, <2>0, <3>1, <3>2, LaunchGoto, AfterBoot
  <2>2. CASE Die(i)
    BY <1>0, <2>2 DEF Die, LaunchInv, LockInv, TypeOK, Booting, NoneAlive, OneXray
  <2>3. CASE Reap(i)
    BY <1>0, <2>3 DEF Reap, LaunchInv, Booting, NoneAlive, OneXray
  <2> QED BY <1>3, <2>1, <2>2, <2>3
<1>4. ASSUME NEW a \in Runs \cup {"boot"}, Decide(a) PROVE LaunchInv'
  <2>1. PICK l \in {"rules_del", "gone"} : Goto(a, l)
    BY <1>4 DEF Decide
  <2> QED BY <1>0, <1>4, <2>1, LaunchGoto, AfterBoot DEF Decide, BootLabels
<1>5. ASSUME NEW a \in Actors, Table(a) \/ Launch(a) PROVE LaunchInv'
  <2>0. a # "boot" /\ pc[a] \notin {"new", "unborn"} => pc["boot"] = "gone"
    BY AfterBoot
  <2>1. CASE Table(a)
    <3>1. PICK l \in Labels : Goto(a, l) /\ (l = "spawn" => ~Running)
                                         /\ (a = "boot" => l \in BootLabels \cup {"gone"})
      BY <2>1, ActorAssumption
         DEF Table, RulesDelete, RulesLoad, Delete, Load, AfterRules, BootLabels
    <3>2. pc[a] \in {"rules_del", "rules_load"} /\ UNCHANGED <<life, handle>>
      BY <2>1 DEF Table, RulesDelete, RulesLoad, Delete, Load
    <3> QED BY <1>0, <2>0, <3>1, <3>2, LaunchGoto
  <2>2. CASE Spawn(a)
    BY <1>0, <2>2, LaunchSpawn
  <2>3. CASE SpawnFails(a)
    <3>1. PICK l \in {"failed", "gone"} : Goto(a, l) /\ (a = "boot" => l = "gone")
      BY <2>3, ActorAssumption DEF SpawnFails
    <3> QED BY <1>0, <2>0, <2>3, <3>1, LaunchGoto DEF SpawnFails
  <2> QED BY <1>5, <2>1, <2>2, <2>3 DEF Launch
<1> QED BY <1>1, <1>2, <1>3, <1>4, <1>5 DEF Next

\* No xray process is ever out of the manager's reach, however many calls, crashes,
\* recoveries and cancelled rotations overlap, when no failover starts before the
\* boot, whose launch takes no lock, is over.
THEOREM OneXrayOnly == ASSUME ~EarlyChecks PROVE Spec => []OneXray
<1>1. Init => LaunchInv
  <2>1. Init => LockInv
    BY LockInit
  <2>2. Init => /\ pc["boot"] \in BootLabels \cup {"gone"} /\ Booting
                /\ \A a \in Actors : pc[a] # "spawn"
                /\ OneXray
    BY ActorAssumption DEF Init, Booting, BootLabels, OneXray
  <2> QED BY <2>1, <2>2 DEF LaunchInv
<1>2. LaunchInv /\ [Next]_vars => LaunchInv'
  BY LaunchStep
<1>3. LaunchInv => OneXray
  BY DEF LaunchInv
<1> QED BY <1>1, <1>2, <1>3, PTL DEF Spec

-----------------------------------------------------------------------------
(***************************************************************************)
(* One call in peace.  Nothing else is under way, so what it has done so   *)
(* far can be read off where it stands.                                    *)
(***************************************************************************)

\* No coroutine but call o is under way, and no process waits to be found dead.
Lonely(o) ==
  /\ pc["boot"] = "gone"
  /\ \A p \in Ops \ {o} : pc[p] \in {"new"} \cup Ended
  /\ \A i \in Runs : /\ pc[i] \in {"unborn", "reading", "gone"}
                     /\ pc[i] = "reading" => life[i] = "alive"

Up == handle \in Runs /\ life[handle] = "alive"

\* How far a start or a restart has come.
Serves(o) ==
  kind[o] \in {"start", "restart"} =>
    /\ pc[o] \in {"wait", "term", "spawn", "rules_del", "rules_load"} \cup Ended
    /\ pc[o] = "wait" /\ kind[o] = "start" => ~Running
    /\ pc[o] \in {"rules_del", "rules_load", "ok"} => Up
    /\ pc[o] = "rules_load" => nft = {} /\ ~conf.bypass
    /\ pc[o] = "ok" => nft = IF conf.bypass THEN {} ELSE {"redirect"}

\* How far a stop has come.
Stops(o) ==
  kind[o] = "stop" =>
    /\ pc[o] \in {"block_del", "block_load", "wait", "term", "flush"} \cup Ended
    /\ pc[o] \in {"block_del", "block_load"} => conf.kill
    /\ pc[o] = "block_load" => nft = {}
    /\ pc[o] \in {"wait", "term"} /\ conf.kill => nft = {"drop"}
    /\ pc[o] = "flush" => ~Running /\ ~conf.kill
    /\ pc[o] = "ok" => Blocked

PeaceInv ==
  /\ LockInv
  /\ solo # None => Lonely(solo) /\ Serves(solo) /\ Stops(solo)

LEMMA PeaceInit == ASSUME Init PROVE PeaceInv
BY LockInit DEF Init, PeaceInv

\* What a call made when all is quiet starts from.
LEMMA PeaceBegin ==
  ASSUME PeaceInv, LockInv', NEW o \in Ops, Begin(o)
  PROVE  PeaceInv'
<1>0. TypeOK /\ LockInv
  BY DEF PeaceInv, LockInv
<1>1. PICK k \in Kinds :
        /\ kind' = [kind EXCEPT ![o] = IF k = "start" /\ Running THEN "restart" ELSE k]
        /\ Goto(o, IF k \in {"reload", "rotate", "refresh"} /\ ~Running THEN "ok"
                   ELSE IF k = "stop" /\ conf.kill THEN "block_del"
                   ELSE IF k = "refresh" THEN "rules_del" ELSE "wait")
        /\ solo' = IF Quiet THEN o ELSE None
  BY DEF Begin
<1>2. UNCHANGED <<conf, life, reaped, handle, nft>>
  BY DEF Begin
<1>3. kind'[o] = IF k = "start" /\ Running THEN "restart" ELSE k
  BY <1>0, <1>1 DEF TypeOK
<1>4. /\ pc'[o] = IF k \in {"reload", "rotate", "refresh"} /\ ~Running THEN "ok"
                  ELSE IF k = "stop" /\ conf.kill THEN "block_del"
                  ELSE IF k = "refresh" THEN "rules_del" ELSE "wait"
      /\ \A b \in Actors : b # o => pc'[b] = pc[b]
  BY <1>0, <1>1 DEF TypeOK
<1>5. ASSUME Quiet PROVE Lonely(o)'
  BY <1>2, <1>4, <1>5, ActorAssumption DEF Quiet, Serving, Lonely
<1>6. Running' <=> Running
  BY <1>2 DEF Running
<1>7. Serves(o)'
  BY <1>2, <1>3, <1>4, <1>6 DEF Serves
<1>8. Stops(o)'
  BY <1>2, <1>3, <1>4, <1>6 DEF Stops
<1>9. CASE Quiet
  BY <1>1, <1>5, <1>7, <1>8, <1>9 DEF PeaceInv
<1> QED BY <1>1, <1>9 DEF PeaceInv

\* The lonely call moves on.
LEMMA LonelyGoto ==
  ASSUME TypeOK, NEW o \in Ops, Lonely(o), NEW l \in Labels, Goto(o, l), UNCHANGED life
  PROVE  Lonely(o)' /\ pc'[o] = l
BY ActorAssumption DEF TypeOK, Lonely

LEMMA LonelyTerminated ==
  ASSUME LockInv, NEW o \in Ops, Lonely(o), NEW l \in Labels, pc[o] = "term", Terminated(o, l)
  PROVE  Lonely(o)' /\ pc'[o] = l /\ ~Running'
<1>1. handle \in Runs /\ handle # o /\ handle \notin Ops /\ handle # "boot"
  BY ActorAssumption DEF LockInv
<1>2. /\ pc' = [pc EXCEPT ![o] = l, ![handle] = "gone"] /\ handle' = None
      /\ life' = [life EXCEPT ![handle] = IF @ = "alive" THEN "exited" ELSE @]
  BY DEF Terminated
<1>3. /\ pc'[o] = l /\ pc'[handle] = "gone"
      /\ \A b \in Actors : b # o /\ b # handle => pc'[b] = pc[b]
      /\ \A i \in Runs : i # handle => life'[i] = life[i]
  BY <1>1, <1>2 DEF LockInv, TypeOK
<1>4. pc'["boot"] = "gone"
  BY <1>1, <1>3, ActorAssumption DEF Lonely
<1>5. \A p \in Ops \ {o} : pc'[p] \in {"new"} \cup Ended
  BY <1>1, <1>3, ActorAssumption DEF Lonely
<1>6. \A i \in Runs : /\ pc'[i] \in {"unborn", "reading", "gone"}
                      /\ pc'[i] = "reading" => life'[i] = "alive"
  BY <1>1, <1>3, ActorAssumption DEF Lonely
<1> QED BY <1>2, <1>3, <1>4, <1>5, <1>6 DEF Lonely, Running

LEMMA LonelySpawn ==
  ASSUME LockInv, NEW o \in Ops, Lonely(o), Spawn(o)
  PROVE  Lonely(o)' /\ pc'[o] = Leave(o) /\ Up'
<1>1. PICK i \in Runs :
        /\ life[i] = "unborn" /\ life' = [life EXCEPT ![i] = "alive"] /\ handle' = i
        /\ pc' = [pc EXCEPT ![i] = "reading", ![o] = Leave(o)]
  BY DEF Spawn
<1>2. i # o /\ i \notin Ops /\ i # "boot"
  BY ActorAssumption
<1>3. /\ pc'[o] = Leave(o) /\ pc'[i] = "reading" /\ life'[i] = "alive"
      /\ \A b \in Actors : b # o /\ b # i => pc'[b] = pc[b]
      /\ \A j \in Runs : j # i => life'[j] = life[j]
  BY <1>1, <1>2 DEF LockInv, TypeOK
<1>4. pc'["boot"] = "gone"
  BY <1>2, <1>3, ActorAssumption DEF Lonely
<1>5. \A p \in Ops \ {o} : pc'[p] \in {"new"} \cup Ended
  BY <1>2, <1>3, ActorAssumption DEF Lonely
<1>6. \A j \in Runs : /\ pc'[j] \in {"unborn", "reading", "gone"}
                      /\ pc'[j] = "reading" => life'[j] = "alive"
  BY <1>2, <1>3, ActorAssumption DEF Lonely
<1> QED BY <1>1, <1>3, <1>4, <1>5, <1>6 DEF Lonely, Up

LEMMA PeaceStep == ASSUME PeaceInv, [Next]_vars PROVE PeaceInv'
<1>0. TypeOK /\ LockInv /\ LockInv'
  BY LockStep DEF PeaceInv, LockInv
<1>1. ASSUME NEW o \in Ops, Begin(o) PROVE PeaceInv'
  BY <1>0, <1>1, PeaceBegin
<1> SUFFICES ASSUME solo' # None, \A o \in Ops : ~Begin(o)
             PROVE  Lonely(solo)' /\ Serves(solo)' /\ Stops(solo)'
  BY <1>0, <1>1 DEF PeaceInv
<1>2. solo' = solo
  BY DEF vars, Next, Call, Acquire, Busy, Term, Deadline, BlockDelete, BlockLoad, Flush, Reader,
         Eof, KillDelete, KillLoad, Wake, ReaderAcquire, Die, Reap, Decide, Table, RulesDelete,
         RulesLoad, Launch, Spawn, SpawnFails, Delete, Load
<1>3. PICK o \in Ops : o = solo /\ Lonely(o) /\ Serves(o) /\ Stops(o)
  BY <1>0, <1>2 DEF PeaceInv, TypeOK
<1> SUFFICES Lonely(o)' /\ Serves(o)' /\ Stops(o)'
  BY <1>2, <1>3
<1>4. CASE UNCHANGED vars
  BY <1>3, <1>4 DEF vars, Lonely, Serves, Stops, Up, Running, Blocked
<1>5. ASSUME NEW p \in Ops, Call(p) PROVE Lonely(o)' /\ Serves(o)' /\ Stops(o)'
  <2>0. p = o
    BY <1>3, <1>5 DEF Call, Acquire, Busy, Term, Deadline, BlockDelete, BlockLoad, Flush, Lonely
  <2>1. CASE Acquire(o)
    <3>1. UNCHANGED <<conf, life, reaped, handle, kind, nft>> /\ pc[o] = "wait"
      BY <2>1 DEF Acquire
    <3>2. Running' <=> Running
      BY <3>1 DEF Running
    <3>3. CASE Running
      <4>1. Goto(o, IF kind[o] = "start" THEN Leave(o) ELSE "term")
        BY <2>1, <3>3 DEF Acquire
      <4>2. Lonely(o)' /\ pc'[o] = IF kind[o] = "start" THEN Leave(o) ELSE "term"
        BY <1>0, <1>3, <3>1, <4>1, LonelyGoto, LeaveType
      <4> QED BY <1>3, <3>1, <3>2, <3>3, <4>2 DEF Serves, Stops
    <3>4. CASE ~Running
      <4>1. Goto(o, IF kind[o] = "stop" THEN Leave(o) ELSE "spawn")
        BY <2>1, <3>4 DEF Acquire
      <4>2. Lonely(o)' /\ pc'[o] = IF kind[o] = "stop" THEN Leave(o) ELSE "spawn"
        BY <1>0, <1>3, <3>1, <4>1, LonelyGoto, LeaveType
      <4>3. Serves(o)'
        BY <3>1, <4>2 DEF Serves
      <4>4. Stops(o)'
        BY <1>3, <3>1, <3>2, <3>4, <4>2 DEF Stops, Leave, Blocked
      <4> QED BY <4>2, <4>3, <4>4
    <3> QED BY <3>3, <3>4
  <2>2. CASE Busy(o)
    <3>1. Lonely(o)' /\ pc'[o] = "busy" /\ UNCHANGED kind
      BY <1>0, <1>3, <2>2, LonelyGoto DEF Busy
    <3> QED BY <3>1 DEF Serves, Stops
  <2>3. CASE Term(o)
    <3>1. /\ pc[o] = "term" /\ UNCHANGED <<conf, kind, nft>>
          /\ Terminated(o, IF kind[o] = "stop" THEN Leave(o) ELSE "spawn")
      BY <2>3 DEF Term
    <3>2. (IF kind[o] = "stop" THEN Leave(o) ELSE "spawn") \in Labels
      BY LeaveType
    <3>3. /\ Lonely(o)' /\ ~Running'
          /\ pc'[o] = IF kind[o] = "stop" THEN Leave(o) ELSE "spawn"
      BY <1>0, <1>3, <3>1, <3>2, LonelyTerminated
    <3>4. Serves(o)'
      BY <3>1, <3>3 DEF Serves
    <3>5. Stops(o)'
      BY <1>3, <3>1, <3>3 DEF Stops, Leave, Blocked
    <3> QED BY <3>3, <3>4, <3>5
  <2>4. CASE Deadline(o)
    BY <2>4 DEF Deadline
  <2>5. CASE BlockDelete(o)
    <3>1. /\ Lonely(o)' /\ pc'[o] = "block_load" /\ pc[o] = "block_del"
          /\ UNCHANGED <<conf, kind>> /\ nft' = {}
      BY <1>0, <1>3, <2>5, LonelyGoto DEF BlockDelete, Delete
    <3> QED BY <1>3, <3>1 DEF Serves, Stops
  <2>6. CASE BlockLoad(o)
    <3>1. Load(o, "drop", "wait") /\ pc[o] = "block_load"
      BY <2>6 DEF BlockLoad
    <3>2. nft' = nft \cup {"drop"}
      BY <3>1 DEF Load
    <3>3. Lonely(o)' /\ pc'[o] = "wait" /\ UNCHANGED <<conf, kind>>
      BY <1>0, <1>3, <3>1, LonelyGoto DEF Load
    <3> QED BY <1>3, <3>1, <3>2, <3>3 DEF Serves, Stops
  <2>7. CASE Flush(o)
    <3>1. /\ Lonely(o)' /\ pc'[o] = "ok" /\ pc[o] = "flush"
          /\ UNCHANGED <<conf, kind, handle, reaped>> /\ nft' = {}
      BY <1>0, <1>3, <2>7, LonelyGoto DEF Flush, Delete
    <3> QED BY <1>3, <3>1 DEF Serves, Stops, Blocked, Running
  <2> QED BY <1>5, <2>0, <2>1, <2>2, <2>3, <2>4, <2>5, <2>6, <2>7 DEF Call
<1>6. ASSUME NEW i \in Runs, Reader(i) \/ Die(i) \/ Reap(i)
      PROVE  Lonely(o)' /\ Serves(o)' /\ Stops(o)'
  <2>1. CASE Reader(i)
    BY <1>3, <2>1 DEF Reader, Eof, KillDelete, KillLoad, Wake, ReaderAcquire, Lonely
  <2>2. CASE Die(i)
    BY <2>2 DEF Die
  <2>3. CASE Reap(i)
    <3>1. UNCHANGED <<conf, life, handle, pc, kind, nft>> /\ reaped \subseteq reaped'
      BY <2>3 DEF Reap
    <3>2. Lonely(o)' /\ (Running' => Running) /\ (Up' <=> Up)
      BY <1>3, <3>1 DEF Lonely, Running, Up
    <3>3. Serves(o)'
      BY <1>3, <3>1, <3>2 DEF Serves
    <3>4. Stops(o)'
      BY <1>3, <3>1, <3>2 DEF Stops, Blocked
    <3> QED BY <3>2, <3>3, <3>4
  <2> QED BY <1>6, <2>1, <2>2, <2>3
<1>7. ASSUME NEW a \in Runs \cup {"boot"}, Decide(a)
      PROVE  Lonely(o)' /\ Serves(o)' /\ Stops(o)'
  BY <1>3, <1>7 DEF Decide, Lonely
<1>8. ASSUME NEW a \in Actors, Table(a) \/ Launch(a)
      PROVE  Lonely(o)' /\ Serves(o)' /\ Stops(o)'
  <2>0. a = o
    BY <1>3, <1>8 DEF Table, RulesDelete, RulesLoad, Launch, Spawn, SpawnFails, Lonely
  <2>1. CASE RulesDelete(o)
    <3>1. Delete(o, IF conf.bypass THEN "ok" ELSE "rules_load") /\ pc[o] = "rules_del"
      BY <1>3, <2>1 DEF RulesDelete, AfterRules
    <3>2. /\ Lonely(o)' /\ pc'[o] = IF conf.bypass THEN "ok" ELSE "rules_load"
          /\ UNCHANGED <<conf, kind, handle, life>> /\ nft' = {}
      BY <1>0, <1>3, <3>1, LonelyGoto DEF Delete
    <3> QED BY <1>3, <3>1, <3>2 DEF Serves, Stops, Up
  <2>2. CASE RulesLoad(o)
    <3>1. Load(o, "redirect", "ok") /\ pc[o] = "rules_load"
      BY <1>3, <2>2 DEF RulesLoad, AfterRules
    <3>2. nft' = nft \cup {"redirect"}
      BY <3>1 DEF Load
    <3>3. Lonely(o)' /\ pc'[o] = "ok" /\ UNCHANGED <<conf, kind, handle, life>>
      BY <1>0, <1>3, <3>1, LonelyGoto DEF Load
    <3> QED BY <1>3, <3>1, <3>2, <3>3 DEF Serves, Stops, Up
  <2>3. CASE Spawn(o)
    <3>1. Lonely(o)' /\ pc'[o] = Leave(o) /\ Up'
      BY <1>0, <1>3, <2>3, LonelySpawn
    <3>2. pc[o] = "spawn" /\ UNCHANGED <<conf, kind>>
      BY <2>3 DEF Spawn
    <3> QED BY <1>3, <3>1, <3>2 DEF Serves, Stops, Leave
  <2>4. CASE SpawnFails(o)
    BY <2>4 DEF SpawnFails
  <2> QED BY <1>8, <2>0, <2>1, <2>2, <2>3, <2>4 DEF Table, Launch
<1> QED BY <1>4, <1>5, <1>6, <1>7, <1>8 DEF Next

\* A call begun in peace and undisturbed since leaves exactly what it promises, however
\* the processes and the table were left by earlier races, crashes and refused scripts.
THEOREM PeaceKept == Spec => []PeaceRepairs
<1>1. Init => PeaceInv
  BY PeaceInit
<1>2. PeaceInv /\ [Next]_vars => PeaceInv'
  BY PeaceStep
<1>3. PeaceInv => PeaceRepairs
  BY ActorAssumption
     DEF PeaceInv, Serves, Stops, PeaceRepairs, Served, Up, Running, LockInv
<1> QED BY <1>1, <1>2, <1>3, PTL DEF Spec

-----------------------------------------------------------------------------
(* NaiveSidecar. *)

HIDE DEF Actors, None, Ended, Labels, Lives, Goto

LEMMA LeastNat ==
  ASSUME NEW T \in SUBSET Nat, T # {}
  PROVE  \E m \in T : \A k \in T : m <= k
<1> DEFINE B == {0..n : n \in T}
<1>1. B \subseteq FiniteSubsetsOf(Nat) /\ B # {}
  <2>1. \A n \in T : IsFiniteSet(0..n) /\ 0..n \subseteq Nat
    BY FS_Interval
  <2> QED BY <2>1 DEF FiniteSubsetsOf
<1>2. IsWellFoundedOn(StrictSubsetOrdering(Nat), FiniteSubsetsOf(Nat))
  BY FS_StrictSubsetOrderingWellFounded
<1> HIDE DEF B
<1>3. PICK x \in B : \A y \in B : ~(<<y, x>> \in StrictSubsetOrdering(Nat))
  BY <1>1, <1>2, WFMin
<1>4. PICK m \in T : x = 0..m
  BY DEF B
<1>5. ASSUME NEW k \in T PROVE m <= k
  <2> SUFFICES ASSUME k < m PROVE FALSE
    OBVIOUS
  <2>1. ~(<<0..k, 0..m>> \in StrictSubsetOrdering(Nat))
    BY <1>3, <1>4 DEF B
  <2>2. 0..k \subseteq 0..m /\ 0..k # 0..m /\ 0..k \in SUBSET Nat /\ 0..m \in SUBSET Nat
    OBVIOUS
  <2> QED BY <2>1, <2>2 DEF StrictSubsetOrdering
<1> QED BY <1>5

-----------------------------------------------------------------------------
Thens == {"done", "start", "stop", "idle", "drop"}
Acts == [at : Places, n : Nodes \cup {Nil}, conf : FileConf \cup {Nil}, port : {0} \cup Ports,
         then : Thens]

\* Every variable the sidecars depend on has its type.
SidecarTypes ==
  /\ row \in [Nodes -> Row \cup {Nil}]
  /\ file \in [Nodes -> FileConf \cup {Nil}]
  /\ box \in [Nodes -> Box \cup {Nil}]
  /\ lock \in [Nodes -> Coroutines \cup {Nil}]
  /\ act \in [Coroutines -> Acts]
  /\ todo \in [stop : SUBSET Nodes, start : [Nodes -> FileConf \cup {Nil}]]
  /\ events \in Seq(Nodes)

\* Where each coroutine can stand, and what it then holds.
RequestRole(r) ==
  /\ act[r].at \notin {"backoff", "list", "next"}
  /\ act[r].at \in {"port", "take"} => act[r].then \in {"start", "stop", "idle"}
  /\ act[r].then = "drop" => act[r].at \in {"idle", "stop", "wipe", "drop"}
  /\ act[r].at = "drop" => act[r].then = "drop"
  /\ act[r].at = "take" => act[r].port \in Ports
  /\ act[Boot].at # "idle" => act[r].at = "idle"
Role(a) ==
  /\ act[a].at \notin {"idle", "list", "next"} => act[a].n \in Nodes
  /\ act[a].at \in {"start", "remove", "run"} => act[a].conf \in FileConf
Roles ==
  /\ act[Supervisor].at \in {"idle", "backoff", "start", "remove", "run"}
  /\ act[Boot].at \in {"idle", "list", "next", "start", "remove", "run", "stop", "wipe"}
  /\ act[Supervisor].then = "done" /\ act[Boot].then = "done"
  /\ \A r \in Requests : RequestRole(r)
  /\ \A a \in Coroutines : Role(a)

\* Whoever is between two calls of Docker holds the lock of the node: its file is the one it
\* wrote, its container is the one it removed.
UnderLock(a) ==
  act[a].at \in {"remove", "run", "wipe"} =>
    /\ lock[act[a].n] = a
    /\ act[a].at # "wipe" => file[act[a].n] = act[a].conf
    /\ act[a].at = "wipe" => box[act[a].n] = Nil

Base == SidecarTypes /\ Roles /\ \A a \in Coroutines : UnderLock(a)

LEMMA NilFacts ==
  /\ Nil \notin Nodes /\ Nil \notin Coroutines /\ Nil \notin FileConf /\ Nil \notin Row /\ Nil \notin Box
  /\ Supervisor \in Coroutines /\ Boot \in Coroutines /\ Supervisor # Boot
  /\ Requests \subseteq Coroutines /\ Supervisor \notin Requests /\ Boot \notin Requests
  /\ \A a \in Coroutines : a \in Requests \/ a = Supervisor \/ a = Boot
  /\ 0 \notin Ports
BY NilAssumption, NaiveAssumption DEF Coroutines, Supervisor, Boot

LEMMA BaseInit == ASSUME NaiveInit PROVE Base
<1>1. SidecarTypes
  BY NilFacts DEF NaiveInit, SidecarTypes, Acts, Idle, Places, Thens
<1>2. Roles
  BY NilFacts DEF NaiveInit, Roles, Role, RequestRole, Idle
<1>3. \A a \in Coroutines : UnderLock(a)
  BY DEF NaiveInit, UnderLock, Idle
<1> QED BY <1>1, <1>2, <1>3 DEF Base

LEMMA AfterFacts ==
  ASSUME Base, NEW a \in Coroutines
  PROVE  /\ After(a) \in Acts
         /\ a = Boot => After(a).at = "next" /\ After(a).then = "done"
         /\ a = Supervisor => After(a) = Idle
         /\ a \in Requests => IF act[a].then = "drop" THEN After(a) = [act[a] EXCEPT !.at = "drop"]
                              ELSE After(a) = Idle
<1>1. act[a] \in Acts
  BY DEF Base, SidecarTypes
<1> QED BY <1>1, NilFacts DEF After, Idle, Acts, Places, Thens, Base, Roles

LEMMA ActFields ==
  ASSUME Base, NEW a \in Coroutines
  PROVE  /\ act[a].at \in Places /\ act[a].n \in Nodes \cup {Nil}
         /\ act[a].then \in Thens /\ act[a] \in Acts
BY DEF Base, SidecarTypes, Acts

\* What Docker reports stays a sequence of nodes.
LEMMA ReportTyped ==
  ASSUME SidecarTypes, NEW n \in Nodes, Report(n) \/ UNCHANGED events
  PROVE  events' \in Seq(Nodes)
<1>1. events \in Seq(Nodes)
  BY DEF SidecarTypes
<1>2. Append(events, n) \in Seq(Nodes)
  BY <1>1
<1> QED BY <1>1, <1>2 DEF Report

\* Only coroutine a moves, its new record is typed and fits its role, and the locks, files and
\* boxes of the others' nodes stay: what is left to check of Base when a moves to s.
LEMMA BaseMove ==
  ASSUME Base, NEW a \in Coroutines, NEW s \in Acts, act' = [act EXCEPT ![a] = s],
         a = Supervisor => /\ s.at \in {"idle", "backoff", "start", "remove", "run"}
                           /\ s.then = "done",
         a = Boot => /\ s.at \in {"idle", "list", "next", "start", "remove", "run", "stop", "wipe"}
                     /\ s.then = "done" /\ (act[Boot].at = "idle" => s.at = "idle"),
         a \in Requests =>
           /\ s.at \notin {"backoff", "list", "next"}
           /\ s.at \in {"port", "take"} => s.then \in {"start", "stop", "idle"}
           /\ s.then = "drop" => s.at \in {"idle", "stop", "wipe", "drop"}
           /\ s.at = "drop" => s.then = "drop"
           /\ s.at = "take" => s.port \in Ports
           /\ act[Boot].at # "idle" => s.at = "idle",
         s.at \notin {"idle", "list", "next"} => s.n \in Nodes,
         s.at \in {"start", "remove", "run"} => s.conf \in FileConf
  PROVE  act' \in [Coroutines -> Acts] /\ Roles'
<1>1. act \in [Coroutines -> Acts]
  BY DEF Base, SidecarTypes
<1>2. act'[a] = s /\ \A b \in Coroutines : b # a => act'[b] = act[b]
  BY <1>1
<1>3. Roles
  BY DEF Base
<1>4. ASSUME NEW r \in Requests PROVE RequestRole(r)'
  <2>1. RequestRole(r) /\ r \in Coroutines
    BY <1>3, NilFacts DEF Roles
  <2>2. CASE r = a
    BY <2>1, <2>2, <1>2, NilFacts DEF RequestRole
  <2>3. CASE r # a
    BY <2>1, <2>3, <1>2, NilFacts DEF RequestRole
  <2> QED BY <2>2, <2>3
<1>5. ASSUME NEW b \in Coroutines PROVE Role(b)'
  <2>1. Role(b)
    BY <1>3 DEF Roles
  <2>2. CASE b = a
    BY <2>2, <1>2 DEF Role
  <2>3. CASE b # a
    BY <2>1, <2>3, <1>2 DEF Role
  <2> QED BY <2>2, <2>3
<1>6. act'[Supervisor].at \in {"idle", "backoff", "start", "remove", "run"} /\ act'[Supervisor].then = "done"
  BY <1>2, <1>3, NilFacts DEF Roles
<1>7. /\ act'[Boot].at \in {"idle", "list", "next", "start", "remove", "run", "stop", "wipe"}
      /\ act'[Boot].then = "done"
  BY <1>2, <1>3, NilFacts DEF Roles
<1>8. Roles'
  BY <1>4, <1>5, <1>6, <1>7 DEF Roles
<1> QED BY <1>1, <1>8

LEMMA AtMove ==
  ASSUME Base, NEW a \in Coroutines, NEW l \in Places, At(a, l)
  PROVE  [act[a] EXCEPT !.at = l] \in Acts /\ act' = [act EXCEPT ![a] = [act[a] EXCEPT !.at = l]]
<1>1. act[a] \in Acts /\ act \in [Coroutines -> Acts]
  BY DEF Base, SidecarTypes
<1> QED BY <1>1 DEF At, Acts

\* The locks, files and boxes of a step that holds the lock of n in between.
LEMMA LockMove ==
  ASSUME Base, NEW a \in Coroutines, NEW n \in Nodes, NEW s \in Acts,
         act' = [act EXCEPT ![a] = s],
         \A m \in Nodes \ {n} : lock'[m] = lock[m] /\ file'[m] = file[m] /\ (box[m] = Nil => box'[m] = Nil),
         lock[n] \in {Nil, a} \/ (lock'[n] = lock[n] /\ file'[n] = file[n] /\ (box[n] = Nil => box'[n] = Nil)),
         s.at \in {"remove", "run", "wipe"} =>
           /\ lock'[s.n] = a
           /\ s.at # "wipe" => file'[s.n] = s.conf
           /\ s.at = "wipe" => box'[s.n] = Nil
  PROVE  \A b \in Coroutines : UnderLock(b)'
<1> SUFFICES ASSUME NEW b \in Coroutines PROVE UnderLock(b)'
  OBVIOUS
<1>1. act \in [Coroutines -> Acts] /\ UnderLock(b) /\ Role(b)
  BY DEF Base, SidecarTypes, Roles
<1>2. CASE b = a
  BY <1>1, <1>2 DEF UnderLock
<1>3. CASE b # a
  <2>1. act'[b] = act[b]
    BY <1>1, <1>3
  <2>2. SUFFICES ASSUME act[b].at \in {"remove", "run", "wipe"}
                 PROVE  /\ lock'[act[b].n] = b
                        /\ act[b].at # "wipe" => file'[act[b].n] = act[b].conf
                        /\ act[b].at = "wipe" => box'[act[b].n] = Nil
    BY <2>1 DEF UnderLock
  <2>3. act[b].n \in Nodes /\ lock[act[b].n] = b
    BY <1>1, <2>2 DEF UnderLock, Role
  <2>4. b # Nil
    BY NilFacts
  <2>5. \/ act[b].n # n
        \/ lock'[n] = lock[n] /\ file'[n] = file[n] /\ (box[n] = Nil => box'[n] = Nil)
    BY <2>3, <2>4, <1>3
  <2> QED BY <2>2, <2>3, <2>5, <1>1 DEF UnderLock
<1> QED BY <1>2, <1>3

\* When nothing of locks, files and boxes moves but a box may go.
LEMMA StillLocked ==
  ASSUME Base, NEW a \in Coroutines, NEW s \in Acts, act' = [act EXCEPT ![a] = s],
         s.at \notin {"remove", "run", "wipe"}, UNCHANGED <<lock, file, box>>
  PROVE  \A b \in Coroutines : UnderLock(b)'
<1> SUFFICES ASSUME NEW b \in Coroutines PROVE UnderLock(b)'
  OBVIOUS
<1>1. act \in [Coroutines -> Acts] /\ UnderLock(b)
  BY DEF Base, SidecarTypes
<1> QED BY <1>1 DEF UnderLock

LEMMA BaseManager ==
  ASSUME Base, NEW a \in Coroutines, Manager(a) \/ DockerFails(a)
  PROVE  Base'
<1> DEFINE n == act[a].n
<1>1. /\ act[a] \in Acts /\ act \in [Coroutines -> Acts] /\ SidecarTypes /\ Role(a) /\ UnderLock(a)
      /\ (a \in Requests => RequestRole(a))
      /\ (a = Supervisor => act[a].at \in {"idle", "backoff", "start", "remove", "run"} /\ act[a].then = "done")
      /\ (a = Boot => act[a].then = "done")
  BY DEF Base, SidecarTypes, Roles
<1>2. After(a) \in Acts /\ act[a].at \in Places /\ act[a].then \in Thens
  BY AfterFacts, ActFields
<1>3. ASSUME act[a].at \in {"start", "remove", "run", "stop", "wipe"}, NEW l \in {"remove", "run", "wipe"},
             At(a, l), l \in {"remove", "run"} <=> act[a].at \in {"start", "remove", "run"}
      PROVE  act' \in [Coroutines -> Acts] /\ Roles'
  <2> DEFINE s == [act[a] EXCEPT !.at = l]
  <2>0. l \in Places
    BY DEF Places
  <2>1. s \in Acts /\ act' = [act EXCEPT ![a] = s]
    BY <1>3, <2>0, AtMove
  <2>2. s.at = l /\ s.n = act[a].n /\ s.conf = act[a].conf /\ s.then = act[a].then
    BY <1>1 DEF Acts
  <2>3. a \in Requests => (act[a].then = "drop" => l = "wipe") /\ act[Boot].at = "idle"
    BY <1>1, <1>3 DEF RequestRole
  <2>4. a = Supervisor => l \in {"remove", "run"}
    BY <1>1, <1>3
  <2> HIDE DEF s
  <2> QED BY <2>1, <2>2, <2>3, <2>4, <1>1, <1>3, BaseMove DEF Role
<1>4. ASSUME act[a].at \in {"start", "remove", "run", "stop", "wipe"}, Go(a, After(a))
      PROVE  act' \in [Coroutines -> Acts] /\ Roles'
  <2>1. act' = [act EXCEPT ![a] = After(a)]
    BY <1>4 DEF Go
  <2>2. a \in Requests => act[Boot].at = "idle" /\ act[a].n \in Nodes
    BY <1>1, <1>4 DEF RequestRole, Role
  <2>3. a \in Requests => \/ act[a].then = "drop" /\ After(a) = [act[a] EXCEPT !.at = "drop"]
                          \/ act[a].then # "drop" /\ After(a) = Idle
    BY AfterFacts
  <2>4. a \in Requests => /\ After(a).at \in {"drop", "idle"} /\ After(a).n \in Nodes \cup {Nil}
                          /\ After(a).at = "drop" => After(a).then = "drop" /\ After(a).n \in Nodes
                          /\ After(a).then = "drop" => After(a).at = "drop"
    BY <2>3, <2>2, <1>1 DEF Idle, Acts
  <2>5. a = Supervisor => After(a).at = "idle" /\ After(a).then = "done"
    BY AfterFacts DEF Idle
  <2>6. a = Boot => After(a).at = "next" /\ After(a).then = "done" /\ act[Boot].at # "idle"
    BY AfterFacts, <1>4
  <2>7. a \in Requests \/ a = Supervisor \/ a = Boot
    BY NilFacts
  <2> QED BY <2>1, <2>2, <2>4, <2>5, <2>6, <2>7, <1>2, BaseMove
<1>5. CASE WriteConfig(a)
  <2>1. act[a].at = "start" /\ n \in Nodes /\ lock[n] = Nil /\ act[a].conf \in FileConf
    BY <1>5, <1>1 DEF WriteConfig, Role
  <2>2. act' \in [Coroutines -> Acts] /\ Roles'
    BY <2>1, <1>3, <1>5 DEF WriteConfig
  <2>3. SidecarTypes'
    BY <2>1, <2>2, <1>1, <1>5 DEF WriteConfig, SidecarTypes
  <2>4. \A b \in Coroutines : UnderLock(b)'
    <3> DEFINE s == [act[a] EXCEPT !.at = "remove"]
    <3>1. s \in Acts /\ act' = [act EXCEPT ![a] = s]
      BY <1>5, AtMove DEF WriteConfig, Places
    <3>2. s.at = "remove" /\ s.n = n /\ s.conf = act[a].conf
      BY <1>1 DEF Acts
    <3>3. lock' = [lock EXCEPT ![n] = a] /\ file' = [file EXCEPT ![n] = act[a].conf] /\ box' = box
      BY <1>5 DEF WriteConfig
    <3>4. lock'[n] = a /\ file'[n] = act[a].conf
      BY <3>3, <2>1, <1>1 DEF SidecarTypes
    <3>5. \A m \in Nodes \ {n} : lock'[m] = lock[m] /\ file'[m] = file[m]
      BY <3>3, <1>1 DEF SidecarTypes
    <3> HIDE DEF s
    <3> QED BY <3>1, <3>2, <3>3, <3>4, <3>5, <2>1, LockMove
  <2> QED BY <2>2, <2>3, <2>4 DEF Base
<1>6. CASE RemoveForStart(a)
  <2>1. act[a].at = "remove" /\ n \in Nodes /\ lock[n] = a /\ file[n] = act[a].conf
    BY <1>6, <1>1 DEF RemoveForStart, Role, UnderLock
  <2>2. act' \in [Coroutines -> Acts] /\ Roles'
    BY <2>1, <1>3, <1>6 DEF RemoveForStart
  <2>3. SidecarTypes'
    <3>1. events' \in Seq(Nodes)
      BY <1>1, <1>6, <2>1, ReportTyped DEF RemoveForStart, Remove
    <3> QED BY <3>1, <2>1, <2>2, <1>1, <1>6 DEF RemoveForStart, Remove, SidecarTypes
  <2>4. \A b \in Coroutines : UnderLock(b)'
    <3> DEFINE s == [act[a] EXCEPT !.at = "run"]
    <3>1. s \in Acts /\ act' = [act EXCEPT ![a] = s]
      BY <1>6, AtMove DEF RemoveForStart, Places
    <3>2. s.at = "run" /\ s.n = n /\ s.conf = act[a].conf
      BY <1>1 DEF Acts
    <3>3. lock' = lock /\ file' = file /\ box' = [box EXCEPT ![n] = Nil]
      BY <1>6 DEF RemoveForStart, Remove
    <3>4. \A m \in Nodes : box[m] = Nil => box'[m] = Nil
      BY <3>3, <1>1 DEF SidecarTypes
    <3>5. lock'[s.n] = a /\ file'[s.n] = s.conf
      BY <3>2, <3>3, <2>1
    <3>6. \A m \in Nodes : lock'[m] = lock[m] /\ file'[m] = file[m] /\ (box[m] = Nil => box'[m] = Nil)
      BY <3>3, <3>4
    <3>7. s.at = "run" /\ n \in Nodes /\ lock[n] = a
      BY <3>2, <2>1
    <3> HIDE DEF s, n
    <3> QED BY <3>1, <3>5, <3>6, <3>7, LockMove
  <2> QED BY <2>2, <2>3, <2>4 DEF Base
<1>7. CASE RunContainer(a)
  <2>1. act[a].at = "run" /\ n \in Nodes /\ lock[n] = a /\ file[n] \in FileConf
    BY <1>7, <1>1 DEF RunContainer, Role, UnderLock
  <2>2. act' \in [Coroutines -> Acts] /\ Roles'
    BY <2>1, <1>4, <1>7 DEF RunContainer
  <2>3. SidecarTypes'
    <3>1. [conf |-> file[n], up |-> TRUE] \in Box
      BY <2>1 DEF Box
    <3> QED BY <3>1, <2>1, <2>2, <1>1, <1>7 DEF RunContainer, SidecarTypes
  <2>4. \A b \in Coroutines : UnderLock(b)'
    <3>1. act' = [act EXCEPT ![a] = After(a)] /\ After(a) \in Acts
      BY <1>2, <1>7 DEF RunContainer, Go
    <3>2. After(a).at \notin {"remove", "run", "wipe"}
      BY <1>1 DEF After, Idle, Acts
    <3>3. file' = file /\ \A m \in Nodes \ {n} : lock'[m] = lock[m] /\ box'[m] = box[m]
      BY <1>1, <1>7 DEF RunContainer, SidecarTypes
    <3> QED BY <3>1, <3>2, <3>3, <2>1, LockMove
  <2> QED BY <2>2, <2>3, <2>4 DEF Base
<1>8. CASE RemoveForStop(a)
  <2>1. act[a].at = "stop" /\ n \in Nodes /\ lock[n] = Nil
    BY <1>8, <1>1 DEF RemoveForStop, Role
  <2>2. act' \in [Coroutines -> Acts] /\ Roles'
    BY <2>1, <1>3, <1>8 DEF RemoveForStop
  <2>3. SidecarTypes'
    <3>1. events' \in Seq(Nodes)
      BY <1>1, <1>8, <2>1, ReportTyped DEF RemoveForStop, Remove
    <3> QED BY <3>1, <2>1, <2>2, <1>1, <1>8 DEF RemoveForStop, Remove, SidecarTypes
  <2>4. \A b \in Coroutines : UnderLock(b)'
    <3> DEFINE s == [act[a] EXCEPT !.at = "wipe"]
    <3>1. s \in Acts /\ act' = [act EXCEPT ![a] = s]
      BY <1>8, AtMove DEF RemoveForStop, Places
    <3>2. s.at = "wipe" /\ s.n = n
      BY <1>1 DEF Acts
    <3>3. lock' = [lock EXCEPT ![n] = a] /\ file' = file /\ box' = [box EXCEPT ![n] = Nil]
      BY <1>8 DEF RemoveForStop, Remove
    <3>4. lock'[n] = a /\ box'[n] = Nil
      BY <3>3, <2>1, <1>1 DEF SidecarTypes
    <3>5. \A m \in Nodes \ {n} : lock'[m] = lock[m] /\ box'[m] = box[m]
      BY <3>3, <1>1 DEF SidecarTypes
    <3>6. lock'[s.n] = a /\ box'[s.n] = Nil
      BY <3>2, <3>4
    <3> HIDE DEF s, n
    <3> QED BY <3>1, <3>2, <3>3, <3>5, <3>6, <2>1, LockMove
  <2> QED BY <2>2, <2>3, <2>4 DEF Base
<1>9. CASE DeleteConfig(a)
  <2>1. act[a].at = "wipe" /\ n \in Nodes /\ lock[n] = a
    BY <1>9, <1>1 DEF DeleteConfig, Role, UnderLock
  <2>2. act' \in [Coroutines -> Acts] /\ Roles'
    BY <2>1, <1>4, <1>9 DEF DeleteConfig
  <2>3. SidecarTypes'
    BY <2>1, <2>2, <1>1, <1>9 DEF DeleteConfig, SidecarTypes
  <2>4. \A b \in Coroutines : UnderLock(b)'
    <3>1. act' = [act EXCEPT ![a] = After(a)] /\ After(a) \in Acts
      BY <1>2, <1>9 DEF DeleteConfig, Go
    <3>2. After(a).at \notin {"remove", "run", "wipe"}
      BY <1>1 DEF After, Idle, Acts
    <3>3. box' = box /\ \A m \in Nodes \ {n} : lock'[m] = lock[m] /\ file'[m] = file[m]
      BY <1>1, <1>9 DEF DeleteConfig, SidecarTypes
    <3> QED BY <3>1, <3>2, <3>3, <2>1, LockMove
  <2> QED BY <2>2, <2>3, <2>4 DEF Base
<1>10. CASE DockerFails(a)
  <2>1. act[a].at \in {"remove", "run", "stop"} /\ n \in Nodes /\ lock[n] \in {Nil, a}
    BY <1>10, <1>1 DEF DockerFails, Role, UnderLock
  <2>2. act' \in [Coroutines -> Acts] /\ Roles'
    BY <2>1, <1>4, <1>10 DEF DockerFails
  <2>3. SidecarTypes'
    BY <2>1, <2>2, <1>1, <1>10 DEF DockerFails, SidecarTypes
  <2>4. \A b \in Coroutines : UnderLock(b)'
    <3>1. act' = [act EXCEPT ![a] = After(a)] /\ After(a) \in Acts
      BY <1>2, <1>10 DEF DockerFails, Go
    <3>2. After(a).at \notin {"remove", "run", "wipe"}
      BY <1>1 DEF After, Idle, Acts
    <3>3. file' = file /\ box' = box /\ \A m \in Nodes \ {n} : lock'[m] = lock[m]
      BY <1>1, <1>10 DEF DockerFails, SidecarTypes
    <3> QED BY <3>1, <3>2, <3>3, <2>1, LockMove
  <2> QED BY <2>2, <2>3, <2>4 DEF Base
<1> QED BY <1>5, <1>6, <1>7, <1>8, <1>9, <1>10 DEF Manager

LEMMA CopyTyped == ASSUME NEW w \in Row, w.port # 0 PROVE Copy(w) \in FileConf
BY DEF Row, FileConf, Copy

LEMMA EnsureMove ==
  ASSUME Base, NEW r \in Requests, NEW n \in Nodes, NEW w \in Row, NEW next \in {"start", "stop", "idle"},
         Ensure(r, n, w, next)
  PROVE  \E s \in Acts : /\ act' = [act EXCEPT ![r] = s]
                         /\ s.n = n /\ s.then = next
                         /\ s.at = IF w.port = 0 THEN "port" ELSE next
                         /\ w.port # 0 => s.conf = Copy(w) /\ s.conf \in FileConf
<1> DEFINE s == [at |-> IF w.port = 0 THEN "port" ELSE next, n |-> n,
                 conf |-> IF w.port = 0 THEN Nil ELSE Copy(w), port |-> 0, then |-> next]
<1>1. act' = [act EXCEPT ![r] = s]
  BY DEF Ensure, Go
<1>2. s \in Acts
  BY CopyTyped DEF Acts, Places, Thens
<1> QED BY <1>1, <1>2, CopyTyped

\* Base when only a request's own record and the rows move.
LEMMA RequestMove ==
  ASSUME Base, NEW r \in Requests, NEW s \in Acts, act' = [act EXCEPT ![r] = s],
         act[Boot].at = "idle",
         s.at \in {"idle", "port", "take", "start", "stop", "drop"},
         s.at \in {"port", "take"} => s.then \in {"start", "stop", "idle"},
         s.then = "drop" => s.at \in {"idle", "stop", "wipe", "drop"},
         s.at = "drop" => s.then = "drop",
         s.at = "take" => s.port \in Ports,
         s.at # "idle" => s.n \in Nodes,
         s.at = "start" => s.conf \in FileConf,
         row' \in [Nodes -> Row \cup {Nil}], UNCHANGED <<file, box, lock, todo, events>>
  PROVE  Base'
<1>1. r \in Coroutines /\ r # Supervisor /\ r # Boot
  BY NilFacts
<1>2. act' \in [Coroutines -> Acts] /\ Roles'
  BY <1>1, BaseMove
<1>3. \A b \in Coroutines : UnderLock(b)'
  BY <1>1, StillLocked
<1>4. SidecarTypes'
  BY <1>2 DEF Base, SidecarTypes
<1> QED BY <1>2, <1>3, <1>4 DEF Base

LEMMA IdleTyped == Idle \in Acts
BY NilFacts DEF Idle, Acts, Places, Thens

LEMMA BaseEdit ==
  ASSUME Base, NEW r \in Requests, NEW n \in Nodes,
         CreateNode(r, n) \/ UpdateNode(r, n) \/ RestartSidecar(r, n) \/ DeleteNode(r, n)
  PROVE  Base'
<1>0. row \in [Nodes -> Row \cup {Nil}] /\ act \in [Coroutines -> Acts]
  BY DEF Base, SidecarTypes
<1>1. ASSUME act[Boot].at = "idle", Rest, row' \in [Nodes -> Row \cup {Nil}],
             NEW w \in Row, NEW next \in {"start", "stop", "idle"}, Ensure(r, n, w, next)
      PROVE  Base'
  <2>1. PICK s \in Acts : /\ act' = [act EXCEPT ![r] = s]
                          /\ s.n = n /\ s.then = next
                          /\ s.at = IF w.port = 0 THEN "port" ELSE next
                          /\ w.port # 0 => s.conf = Copy(w) /\ s.conf \in FileConf
    BY <1>1, EnsureMove
  <2> QED BY <2>1, <1>1, RequestMove DEF Rest
<1>2. CASE CreateNode(r, n)
  <2>1. PICK on \in BOOLEAN, v \in Vers :
               /\ CanServe(r) /\ row' = [row EXCEPT ![n] = [on |-> on, ver |-> v, port |-> 0]]
               /\ Ensure(r, n, [on |-> on, ver |-> v, port |-> 0], IF on THEN "start" ELSE "stop")
               /\ Rest
    BY <1>2 DEF CreateNode
  <2>2. [on |-> on, ver |-> v, port |-> 0] \in Row
    BY DEF Row
  <2> QED BY <2>1, <2>2, <1>0, <1>1 DEF CanServe
<1>3. CASE UpdateNode(r, n)
  <2>1. PICK on \in BOOLEAN, v \in Vers :
               /\ CanServe(r) /\ row[n] # Nil
               /\ row' = [row EXCEPT ![n] = [row[n] EXCEPT !.on = on, !.ver = v]]
               /\ Ensure(r, n, [row[n] EXCEPT !.on = on, !.ver = v],
                         CASE on # row[n].on -> IF on THEN "start" ELSE "stop"
                           [] on /\ v # row[n].ver -> "start"
                           [] OTHER -> "idle")
               /\ Rest
    BY <1>3 DEF UpdateNode
  <2>2. [row[n] EXCEPT !.on = on, !.ver = v] \in Row
    BY <2>1, <1>0 DEF Row
  <2> QED BY <2>1, <2>2, <1>0, <1>1 DEF CanServe
<1>4. CASE RestartSidecar(r, n)
  <2>1. row[n] \in Row /\ CanServe(r) /\ Ensure(r, n, row[n], "start") /\ row' = row /\ Rest
    BY <1>4, <1>0 DEF RestartSidecar
  <2> QED BY <2>1, <1>0, <1>1 DEF CanServe
<1>5. CASE DeleteNode(r, n)
  <2> DEFINE s == [at |-> "stop", n |-> n, conf |-> Nil, port |-> 0, then |-> "drop"]
  <2>1. s \in Acts
    BY DEF Acts, Places, Thens
  <2>2. act' = [act EXCEPT ![r] = s] /\ CanServe(r) /\ row' = row /\ Rest
    BY <1>5 DEF DeleteNode, Go
  <2> QED BY <2>1, <2>2, <1>0, RequestMove DEF CanServe, Rest
<1> QED BY <1>2, <1>3, <1>4, <1>5

LEMMA FreePortsMin ==
  ASSUME NEW n, FreePorts(n) # {} PROVE Min(FreePorts(n)) \in Ports
<1>1. FreePorts(n) \in SUBSET Nat /\ FreePorts(n) \subseteq Ports
  BY NaiveAssumption DEF FreePorts
<1>2. PICK m \in FreePorts(n) : \A k \in FreePorts(n) : m <= k
  BY <1>1, LeastNat
<1> QED BY <1>1, <1>2 DEF Min

LEMMA BaseServe ==
  ASSUME Base, NEW r \in Requests, Serve(r)
  PROVE  Base'
<1>0. /\ row \in [Nodes -> Row \cup {Nil}] /\ act \in [Coroutines -> Acts] /\ RequestRole(r) /\ Role(r)
      /\ r \in Coroutines /\ act[r] \in Acts
  BY NilFacts DEF Base, SidecarTypes, Roles
<1> DEFINE n == act[r].n
<1>1. CASE DropRow(r)
  <2>1. act' = [act EXCEPT ![r] = Idle] /\ row' = [row EXCEPT ![n] = Nil] /\ Rest /\ act[r].at = "drop"
    BY <1>1 DEF DropRow, Go
  <2>2. act[Boot].at = "idle"
    BY <2>1, <1>0 DEF RequestRole
  <2>3. Idle.at = "idle" /\ Idle.then = "done"
    BY DEF Idle
  <2> QED BY <2>1, <2>2, <2>3, <1>0, IdleTyped, RequestMove DEF Rest
<1>2. CASE AllocatePort(r)
  <2>1. act[r].at = "port" /\ UNCHANGED <<row, file, box, lock, todo, events>>
    BY <1>2 DEF AllocatePort
  <2>2. act[Boot].at = "idle" /\ act[r].then \in {"start", "stop", "idle"} /\ n \in Nodes
    BY <2>1, <1>0 DEF RequestRole, Role
  <2>3. CASE FreePorts(n) = {}
    <3>1. act' = [act EXCEPT ![r] = Idle]
      BY <1>2, <2>3 DEF AllocatePort, Go
    <3>2. Idle.at = "idle" /\ Idle.then = "done"
      BY DEF Idle
    <3> QED BY <2>1, <2>2, <3>1, <3>2, <1>0, IdleTyped, RequestMove
  <2>4. CASE FreePorts(n) # {}
    <3> DEFINE s == [act[r] EXCEPT !.at = "take", !.port = Min(FreePorts(n))]
    <3>1. act' = [act EXCEPT ![r] = s]
      BY <1>2, <2>4 DEF AllocatePort, Go
    <3>2. s \in Acts /\ s.at = "take" /\ s.port \in Ports /\ s.n = n /\ s.then = act[r].then
      BY <1>0, <2>4, FreePortsMin DEF Acts, Places
    <3> HIDE DEF s
    <3> QED BY <2>1, <2>2, <3>1, <3>2, <1>0, RequestMove
  <2> QED BY <2>3, <2>4
<1>3. CASE TakePort(r)
  <2>1. act[r].at = "take" /\ UNCHANGED <<file, box, lock, todo, events>>
    BY <1>3 DEF TakePort
  <2>2. act[Boot].at = "idle" /\ act[r].then \in {"start", "stop", "idle"} /\ n \in Nodes /\ act[r].port \in Ports
    BY <2>1, <1>0 DEF RequestRole, Role
  <2>3. CASE row[n] = Nil
    <3>1. act' = [act EXCEPT ![r] = Idle] /\ row' = row
      BY <1>3, <2>3 DEF TakePort, Go
    <3>2. Idle.at = "idle" /\ Idle.then = "done"
      BY DEF Idle
    <3> QED BY <2>1, <2>2, <3>1, <3>2, <1>0, IdleTyped, RequestMove
  <2>4. CASE row[n] # Nil
    <3> DEFINE w == [row[n] EXCEPT !.port = act[r].port]
               s == [act[r] EXCEPT !.at = act[r].then, !.conf = Copy(w), !.port = 0]
    <3>1. act' = [act EXCEPT ![r] = s] /\ row' = [row EXCEPT ![n] = w]
      BY <1>3, <2>4 DEF TakePort, Go
    <3>2. w \in Row /\ w.port # 0
      BY <1>0, <2>2, <2>4, NilFacts DEF Row
    <3>3. Copy(w) \in FileConf
      BY <3>2, CopyTyped
    <3> HIDE DEF w
    <3>4. s \in Acts /\ s.at = act[r].then /\ s.conf \in FileConf /\ s.n = n /\ s.then = act[r].then
      BY <1>0, <2>2, <3>3 DEF Acts, Places
    <3>5. row' \in [Nodes -> Row \cup {Nil}]
      BY <3>1, <3>2, <1>0
    <3> HIDE DEF s
    <3> QED BY <2>1, <2>2, <3>1, <3>4, <3>5, <1>0, RequestMove
  <2> QED BY <2>3, <2>4
<1> QED BY <1>1, <1>2, <1>3 DEF Serve

LEMMA HeadTyped ==
  ASSUME SidecarTypes, events # <<>>
  PROVE  Head(events) \in Nodes /\ Tail(events) \in Seq(Nodes)
BY DEF SidecarTypes

LEMMA BaseSupervise == ASSUME Base, Supervise PROVE Base'
<1>0. /\ act \in [Coroutines -> Acts] /\ act[Supervisor] \in Acts /\ Supervisor \in Coroutines
      /\ Supervisor \notin Requests /\ Supervisor # Boot /\ SidecarTypes /\ Roles
      /\ Idle.at = "idle" /\ Idle.then = "done"
  BY NilFacts DEF Base, SidecarTypes, Idle
<1>1. CASE HandleEvent
  <2>1. events # <<>> /\ events' = Tail(events) /\ UNCHANGED <<row, file, box, lock, todo>>
    BY <1>1 DEF HandleEvent
  <2>2. Head(events) \in Nodes /\ Tail(events) \in Seq(Nodes)
    BY <2>1, <1>0, HeadTyped
  <2>3. CASE act' = act
    <3>1. Roles'
      BY <2>3, <1>0 DEF Roles, RequestRole, Role
    <3>2. \A b \in Coroutines : UnderLock(b)'
      BY <2>1, <2>3 DEF Base, UnderLock
    <3> QED BY <2>1, <2>2, <2>3, <3>1, <3>2, <1>0 DEF Base, SidecarTypes
  <2>4. CASE act' # act
    <3> DEFINE s == [Idle EXCEPT !.at = "backoff", !.n = Head(events)]
    <3>1. act' = [act EXCEPT ![Supervisor] = s]
      BY <2>4, <1>1 DEF HandleEvent, Go
    <3>2. s \in Acts /\ s.at = "backoff" /\ s.then = "done" /\ s.n \in Nodes
      BY <2>2, IdleTyped DEF Acts, Places, Idle
    <3> HIDE DEF s
    <3>3. act' \in [Coroutines -> Acts] /\ Roles'
      BY <3>1, <3>2, <1>0, BaseMove
    <3>4. \A b \in Coroutines : UnderLock(b)'
      BY <3>1, <3>2, <2>1, <1>0, StillLocked
    <3> QED BY <2>1, <2>2, <3>3, <3>4, <1>0 DEF Base, SidecarTypes
  <2> QED BY <2>3, <2>4
<1>2. CASE RestartNode
  <2> DEFINE n == act[Supervisor].n
  <2>1. act[Supervisor].at = "backoff" /\ UNCHANGED <<row, file, box, lock, todo, events>>
    BY <1>2 DEF RestartNode
  <2>2. n \in Nodes
    BY <2>1, <1>0 DEF Roles, Role
  <2>3. \E s \in Acts : /\ act' = [act EXCEPT ![Supervisor] = s]
                        /\ s.at \in {"idle", "start"} /\ s.then = "done"
                        /\ s.at = "start" => s.n \in Nodes /\ s.conf \in FileConf
    <3>1. CASE row[n] # Nil /\ row[n].on /\ row[n].port # 0
      <4>1. Copy(row[n]) \in FileConf
        BY <3>1, <2>2, <1>0, CopyTyped DEF SidecarTypes
      <4> DEFINE s == [act[Supervisor] EXCEPT !.at = "start", !.conf = Copy(row[n])]
      <4>2. act' = [act EXCEPT ![Supervisor] = s]
        BY <3>1, <1>2 DEF RestartNode, Go
      <4>3. s \in Acts /\ s.at = "start" /\ s.then = "done" /\ s.n = n /\ s.conf \in FileConf
        BY <4>1, <1>0 DEF Acts, Places, Roles
      <4> QED BY <4>2, <4>3, <2>2
    <3>2. CASE ~(row[n] # Nil /\ row[n].on /\ row[n].port # 0)
      BY <3>2, <1>2, <1>0, IdleTyped DEF RestartNode, Go
    <3> QED BY <3>1, <3>2
  <2>4. PICK s \in Acts : /\ act' = [act EXCEPT ![Supervisor] = s]
                          /\ s.at \in {"idle", "start"} /\ s.then = "done"
                          /\ s.at = "start" => s.n \in Nodes /\ s.conf \in FileConf
    BY <2>3
  <2>5. act' \in [Coroutines -> Acts] /\ Roles'
    BY <2>4, <1>0, BaseMove
  <2>6. \A b \in Coroutines : UnderLock(b)'
    BY <2>4, <2>1, <1>0, StillLocked
  <2> QED BY <2>1, <2>5, <2>6, <1>0 DEF Base, SidecarTypes
<1>3. CASE Reconnect
  BY <1>3 DEF Reconnect, Base, SidecarTypes, Roles, RequestRole, Role, UnderLock
<1> QED BY <1>1, <1>2, <1>3 DEF Supervise

LEMMA BaseRest ==
  ASSUME Base, UNCHANGED <<row, file, box, lock, act, todo, events>>
  PROVE  Base'
BY DEF Base, SidecarTypes, Roles, RequestRole, Role, UnderLock

\* The environment: rows dropped, the stream, deaths and restarts of a container.
LEMMA BaseOutside ==
  ASSUME Base,
         \/ \E S \in SUBSET Nodes : DropRows(S)
         \/ StreamBreaks
         \/ \E n \in Nodes : Forget(n) \/ SidecarDies(n) \/ DockerRestarts(n)
  PROVE  Base'
<1>0. SidecarTypes /\ Roles /\ \A b \in Coroutines : UnderLock(b) /\ Role(b)
  BY DEF Base, Roles
<1>1. CASE \E S \in SUBSET Nodes : DropRows(S)
  <2>1. UNCHANGED <<file, box, lock, act, todo, events>> /\ row' \in [Nodes -> Row \cup {Nil}]
    BY <1>0, <1>1 DEF DropRows, SidecarTypes
  <2> QED BY <2>1 DEF Base, SidecarTypes, Roles, RequestRole, Role, UnderLock
<1>2. CASE StreamBreaks
  BY <1>2, BaseRest DEF StreamBreaks
<1>3. ASSUME NEW n \in Nodes, Forget(n) PROVE Base'
  BY <1>3, BaseRest DEF Forget
<1>4. ASSUME NEW n \in Nodes, SidecarDies(n) \/ DockerRestarts(n) PROVE Base'
  <2>1. UNCHANGED <<row, file, lock, act, todo>> /\ box[n] # Nil
    BY <1>4 DEF SidecarDies, DockerRestarts
  <2>2. events' \in Seq(Nodes)
    BY <1>0, <1>4, ReportTyped DEF SidecarDies, DockerRestarts
  <2>3. box' \in [Nodes -> Box \cup {Nil}] /\ \A m \in Nodes : box[m] = Nil => box'[m] = Nil
    <3>1. box[n] \in Box /\ file[n] \in FileConf \cup {Nil} /\ box \in [Nodes -> Box \cup {Nil}]
      BY <1>0, <2>1 DEF SidecarTypes
    <3>2. CASE SidecarDies(n)
      <4>1. box' = [box EXCEPT ![n] = [box[n] EXCEPT !.up = FALSE]]
        BY <3>2 DEF SidecarDies
      <4>2. [box[n] EXCEPT !.up = FALSE] \in Box
        BY <3>1 DEF Box
      <4> QED BY <4>1, <4>2, <3>1, <2>1
    <3>3. CASE DockerRestarts(n)
      <4> DEFINE x == [conf |-> IF file[n] = Nil THEN box[n].conf ELSE file[n], up |-> TRUE]
      <4>1. box' = [box EXCEPT ![n] = x]
        BY <3>3 DEF DockerRestarts
      <4>2. x \in Box
        BY <3>1 DEF Box
      <4> HIDE DEF x
      <4> QED BY <4>1, <4>2, <3>1, <2>1
    <3> QED BY <3>2, <3>3, <1>4
  <2>4. \A b \in Coroutines : UnderLock(b)'
    BY <2>1, <2>3, <1>0 DEF UnderLock, Role
  <2> QED BY <2>1, <2>2, <2>3, <2>4, <1>0 DEF Base, SidecarTypes, Roles, RequestRole, Role
<1> QED BY <1>1, <1>2, <1>3, <1>4

LEMMA BaseRestart == ASSUME Base, Restart PROVE Base'
<1>0. SidecarTypes
  BY DEF Base
<1> DEFINE s(a) == IF a = Boot THEN [Idle EXCEPT !.at = "list"] ELSE Idle
<1>1. act' = [a \in Coroutines |-> s(a)]
  BY DEF Restart
<1>2. \A a \in Coroutines : s(a) \in Acts /\ s(a).at = (IF a = Boot THEN "list" ELSE "idle") /\ s(a).then = "done"
  BY IdleTyped DEF Idle, Acts, Places
<1> HIDE DEF s
<1>3. /\ act' \in [Coroutines -> Acts]
      /\ \A a \in Coroutines : act'[a].at = (IF a = Boot THEN "list" ELSE "idle") /\ act'[a].then = "done"
  BY <1>1, <1>2
<1>4. Roles'
  BY <1>3, NilFacts DEF Roles, Role, RequestRole
<1>5. \A b \in Coroutines : UnderLock(b)'
  BY <1>3 DEF UnderLock
<1>6. todo' \in [stop : SUBSET Nodes, start : [Nodes -> FileConf \cup {Nil}]]
  <2>1. \A n \in Nodes : row[n] # Nil /\ row[n].port # 0 => Copy(row[n]) \in FileConf
    BY <1>0, CopyTyped DEF SidecarTypes
  <2> QED BY <2>1 DEF Restart
<1>7. SidecarTypes'
  <2>1. events' = <<>> /\ lock' = [n \in Nodes |-> Nil] /\ UNCHANGED <<row, file, box>>
    BY DEF Restart
  <2>2. events' \in Seq(Nodes) /\ lock' \in [Nodes -> Coroutines \cup {Nil}]
    BY <2>1
  <2> QED BY <1>0, <1>3, <1>6, <2>1, <2>2 DEF SidecarTypes
<1> QED BY <1>4, <1>5, <1>7 DEF Base

\* The boot turns to s.
SyncTo(s) ==
  /\ act' = [act EXCEPT ![Boot] = s]
  /\ s.at \in {"idle", "next", "stop", "start"} /\ s.then = "done"
  /\ s.at \in {"start", "stop"} => s.n \in Nodes
  /\ s.at = "start" => s.conf \in FileConf

LEMMA BaseSync == ASSUME Base, Sync PROVE Base'
<1>0. /\ SidecarTypes /\ Roles /\ Boot \in Coroutines /\ Boot \notin Requests /\ Boot # Supervisor
      /\ act[Boot] \in Acts /\ act \in [Coroutines -> Acts]
      /\ Idle.at = "idle" /\ Idle.then = "done"
  BY NilFacts DEF Base, SidecarTypes, Idle
<1>1. act[Boot].at \in {"list", "next"} /\ UNCHANGED <<row, file, box, lock, events>>
  BY DEF Sync, ListSidecars, SyncNext
<1>2. \E s \in Acts : SyncTo(s)
  <2>1. CASE ListSidecars
    <3>1. CASE At(Boot, "next")
      <4>1. [act[Boot] EXCEPT !.at = "next"] \in Acts /\ act' = [act EXCEPT ![Boot] = [act[Boot] EXCEPT !.at = "next"]]
        BY <3>1, <1>0, AtMove DEF Places
      <4>2. [act[Boot] EXCEPT !.at = "next"].at = "next" /\ [act[Boot] EXCEPT !.at = "next"].then = "done"
        BY <1>0 DEF Acts, Roles
      <4> QED BY <4>1, <4>2 DEF SyncTo
    <3>2. CASE Go(Boot, Idle)
      BY <3>2, <1>0, IdleTyped DEF Go, SyncTo
    <3> QED BY <2>1, <3>1, <3>2 DEF ListSidecars
  <2>2. CASE SyncNext
    <3>1. ASSUME NEW n \in Nodes, Go(Boot, [Idle EXCEPT !.at = "stop", !.n = n])
          PROVE  \E s \in Acts : SyncTo(s)
      <4> DEFINE s == [Idle EXCEPT !.at = "stop", !.n = n]
      <4>1. s \in Acts /\ s.at = "stop" /\ s.then = "done" /\ s.n = n
        BY IdleTyped DEF Acts, Idle, Places
      <4> QED BY <4>1, <3>1 DEF Go, SyncTo
    <3>2. ASSUME NEW n \in Nodes, todo.start[n] # Nil,
                 Go(Boot, [Idle EXCEPT !.at = "start", !.n = n, !.conf = todo.start[n]])
          PROVE  \E s \in Acts : SyncTo(s)
      <4> DEFINE s == [Idle EXCEPT !.at = "start", !.n = n, !.conf = todo.start[n]]
      <4>1. todo.start[n] \in FileConf
        BY <1>0, <3>2 DEF SidecarTypes
      <4>2. s \in Acts /\ s.at = "start" /\ s.then = "done" /\ s.n = n /\ s.conf \in FileConf
        BY <4>1, IdleTyped DEF Acts, Idle, Places
      <4>3. act' = [act EXCEPT ![Boot] = s]
        BY <3>2 DEF Go
      <4> HIDE DEF s
      <4> QED BY <4>2, <4>3 DEF SyncTo
    <3>3. CASE Go(Boot, Idle)
      BY <3>3, <1>0, IdleTyped DEF Go, SyncTo
    <3>4. todo.stop \subseteq Nodes
      BY <1>0 DEF SidecarTypes
    <3>5. \/ \E n \in Nodes : Go(Boot, [Idle EXCEPT !.at = "stop", !.n = n])
          \/ \E n \in Nodes : /\ todo.start[n] # Nil
                             /\ Go(Boot, [Idle EXCEPT !.at = "start", !.n = n, !.conf = todo.start[n]])
          \/ Go(Boot, Idle)
      <4>1. CASE todo.stop # {}
        BY <2>2, <3>4, <4>1 DEF SyncNext
      <4>2. CASE todo.stop = {} /\ \E n \in Nodes : todo.start[n] # Nil
        BY <2>2, <4>2 DEF SyncNext
      <4>3. CASE todo.stop = {} /\ ~\E n \in Nodes : todo.start[n] # Nil
        BY <2>2, <4>3 DEF SyncNext
      <4> QED BY <4>1, <4>2, <4>3
    <3>6. CASE \E n \in Nodes : Go(Boot, [Idle EXCEPT !.at = "stop", !.n = n])
      <4>1. PICK n \in Nodes : Go(Boot, [Idle EXCEPT !.at = "stop", !.n = n])
        BY <3>6
      <4> QED BY <4>1, <3>1
    <3>7. CASE \E n \in Nodes : /\ todo.start[n] # Nil
                               /\ Go(Boot, [Idle EXCEPT !.at = "start", !.n = n, !.conf = todo.start[n]])
      <4>1. PICK n \in Nodes : /\ todo.start[n] # Nil
                             /\ Go(Boot, [Idle EXCEPT !.at = "start", !.n = n, !.conf = todo.start[n]])
        BY <3>7
      <4> QED BY <4>1, <3>2
    <3> QED BY <3>3, <3>5, <3>6, <3>7
  <2> QED BY <2>1, <2>2 DEF Sync
<1>3. PICK s \in Acts : SyncTo(s)
  BY <1>2
<1>4. act' \in [Coroutines -> Acts] /\ Roles'
  BY <1>0, <1>1, <1>3, BaseMove DEF SyncTo
<1>5. \A b \in Coroutines : UnderLock(b)'
  BY <1>0, <1>1, <1>3, StillLocked DEF SyncTo
<1>6. todo' \in [stop : SUBSET Nodes, start : [Nodes -> FileConf \cup {Nil}]]
  <2>1. todo \in [stop : SUBSET Nodes, start : [Nodes -> FileConf \cup {Nil}]]
    BY <1>0 DEF SidecarTypes
  <2>2. CASE ListSidecars
    BY <2>1, <2>2 DEF ListSidecars
  <2>3. CASE SyncNext
    <3>1. \/ todo' = todo
          \/ \E n \in Nodes : todo' = [todo EXCEPT !.stop = @ \ {n}]
          \/ \E n \in Nodes : todo' = [todo EXCEPT !.start[n] = Nil]
      <4>1. todo.stop \subseteq Nodes
        BY <2>1
      <4> QED BY <4>1, <2>3 DEF SyncNext
    <3> QED BY <2>1, <3>1
  <2> QED BY <2>2, <2>3 DEF Sync
<1> QED BY <1>0, <1>1, <1>4, <1>5, <1>6 DEF Base, SidecarTypes

LEMMA BaseStep == ASSUME Base, [NaiveNext]_naiveVars PROVE Base'
<1>1. CASE UNCHANGED naiveVars
  BY <1>1, BaseRest DEF naiveVars
<1>2. CASE NaiveNext
  BY <1>2, BaseManager, BaseServe, BaseEdit, BaseSupervise, BaseOutside, BaseSync, BaseRestart DEF NaiveNext
<1> QED BY <1>1, <1>2

-----------------------------------------------------------------------------
(* A node that is clean: nothing raced on it, no call of Docker failed. *)

IsStarting(a, n) == act[a].n = n /\ act[a].at \in {"start", "remove", "run"}
IsStopping(a, n) == act[a].n = n /\ act[a].at \in {"stop", "wipe"} /\ act[a].then # "drop"
IsAllocating(r, n) == act[r].n = n /\ act[r].at \in {"port", "take"}

\* A start carries the row as it is; a stop is for a row that wants no sidecar.
CallsFollow(n) ==
  \A a \in Coroutines : /\ IsStarting(a, n) => WantsSidecar(n) /\ act[a].conf = Copy(row[n])
                        /\ IsStopping(a, n) => ~WantsSidecar(n)

\* One request at a time, and nobody at all beside a deletion.
OneAtATime(n) ==
  \A r \in Requests, a \in Coroutines :
     a # r /\ WorksOn(r, n) /\ Holds(a, n) => a \notin Requests /\ act[r].then # "drop"

AllocationsFollow(n) ==
  \A r \in Requests : IsAllocating(r, n) =>
    /\ row[n] # Nil /\ row[n].port = 0
    /\ act[r].then = "start" => row[n].on
    /\ act[r].then \in {"stop", "idle"} => ~row[n].on
    /\ act[r].then = "idle" => box[n] = Nil

DropsFollow(n) == \A r \in Requests : act[r].n = n /\ act[r].at = "drop" => box[n] = Nil

\* What the boot has still to do fits the rows.
BootFollows(n) ==
  act[Boot].at # "idle" =>
    /\ n \in todo.stop => ~WantsSidecar(n)
    /\ todo.start[n] # Nil => WantsSidecar(n) /\ todo.start[n] = Copy(row[n])
    /\ act[Boot].at = "list" /\ WantsSidecar(n) => todo.start[n] # Nil

Awaits(n) == act[Boot].at # "idle" /\ (act[Boot].at = "list" \/ n \in todo.stop \/ todo.start[n] # Nil)

\* The sidecar is what the row asks for, and what the file says.
Fits(n) ==
  /\ IF WantsSidecar(n) THEN box[n] # Nil /\ box[n].conf = Copy(row[n]) ELSE box[n] = Nil
  /\ box[n] # Nil => file[n] = box[n].conf

RestFits(n) == (\A a \in Coroutines : ~Holds(a, n)) /\ ~Awaits(n) => Fits(n)

CleanNode(n) ==
  /\ CallsFollow(n) /\ OneAtATime(n) /\ AllocationsFollow(n) /\ DropsFollow(n)
  /\ BootFollows(n) /\ RestFits(n)

\* Between two nodes the boot holds none.
BootBetween == act[Boot].at \in {"list", "next"} => act[Boot].n = Nil

SidecarInv == Base /\ BootBetween /\ \A n \in Nodes \ (raced \cup failed) : CleanNode(n)

LEMMA HoldsFacts ==
  ASSUME Base, NEW n \in Nodes, NEW a \in Coroutines
  PROVE  /\ IsStarting(a, n) => Holds(a, n)
         /\ IsStopping(a, n) => Holds(a, n)
         /\ a \in Requests => /\ IsAllocating(a, n) => Holds(a, n)
                              /\ act[a].n = n /\ act[a].at = "drop" => Holds(a, n)
                              /\ WorksOn(a, n) <=> Holds(a, n)
BY DEF IsStarting, IsStopping, IsAllocating, Holds, WorksOn, Base, Roles, RequestRole

\* A step that does not concern n: its row, its file and its place in the boot's lists stay,
\* its container runs on, and whoever moves neither held n nor holds it now.
LEMMA Elsewhere ==
  ASSUME Base, Base', NEW n \in Nodes, CleanNode(n),
         row'[n] = row[n], file'[n] = file[n],
         \/ box'[n] = box[n]
         \/ box[n] # Nil /\ box'[n] # Nil /\ (file[n] = box[n].conf => box'[n].conf = box[n].conf),
         n \in todo'.stop <=> n \in todo.stop, todo'.start[n] = todo.start[n],
         act'[Boot].at = "idle" <=> act[Boot].at = "idle",
         act'[Boot].at = "list" <=> act[Boot].at = "list",
         \A a \in Coroutines : act'[a] = act[a] \/ (~Holds(a, n) /\ ~Holds(a, n)')
  PROVE  CleanNode(n)'
<1>1. WantsSidecar(n)' <=> WantsSidecar(n)
  BY DEF WantsSidecar
<1>2. Copy(row[n])' = Copy(row[n])
  BY DEF Copy
<1>3. \A a \in Coroutines : Holds(a, n)' <=> Holds(a, n)
  BY DEF Holds, WorksOn
<1>4. \A r \in Requests : (WorksOn(r, n)' <=> Holds(r, n)) /\ (WorksOn(r, n) <=> Holds(r, n)) /\ r \in Coroutines
  BY <1>3, HoldsFacts, NilFacts DEF WorksOn, Holds, Base, Roles, RequestRole
<1>5. \A a \in Coroutines : Holds(a, n) => act'[a] = act[a]
  OBVIOUS
<1>6. box'[n] = Nil <=> box[n] = Nil
  OBVIOUS
<1>7. CallsFollow(n)'
  BY <1>1, <1>2, <1>3, <1>5 DEF CallsFollow, IsStarting, IsStopping, Holds, WorksOn, CleanNode
<1>8. OneAtATime(n)'
  <2> SUFFICES ASSUME NEW r \in Requests, NEW a \in Coroutines, a # r, WorksOn(r, n)', Holds(a, n)'
               PROVE  a \notin Requests /\ act'[r].then # "drop"
    BY DEF OneAtATime
  <2>1. WorksOn(r, n) /\ Holds(a, n) /\ act'[r] = act[r]
    BY <1>3, <1>4, <1>5
  <2> QED BY <2>1 DEF OneAtATime, CleanNode
<1>9. AllocationsFollow(n)'
  BY <1>4, <1>5, <1>6 DEF AllocationsFollow, IsAllocating, CleanNode, Holds, WorksOn
<1>10. DropsFollow(n)'
  BY <1>4, <1>5, <1>6 DEF DropsFollow, CleanNode, Holds, WorksOn
<1>11. BootFollows(n)'
  BY <1>1, <1>2 DEF BootFollows, CleanNode
<1>12. RestFits(n)'
  <2> SUFFICES ASSUME (\A a \in Coroutines : ~Holds(a, n)'), ~Awaits(n)' PROVE Fits(n)'
    BY DEF RestFits
  <2>1. ~Awaits(n)
    BY DEF Awaits
  <2>2. Fits(n)
    BY <2>1, <1>3 DEF CleanNode, RestFits
  <2> QED BY <2>2, <1>1, <1>2, <1>6 DEF Fits
<1> QED BY <1>7, <1>8, <1>9, <1>10, <1>11, <1>12 DEF CleanNode

\* Coroutine a moves from a place that does not hold n to one that does not.
LEMMA MoveElsewhere ==
  ASSUME Base, Base', NEW n \in Nodes, CleanNode(n), NEW a \in Coroutines, NEW s \in Acts,
         act' = [act EXCEPT ![a] = s],
         act[a].n # n \/ act[a].at \in {"idle", "backoff"}, s.n # n \/ s.at \in {"idle", "backoff"},
         a = Boot => (s.at = "idle" <=> act[a].at = "idle") /\ (s.at = "list" <=> act[a].at = "list"),
         row'[n] = row[n], file'[n] = file[n], box'[n] = box[n],
         n \in todo'.stop <=> n \in todo.stop, todo'.start[n] = todo.start[n]
  PROVE  CleanNode(n)'
<1>1. act \in [Coroutines -> Acts] /\ Boot \in Coroutines
  BY NilFacts DEF Base, SidecarTypes
<1>2. act'[a] = s /\ \A b \in Coroutines : b # a => act'[b] = act[b]
  BY <1>1
<1>3. ~Holds(a, n) /\ ~Holds(a, n)'
  BY <1>2 DEF Holds, WorksOn
<1>4. /\ act'[Boot].at = "idle" <=> act[Boot].at = "idle"
      /\ act'[Boot].at = "list" <=> act[Boot].at = "list"
  BY <1>1, <1>2
<1> QED BY <1>2, <1>3, <1>4, Elsewhere

\* The parts of CleanNode when a holds n before and after, and the row stays.
LEMMA HeldByOne ==
  ASSUME Base, Base', NEW n \in Nodes, CleanNode(n), NEW a \in Coroutines, NEW s \in Acts,
         act' = [act EXCEPT ![a] = s],
         Holds(a, n), s.n = n, s.then = act[a].then, UNCHANGED <<row, todo>>,
         s.at \in {"start", "remove", "run"} => IsStarting(a, n) /\ s.conf = act[a].conf,
         s.at \in {"stop", "wipe"} => act[a].at \in {"stop", "wipe"},
         s.at \notin {"idle", "list", "next", "backoff", "port", "take", "drop"},
         act[a].at \notin {"list", "next"},
         box[n] = Nil => box'[n] = Nil
  PROVE  CleanNode(n)'
<1>1. act \in [Coroutines -> Acts] /\ Boot \in Coroutines
  BY NilFacts DEF Base, SidecarTypes
<1>2. act'[a] = s /\ \A b \in Coroutines : b # a => act'[b] = act[b]
  BY <1>1
<1>3. (WantsSidecar(n)' <=> WantsSidecar(n)) /\ Copy(row[n])' = Copy(row[n])
  BY DEF WantsSidecar, Copy
<1>4. \A b \in Coroutines : Holds(b, n)' <=> Holds(b, n)
  BY <1>2 DEF Holds, WorksOn
<1>5. \A r \in Requests : (WorksOn(r, n)' <=> Holds(r, n)) /\ (WorksOn(r, n) <=> Holds(r, n)) /\ r \in Coroutines
  BY <1>2, HoldsFacts, NilFacts DEF WorksOn, Holds, Base, Roles, RequestRole
<1>6. CallsFollow(n)'
  <2> SUFFICES ASSUME NEW b \in Coroutines
               PROVE  /\ IsStarting(b, n)' => WantsSidecar(n) /\ act'[b].conf = Copy(row[n])
                      /\ IsStopping(b, n)' => ~WantsSidecar(n)
    BY <1>3 DEF CallsFollow
  <2>1. /\ IsStarting(b, n) => WantsSidecar(n) /\ act[b].conf = Copy(row[n])
        /\ IsStopping(b, n) => ~WantsSidecar(n)
    BY DEF CleanNode, CallsFollow
  <2>2. CASE b = a
    <3>1. IsStopping(b, n)' => IsStopping(b, n)
      BY <1>2, <2>2 DEF IsStopping, Holds, WorksOn
    <3> QED BY <1>2, <2>1, <2>2, <3>1 DEF IsStarting
  <2>3. CASE b # a
    BY <1>2, <2>1, <2>3 DEF IsStarting, IsStopping
  <2> QED BY <2>2, <2>3
<1>7. OneAtATime(n)'
  <2> SUFFICES ASSUME NEW r \in Requests, NEW b \in Coroutines, b # r, WorksOn(r, n)', Holds(b, n)'
               PROVE  b \notin Requests /\ act'[r].then # "drop"
    BY DEF OneAtATime
  <2>1. WorksOn(r, n) /\ Holds(b, n) /\ act'[r].then = act[r].then
    BY <1>2, <1>4, <1>5
  <2> QED BY <2>1 DEF OneAtATime, CleanNode
<1>8. AllocationsFollow(n)'
  BY <1>2, <1>5 DEF AllocationsFollow, IsAllocating, CleanNode
<1>9. DropsFollow(n)'
  BY <1>2, <1>5 DEF DropsFollow, CleanNode
<1>10. BootFollows(n)'
  BY <1>1, <1>2, <1>3 DEF BootFollows, CleanNode, Holds, WorksOn
<1>11. RestFits(n)'
  BY <1>4 DEF RestFits
<1> QED BY <1>6, <1>7, <1>8, <1>9, <1>10, <1>11 DEF CleanNode

\* The parts of CleanNode when a lets go of n, which now fits its row.
LEMMA LetGo ==
  ASSUME Base, Base', NEW n \in Nodes, CleanNode(n), NEW a \in Coroutines, NEW s \in Acts,
         act' = [act EXCEPT ![a] = s],
         Holds(a, n), act[a].at \notin {"list", "next"}, s.n # n \/ s.at = "idle",
         a = Boot => s.at \notin {"idle", "list"},
         UNCHANGED <<row, todo>>,
         \A r \in Requests : IsAllocating(r, n) => act[r].then # "idle" \/ box'[n] = Nil,
         \A r \in Requests : r # a => ~(act[r].n = n /\ act[r].at = "drop"),
         Fits(n)'
  PROVE  CleanNode(n)'
<1>1. act \in [Coroutines -> Acts] /\ Boot \in Coroutines
  BY NilFacts DEF Base, SidecarTypes
<1>2. act'[a] = s /\ \A b \in Coroutines : b # a => act'[b] = act[b]
  BY <1>1
<1>3. (WantsSidecar(n)' <=> WantsSidecar(n)) /\ Copy(row[n])' = Copy(row[n])
  BY DEF WantsSidecar, Copy
<1>4. ~Holds(a, n)' /\ ~WorksOn(a, n)'
  BY <1>2 DEF Holds, WorksOn
<1>5. \A r \in Requests : r \in Coroutines
  BY NilFacts
<1>6. CallsFollow(n)'
  BY <1>2, <1>3, <1>4 DEF CallsFollow, IsStarting, IsStopping, CleanNode, WorksOn
<1>7. OneAtATime(n)'
  BY <1>2, <1>4, <1>5 DEF OneAtATime, CleanNode, Holds, WorksOn
<1>8. AllocationsFollow(n)'
  BY <1>2, <1>4, <1>5 DEF AllocationsFollow, IsAllocating, CleanNode, WorksOn
<1>9. DropsFollow(n)'
  BY <1>2, <1>4, <1>5 DEF DropsFollow, WorksOn
<1>10. BootFollows(n)'
  BY <1>1, <1>2, <1>3 DEF BootFollows, CleanNode, Holds, WorksOn
<1>11. RestFits(n)'
  BY DEF RestFits
<1> QED BY <1>6, <1>7, <1>8, <1>9, <1>10, <1>11 DEF CleanNode

\* A row that asks for no sidecar, or its deletion, meets no start; an allocation meets none.
LEMMA Excluded ==
  ASSUME Base, NEW n \in Nodes, CleanNode(n), NEW a \in Coroutines, IsStarting(a, n)
  PROVE  /\ WantsSidecar(n)
         /\ \A r \in Requests : ~IsAllocating(r, n)
         /\ \A r \in Requests : ~(act[r].n = n /\ act[r].at = "drop")
<1>1. WantsSidecar(n)
  BY DEF CleanNode, CallsFollow
<1>2. \A r \in Requests : ~IsAllocating(r, n)
  BY <1>1 DEF CleanNode, AllocationsFollow, WantsSidecar
<1>3. ASSUME NEW r \in Requests, act[r].n = n, act[r].at = "drop" PROVE FALSE
  <2>1. WorksOn(r, n) /\ act[r].then = "drop"
    BY <1>3 DEF WorksOn, Base, Roles, RequestRole
  <2>2. a # r /\ Holds(a, n)
    BY <1>3, HoldsFacts DEF IsStarting
  <2> QED BY <2>1, <2>2 DEF CleanNode, OneAtATime
<1> QED BY <1>1, <1>2, <1>3

LEMMA CleanManager ==
  ASSUME Base, Base', NEW a \in Coroutines, Manager(a) \/ DockerFails(a),
         NEW n \in Nodes \ (raced' \cup failed'), n \notin raced \cup failed => CleanNode(n)
  PROVE  CleanNode(n)'
<1> DEFINE m == act[a].n
<1>0. /\ act[a] \in Acts /\ act \in [Coroutines -> Acts] /\ SidecarTypes /\ Role(a) /\ UnderLock(a)
      /\ (a \in Requests => RequestRole(a)) /\ UNCHANGED <<row, todo>>
      /\ After(a) \in Acts /\ act[a].at \in {"start", "remove", "run", "stop", "wipe"}
  BY AfterFacts DEF Base, SidecarTypes, Roles, Manager, DockerFails, WriteConfig, RemoveForStart,
                    RunContainer, RemoveForStop, DeleteConfig
<1>1. CleanNode(n) /\ (m = n => ~DockerFails(a))
  <2>1. raced' = raced /\ (failed' = failed \/ (DockerFails(a) /\ failed' = failed \cup {m}))
    BY DEF Manager, DockerFails, WriteConfig, RemoveForStart, RunContainer, RemoveForStop,
           DeleteConfig, history
  <2>2. m \notin failed' => ~DockerFails(a)
    BY DEF DockerFails
  <2> QED BY <2>1, <2>2
<1>2. \/ After(a).n = m /\ After(a).at = "drop" /\ a \in Requests /\ act[a].then = "drop"
      \/ After(a).n = Nil /\ After(a).at = (IF a = Boot THEN "next" ELSE "idle")
            /\ (a \in Requests => act[a].then # "drop")
  BY <1>0, NilFacts DEF After, Idle, Acts, Base, Roles
<1>3. Nil \notin Nodes /\ m \in Nodes
  BY <1>0, NilFacts DEF Role
<1>4. CASE m # n
  <2>1. \E s \in Acts : /\ act' = [act EXCEPT ![a] = s] /\ s.n # n
                        /\ a = Boot => s.at \notin {"idle", "list"}
    <3>1. ASSUME NEW l \in {"remove", "run", "wipe"}, At(a, l)
          PROVE  \E s \in Acts : /\ act' = [act EXCEPT ![a] = s] /\ s.n # n
                                 /\ a = Boot => s.at \notin {"idle", "list"}
      <4>0. l \in Places
        BY DEF Places
      <4>1. [act[a] EXCEPT !.at = l] \in Acts /\ act' = [act EXCEPT ![a] = [act[a] EXCEPT !.at = l]]
        BY <3>1, <4>0, AtMove
      <4>2. [act[a] EXCEPT !.at = l].n = m /\ [act[a] EXCEPT !.at = l].at = l
        BY <1>0 DEF Acts
      <4> QED BY <4>1, <4>2, <1>4
    <3>2. CASE Go(a, After(a))
      BY <3>2, <1>0, <1>2, <1>3, <1>4, NilFacts DEF Go
    <3> QED BY <3>1, <3>2 DEF Manager, DockerFails, WriteConfig, RemoveForStart, RunContainer,
                              RemoveForStop, DeleteConfig
  <2>2. file'[n] = file[n] /\ box'[n] = box[n]
    BY <1>0, <1>4 DEF SidecarTypes, Manager, DockerFails, WriteConfig, RemoveForStart, RunContainer,
                      RemoveForStop, DeleteConfig, Remove
  <2>3. a = Boot => act[a].at \notin {"idle", "list"}
    BY <1>0
  <2> QED BY <2>1, <2>2, <2>3, <1>0, <1>1, <1>4, MoveElsewhere
<1>5. CASE m = n
  <2>0. Holds(a, n)
    BY <1>0, <1>5 DEF Holds, WorksOn
  <2>1. ASSUME NEW l \in {"remove", "run", "wipe"}, At(a, l),
               l \in {"remove", "run"} <=> act[a].at \in {"start", "remove", "run"},
               box[n] = Nil => box'[n] = Nil
        PROVE  CleanNode(n)'
    <3> DEFINE s == [act[a] EXCEPT !.at = l]
    <3>0. l \in Places
      BY DEF Places
    <3>1. s \in Acts /\ act' = [act EXCEPT ![a] = s]
      BY <2>1, <3>0, AtMove
    <3>2. s.n = n /\ s.at = l /\ s.conf = act[a].conf /\ s.then = act[a].then
      BY <1>0, <1>5 DEF Acts
    <3>3. l \in {"remove", "run"} => IsStarting(a, n)
      BY <2>1, <1>5 DEF IsStarting
    <3> HIDE DEF s
    <3> QED BY <3>1, <3>2, <3>3, <2>0, <2>1, <1>0, <1>1, HeldByOne
  <2>2. CASE WriteConfig(a)
    BY <2>1, <2>2 DEF WriteConfig
  <2>3. CASE RemoveForStart(a)
    <3>1. box'[n] = Nil
      BY <2>3, <1>0, <1>5 DEF RemoveForStart, Remove, SidecarTypes
    <3> QED BY <3>1, <2>1, <2>3 DEF RemoveForStart
  <2>4. CASE RemoveForStop(a)
    <3>1. box'[n] = Nil
      BY <2>4, <1>0, <1>5 DEF RemoveForStop, Remove, SidecarTypes
    <3> QED BY <3>1, <2>1, <2>4 DEF RemoveForStop
  <2>5. CASE RunContainer(a)
    <3>1. IsStarting(a, n) /\ act[a].at = "run"
      BY <2>5, <1>5 DEF RunContainer, IsStarting
    <3>2. WantsSidecar(n) /\ act[a].conf = Copy(row[n]) /\ file[n] = act[a].conf
      BY <3>1, <1>0, <1>1, <1>5 DEF CleanNode, CallsFollow, UnderLock
    <3>3. box'[n] = [conf |-> file[n], up |-> TRUE] /\ box'[n] \in Box /\ file' = file
      <4>1. box'[n] = [conf |-> file[n], up |-> TRUE] /\ file' = file
        BY <2>5, <1>0, <1>5 DEF RunContainer, SidecarTypes
      <4>2. act[a].conf \in FileConf
        BY <1>0, <3>1 DEF Role
      <4> QED BY <4>1, <4>2, <3>2 DEF Box
    <3>4. Fits(n)'
      <4>1. WantsSidecar(n)' /\ Copy(row[n])' = Copy(row[n])
        BY <3>2, <1>0 DEF WantsSidecar, Copy
      <4>2. box'[n] # Nil
        BY <3>3, NilFacts
      <4>3. box'[n].conf = file[n] /\ file'[n] = file[n]
        BY <3>3
      <4> QED BY <4>1, <4>2, <4>3, <3>2 DEF Fits
    <3>5. act' = [act EXCEPT ![a] = After(a)]
      BY <2>5 DEF RunContainer, Go
    <3>6. a \in Requests => act[a].then # "drop"
      BY <3>1, <1>0 DEF RequestRole
    <3>7. After(a).n # n /\ (a = Boot => After(a).at \notin {"idle", "list"})
      BY <3>6, <1>2, <1>3
    <3> QED BY <3>1, <3>4, <3>5, <3>7, <2>0, <1>0, <1>1, Excluded, LetGo
  <2>6. CASE DeleteConfig(a)
    <3>1. act[a].at = "wipe" /\ box[n] = Nil /\ box' = box /\ act' = [act EXCEPT ![a] = After(a)]
      BY <2>6, <1>0, <1>5 DEF DeleteConfig, UnderLock, Go
    <3>2. CASE After(a).at = "drop"
      <4>1. After(a).n = n /\ a \in Requests /\ act[a].then = "drop"
        BY <3>2, <1>2, <1>5
      <4>2. act'[a] = After(a) /\ \A b \in Coroutines : b # a => act'[b] = act[b]
        BY <3>1, <1>0
      <4>3. After(a) = [act[a] EXCEPT !.at = "drop"]
        BY <4>1, AfterFacts
      <4>4. After(a).then = "drop"
        BY <4>1, <4>3, <1>0 DEF Acts
      <4>5. \A b \in Coroutines : b # a => ~Holds(b, n)
        BY <4>1, <2>0, <1>1 DEF CleanNode, OneAtATime, Holds
      <4>6. a # Boot /\ \A r \in Requests : r \in Coroutines
        BY <4>1, NilFacts
      <4>7. CallsFollow(n)'
        BY <4>2, <4>5, <3>2 DEF CallsFollow, IsStarting, IsStopping, Holds, WorksOn
      <4>8. OneAtATime(n)'
        <5>1. \A b \in Coroutines : b # a => ~Holds(b, n)'
          BY <4>2, <4>5 DEF Holds, WorksOn
        <5>2. \A r \in Requests : r # a => ~WorksOn(r, n)'
          BY <5>1, <4>6, <4>2 DEF Holds, WorksOn, Base, Roles, RequestRole
        <5> QED BY <5>1, <5>2, <4>6 DEF OneAtATime
      <4>9. AllocationsFollow(n)'
        BY <4>2, <4>5, <4>6, <3>2 DEF AllocationsFollow, IsAllocating, Holds, WorksOn
      <4>10. DropsFollow(n)'
        BY <3>1 DEF DropsFollow
      <4>11. BootFollows(n)'
        BY <4>2, <4>6, <1>0, <1>1, NilFacts DEF BootFollows, CleanNode, WantsSidecar, Copy
      <4>12. RestFits(n)'
        BY <4>2, <4>1, <3>2 DEF RestFits, Holds, WorksOn
      <4> QED BY <4>7, <4>8, <4>9, <4>10, <4>11, <4>12 DEF CleanNode
    <3>3. CASE After(a).at # "drop"
      <4>1. After(a).n # n /\ (a = Boot => After(a).at \notin {"idle", "list"})
        BY <3>3, <1>2, <1>3
      <4>2. IsStopping(a, n)
        BY <3>1, <3>3, <1>2, <1>5, NilFacts DEF IsStopping, Base, Roles
      <4>3. ~WantsSidecar(n)
        BY <4>2, <1>1 DEF CleanNode, CallsFollow
      <4>4. Fits(n)'
        BY <4>3, <3>1, <1>0 DEF Fits, WantsSidecar
      <4>5. \A r \in Requests : r # a => ~(act[r].n = n /\ act[r].at = "drop")
        <5> SUFFICES ASSUME NEW r \in Requests, r # a, act[r].n = n, act[r].at = "drop" PROVE FALSE
          OBVIOUS
        <5>1. WorksOn(r, n) /\ act[r].then = "drop"
          BY DEF WorksOn, Base, Roles, RequestRole
        <5> QED BY <5>1, <2>0, <1>1 DEF CleanNode, OneAtATime
      <4> QED BY <4>1, <4>4, <4>5, <3>1, <2>0, <1>0, <1>1, LetGo
    <3> QED BY <3>2, <3>3
  <2> QED BY <2>2, <2>3, <2>4, <2>5, <2>6, <1>1, <1>5 DEF Manager
<1> QED BY <1>4, <1>5

\* Request r takes up n, goes on with it or is done with it, and nobody else works on n.
LEMMA CleanTaken ==
  ASSUME Base, Base', NEW n \in Nodes, NEW r \in Requests, NEW s \in Acts,
         act' = [act EXCEPT ![r] = s], s.n = n \/ s.at = "idle", act[Boot].at = "idle",
         \A a \in Coroutines \ {r} : ~Holds(a, n),
         s.at \in {"idle", "port", "take", "start", "stop"},
         s.at = "start" => WantsSidecar(n)' /\ s.conf = Copy(row[n])',
         s.at = "stop" /\ s.then # "drop" => ~WantsSidecar(n)',
         s.at \in {"port", "take"} =>
           /\ row'[n] # Nil /\ row'[n].port = 0
           /\ s.then = "start" => row'[n].on
           /\ s.then \in {"stop", "idle"} => ~row'[n].on
           /\ s.then = "idle" => box'[n] = Nil,
         s.at = "idle" => Fits(n)'
  PROVE  CleanNode(n)'
<1>1. act \in [Coroutines -> Acts] /\ Boot \in Coroutines /\ r # Boot /\ r \in Coroutines
  BY NilFacts DEF Base, SidecarTypes
<1>2. act'[r] = s /\ \A b \in Coroutines : b # r => act'[b] = act[b]
  BY <1>1
<1>3. \A b \in Coroutines : b # r => ~Holds(b, n)'
  BY <1>2 DEF Holds, WorksOn
<1>4. \A q \in Requests : q \in Coroutines /\ (WorksOn(q, n)' <=> Holds(q, n)')
  BY NilFacts DEF Holds, WorksOn, Base, Roles, RequestRole
<1>5. CallsFollow(n)'
  <2> SUFFICES ASSUME NEW b \in Coroutines
               PROVE  /\ IsStarting(b, n)' => WantsSidecar(n)' /\ act'[b].conf = Copy(row[n])'
                      /\ IsStopping(b, n)' => ~WantsSidecar(n)'
    BY DEF CallsFollow
  <2>1. CASE b = r
    BY <1>2, <2>1 DEF IsStarting, IsStopping
  <2>2. CASE b # r
    BY <1>3, <2>2 DEF IsStarting, IsStopping, Holds, WorksOn
  <2> QED BY <2>1, <2>2
<1>6. OneAtATime(n)'
  <2> SUFFICES ASSUME NEW q \in Requests, NEW a \in Coroutines, a # q, WorksOn(q, n)', Holds(a, n)'
               PROVE  FALSE
    BY DEF OneAtATime
  <2> QED BY <1>3, <1>4
<1>7. AllocationsFollow(n)'
  <2> SUFFICES ASSUME NEW q \in Requests, IsAllocating(q, n)'
               PROVE  /\ row'[n] # Nil /\ row'[n].port = 0
                      /\ act'[q].then = "start" => row'[n].on
                      /\ act'[q].then \in {"stop", "idle"} => ~row'[n].on
                      /\ act'[q].then = "idle" => box'[n] = Nil
    BY DEF AllocationsFollow
  <2>1. q = r
    BY <1>3, <1>4 DEF IsAllocating, Holds, WorksOn
  <2> QED BY <1>2, <2>1 DEF IsAllocating
<1>8. DropsFollow(n)'
  BY <1>2, <1>3, <1>4 DEF DropsFollow, Holds, WorksOn
<1>9. BootFollows(n)'
  BY <1>1, <1>2 DEF BootFollows
<1>10. RestFits(n)'
  <2> SUFFICES ASSUME ~Holds(r, n)' PROVE Fits(n)'
    BY <1>1 DEF RestFits
  <2> QED BY <1>1, <1>2 DEF Holds, WorksOn
<1> QED BY <1>5, <1>6, <1>7, <1>8, <1>9, <1>10 DEF CleanNode

\* Whoever begins a change of n without a race finds n at rest.
LEMMA AtRest ==
  ASSUME Base, NEW r \in Requests, NEW m \in Nodes, CanServe(r), Changes(r, m), m \notin raced', CleanNode(m)
  PROVE  (\A a \in Coroutines : ~Holds(a, m)) /\ Fits(m)
<1>1. r \in Coroutines /\ ~Holds(r, m)
  BY NilFacts DEF CanServe, Holds, WorksOn
<1>2. \A a \in Coroutines : ~Holds(a, m)
  BY <1>1 DEF Changes
<1>3. ~Awaits(m)
  BY DEF CanServe, Awaits
<1> QED BY <1>2, <1>3 DEF CleanNode, RestFits

LEMMA CleanEdit ==
  ASSUME Base, Base', NEW r \in Requests, NEW m \in Nodes,
         CreateNode(r, m) \/ UpdateNode(r, m) \/ RestartSidecar(r, m) \/ DeleteNode(r, m),
         NEW n \in Nodes \ (raced' \cup failed'), n \notin raced \cup failed => CleanNode(n)
  PROVE  CleanNode(n)'
<1>0. row \in [Nodes -> Row \cup {Nil}] /\ act \in [Coroutines -> Acts] /\ Nil \notin Row
      /\ r \in Coroutines /\ r # Boot
  BY NilFacts DEF Base, SidecarTypes
<1>1. CanServe(r) /\ Changes(r, m) /\ Rest /\ act[Boot].at = "idle" /\ act[r].at = "idle"
  BY DEF CreateNode, UpdateNode, RestartSidecar, DeleteNode, CanServe
<1>2. CleanNode(n)
  BY <1>1 DEF Changes, Rest
<1>3. m = n => (\A a \in Coroutines : ~Holds(a, m)) /\ Fits(m)
  BY <1>1, <1>2, AtRest
<1>4. ASSUME NEW s \in Acts, act' = [act EXCEPT ![r] = s], s.n = m, row'[n] = row[n], m # n
      PROVE  CleanNode(n)'
  <2>1. act[r].n # n \/ act[r].at \in {"idle", "backoff"}
    BY <1>1
  <2>2. UNCHANGED <<file, box, todo>>
    BY <1>1 DEF Rest
  <2> QED BY <1>0, <1>2, <1>4, <2>1, <2>2, MoveElsewhere
<1>5. ASSUME NEW w \in Row, NEW next \in {"start", "stop", "idle"}, Ensure(r, m, w, next),
             row' = [row EXCEPT ![m] = w],
             next = "start" => w.on, next \in {"stop", "idle"} => ~w.on,
             next = "idle" /\ m = n => box[n] = Nil
      PROVE  CleanNode(n)'
  <2>1. PICK s \in Acts : /\ act' = [act EXCEPT ![r] = s]
                          /\ s.n = m /\ s.then = next
                          /\ s.at = IF w.port = 0 THEN "port" ELSE next
                          /\ w.port # 0 => s.conf = Copy(w) /\ s.conf \in FileConf
    BY <1>5, EnsureMove
  <2>2. CASE m # n
    BY <2>1, <2>2, <1>0, <1>4, <1>5
  <2>3. CASE m = n
    <3>1. row'[n] = w /\ w # Nil /\ box' = box
      BY <2>3, <1>0, <1>1, <1>5 DEF Rest
    <3>2. WantsSidecar(n)' <=> w.on /\ w.port # 0
      BY <3>1 DEF WantsSidecar
    <3>3. s.at = "idle" => Fits(n)'
      BY <3>1, <3>2, <2>1, <2>3, <1>5 DEF Fits
    <3>4. Copy(row[n])' = Copy(w)
      BY <3>1 DEF Copy
    <3>5. s.n = n /\ \A a \in Coroutines : ~Holds(a, n)
      BY <2>1, <2>3, <1>3
    <3>6. s.at \in {"idle", "port", "start", "stop"}
      BY <2>1
    <3>7. s.at = "start" => WantsSidecar(n)' /\ s.conf = Copy(row[n])'
      BY <2>1, <3>2, <3>4, <1>5
    <3>8. s.at = "stop" => ~WantsSidecar(n)'
      BY <2>1, <3>2, <1>5
    <3>9. s.at = "port" => /\ row'[n] # Nil /\ row'[n].port = 0
                           /\ s.then = "start" => row'[n].on
                           /\ s.then \in {"stop", "idle"} => ~row'[n].on
                           /\ s.then = "idle" => box'[n] = Nil
      BY <2>1, <2>3, <3>1, <1>5
    <3> QED BY <2>1, <3>3, <3>5, <3>6, <3>7, <3>8, <3>9, <1>1, CleanTaken
  <2> QED BY <2>2, <2>3
<1>6. CASE CreateNode(r, m)
  <2>1. PICK on \in BOOLEAN, v \in Vers :
               /\ row' = [row EXCEPT ![m] = [on |-> on, ver |-> v, port |-> 0]]
               /\ Ensure(r, m, [on |-> on, ver |-> v, port |-> 0], IF on THEN "start" ELSE "stop")
    BY <1>6 DEF CreateNode
  <2>2. [on |-> on, ver |-> v, port |-> 0] \in Row
    BY DEF Row
  <2> QED BY <2>1, <2>2, <1>5
<1>7. CASE UpdateNode(r, m)
  <2>1. PICK on \in BOOLEAN, v \in Vers :
               /\ row[m] # Nil /\ [row[m] EXCEPT !.on = on, !.ver = v] # row[m]
               /\ row' = [row EXCEPT ![m] = [row[m] EXCEPT !.on = on, !.ver = v]]
               /\ Ensure(r, m, [row[m] EXCEPT !.on = on, !.ver = v],
                         CASE on # row[m].on -> IF on THEN "start" ELSE "stop"
                           [] on /\ v # row[m].ver -> "start"
                           [] OTHER -> "idle")
    BY <1>7 DEF UpdateNode
  <2> DEFINE w == [row[m] EXCEPT !.on = on, !.ver = v]
             next == CASE on # row[m].on -> IF on THEN "start" ELSE "stop"
                       [] on /\ v # row[m].ver -> "start"
                       [] OTHER -> "idle"
  <2>2. w \in Row /\ w.on = on /\ w.ver = v /\ w.port = row[m].port /\ row[m] \in Row
    BY <2>1, <1>0 DEF Row
  <2>3. on = row[m].on /\ v = row[m].ver => w = row[m]
    BY <2>2 DEF Row
  <2>4. row[m].on \in BOOLEAN
    BY <2>2 DEF Row
  <2>5. next \in {"start", "stop", "idle"} /\ (next = "start" => on) /\ (next \in {"stop", "idle"} => ~on)
    BY <2>1, <2>3, <2>4
  <2>6. next = "idle" => on = row[m].on
    BY <2>1
  <2>7. next = "idle" /\ m = n => box[n] = Nil
    BY <2>5, <2>6, <1>3 DEF Fits, WantsSidecar
  <2>8. row' = [row EXCEPT ![m] = w] /\ Ensure(r, m, w, next)
    BY <2>1
  <2> HIDE DEF w, next
  <2> QED BY <2>2, <2>5, <2>7, <2>8, <1>5
<1>8. CASE RestartSidecar(r, m)
  <2>1. row[m] \in Row /\ row[m].on /\ Ensure(r, m, row[m], "start") /\ row' = row
    BY <1>8, <1>0 DEF RestartSidecar
  <2>2. row' = [row EXCEPT ![m] = row[m]]
    BY <2>1, <1>0
  <2> QED BY <2>1, <2>2, <1>5
<1>9. CASE DeleteNode(r, m)
  <2> DEFINE s == [at |-> "stop", n |-> m, conf |-> Nil, port |-> 0, then |-> "drop"]
  <2>1. s \in Acts /\ s.n = m /\ s.at = "stop" /\ s.then = "drop"
    BY DEF Acts, Places, Thens
  <2>2. act' = [act EXCEPT ![r] = s] /\ row' = row
    BY <1>9 DEF DeleteNode, Go
  <2> HIDE DEF s
  <2>3. CASE m # n
    BY <2>1, <2>2, <2>3, <1>4
  <2>4. CASE m = n
    BY <2>1, <2>2, <2>4, <1>1, <1>3, CleanTaken
  <2> QED BY <2>3, <2>4
<1> QED BY <1>6, <1>7, <1>8, <1>9

\* Nobody works on a node beside the request that gives it a port.
LEMMA AllocatesAlone ==
  ASSUME Base, NEW n \in Nodes, CleanNode(n), NEW r \in Requests, IsAllocating(r, n)
  PROVE  \A a \in Coroutines \ {r} : ~Holds(a, n)
<1> SUFFICES ASSUME NEW a \in Coroutines, a # r, Holds(a, n) PROVE FALSE
  OBVIOUS
<1>1. WorksOn(r, n) /\ act[Boot].at = "idle"
  BY DEF WorksOn, IsAllocating, Base, Roles, RequestRole
<1>2. a \notin Requests
  BY <1>1 DEF CleanNode, OneAtATime
<1>3. a = Supervisor
  BY <1>1, <1>2, NilFacts DEF Holds, WorksOn
<1>4. IsStarting(a, n)
  BY <1>3 DEF Holds, WorksOn, IsStarting, Base, Roles
<1> QED BY <1>4, Excluded

LEMMA CleanServe ==
  ASSUME Base, Base', NEW r \in Requests, Serve(r),
         NEW n \in Nodes \ (raced' \cup failed'), n \notin raced \cup failed => CleanNode(n)
  PROVE  CleanNode(n)'
<1> DEFINE m == act[r].n
<1>0. /\ row \in [Nodes -> Row \cup {Nil}] /\ act \in [Coroutines -> Acts] /\ RequestRole(r) /\ Role(r)
      /\ r \in Coroutines /\ act[r] \in Acts /\ r # Boot
  BY NilFacts DEF Base, SidecarTypes, Roles
<1>1. /\ CleanNode(n) /\ UNCHANGED <<file, box, todo>> /\ act[r].at \in {"drop", "port", "take"}
      /\ act[Boot].at = "idle" /\ m \in Nodes
  BY <1>0 DEF Serve, DropRow, AllocatePort, TakePort, Changes, Rest, history, RequestRole, Role
<1>2. Idle \in Acts /\ Idle.at = "idle"
  BY IdleTyped DEF Idle
<1>3. ASSUME NEW s \in Acts, act' = [act EXCEPT ![r] = s], s.n = m \/ s.at = "idle", m # n, row'[n] = row[n]
      PROVE  CleanNode(n)'
  BY <1>0, <1>1, <1>3, MoveElsewhere
<1>4. CASE DropRow(r)
  <2>1. act' = [act EXCEPT ![r] = Idle] /\ row' = [row EXCEPT ![m] = Nil] /\ act[r].at = "drop"
    BY <1>4 DEF DropRow, Go
  <2>2. CASE m # n
    BY <2>1, <2>2, <1>0, <1>2, <1>3
  <2>3. CASE m = n
    <3>1. box'[n] = Nil /\ row'[n] = Nil
      BY <2>1, <2>3, <1>0, <1>1 DEF CleanNode, DropsFollow
    <3>2. Fits(n)'
      BY <3>1 DEF Fits, WantsSidecar
    <3>3. WorksOn(r, n) /\ act[r].then = "drop"
      BY <2>1, <2>3, <1>0 DEF WorksOn, RequestRole
    <3>4. \A a \in Coroutines \ {r} : ~Holds(a, n)
      BY <3>3, <1>1 DEF CleanNode, OneAtATime
    <3> QED BY <2>1, <3>2, <3>4, <1>1, <1>2, CleanTaken
  <2> QED BY <2>2, <2>3
<1>5. CASE AllocatePort(r)
  <2>1. act[r].at = "port" /\ row' = row
    BY <1>5 DEF AllocatePort
  <2>2. CASE FreePorts(m) = {}
    <3>1. act' = [act EXCEPT ![r] = Idle] /\ m # n
      BY <1>5, <2>2 DEF AllocatePort, Go
    <3> QED BY <2>1, <3>1, <1>2, <1>3
  <2>3. CASE FreePorts(m) # {}
    <3> DEFINE s == [act[r] EXCEPT !.at = "take", !.port = Min(FreePorts(m))]
    <3>1. act' = [act EXCEPT ![r] = s]
      BY <1>5, <2>3 DEF AllocatePort, Go
    <3>2. s \in Acts /\ s.at = "take" /\ s.n = m /\ s.then = act[r].then
      BY <1>0, <2>3, FreePortsMin DEF Acts, Places
    <3> HIDE DEF s
    <3>3. CASE m # n
      BY <2>1, <3>1, <3>2, <3>3, <1>3
    <3>4. CASE m = n
      <4>1. IsAllocating(r, n)
        BY <2>1, <3>4 DEF IsAllocating
      <4>2. /\ row[n] # Nil /\ row[n].port = 0
            /\ act[r].then = "start" => row[n].on
            /\ act[r].then \in {"stop", "idle"} => ~row[n].on
            /\ act[r].then = "idle" => box[n] = Nil
        BY <4>1, <1>1 DEF CleanNode, AllocationsFollow
      <4>3. \A a \in Coroutines \ {r} : ~Holds(a, n)
        BY <4>1, <1>1, AllocatesAlone
      <4> QED BY <2>1, <3>1, <3>2, <3>4, <4>2, <4>3, <1>1, CleanTaken
    <3> QED BY <3>3, <3>4
  <2> QED BY <2>2, <2>3
<1>6. CASE TakePort(r)
  <2>1. act[r].at = "take"
    BY <1>6 DEF TakePort
  <2>2. act[r].then \in {"start", "stop", "idle"} /\ act[r].port \in Ports
    BY <2>1, <1>0 DEF RequestRole
  <2>3. CASE row[m] = Nil
    <3>1. act' = [act EXCEPT ![r] = Idle] /\ row' = row
      BY <1>6, <2>3 DEF TakePort, Go
    <3>2. m # n
      BY <2>1, <2>3, <1>1 DEF CleanNode, AllocationsFollow, IsAllocating
    <3> QED BY <3>1, <3>2, <1>2, <1>3
  <2>4. CASE row[m] # Nil
    <3> DEFINE w == [row[m] EXCEPT !.port = act[r].port]
               s == [act[r] EXCEPT !.at = act[r].then, !.conf = Copy(w), !.port = 0]
    <3>1. act' = [act EXCEPT ![r] = s] /\ row' = [row EXCEPT ![m] = w]
      BY <1>6, <2>4 DEF TakePort, Go
    <3>2. w \in Row /\ w.port # 0 /\ w.on = row[m].on
      BY <1>0, <1>1, <2>2, <2>4, NilFacts DEF Row
    <3>3. Copy(w) \in FileConf
      BY <3>2, CopyTyped
    <3> HIDE DEF w
    <3>4. s \in Acts /\ s.at = act[r].then /\ s.conf = Copy(w) /\ s.n = m /\ s.then = act[r].then
      BY <1>0, <2>2, <3>3 DEF Acts, Places
    <3> HIDE DEF s
    <3>5. CASE m # n
      BY <3>1, <3>4, <3>5, <1>0, <1>3
    <3>6. CASE m = n
      <4>1. IsAllocating(r, n)
        BY <2>1, <3>6 DEF IsAllocating
      <4>2. /\ row[n].port = 0
            /\ act[r].then = "start" => row[n].on
            /\ act[r].then \in {"stop", "idle"} => ~row[n].on
            /\ act[r].then = "idle" => box[n] = Nil
        BY <4>1, <1>1 DEF CleanNode, AllocationsFollow
      <4>3. \A a \in Coroutines \ {r} : ~Holds(a, n)
        BY <4>1, <1>1, AllocatesAlone
      <4>4. row'[n] = w /\ w # Nil /\ box' = box
        BY <3>1, <3>2, <3>6, <1>0, <1>1, NilFacts
      <4>5. (WantsSidecar(n)' <=> w.on) /\ Copy(row[n])' = Copy(w)
        BY <4>4, <3>2 DEF WantsSidecar, Copy
      <4>6. s.at = "idle" => Fits(n)'
        BY <4>2, <4>4, <4>5, <3>2, <3>4, <3>6 DEF Fits
      <4>7. s.at = "start" => WantsSidecar(n)' /\ s.conf = Copy(row[n])'
        BY <4>2, <4>5, <3>2, <3>4, <3>6
      <4>8. s.at = "stop" => ~WantsSidecar(n)'
        BY <4>2, <4>5, <3>2, <3>4, <3>6
      <4> QED BY <3>1, <3>4, <3>6, <4>3, <4>6, <4>7, <4>8, <1>1, <2>2, CleanTaken
    <3> QED BY <3>5, <3>6
  <2> QED BY <2>3, <2>4
<1> QED BY <1>4, <1>5, <1>6 DEF Serve

LEMMA CleanRest ==
  ASSUME Base, Base', NEW n \in Nodes, CleanNode(n), UNCHANGED <<row, file, box, act, todo>>
  PROVE  CleanNode(n)'
BY Elsewhere

LEMMA CleanSupervise ==
  ASSUME Base, Base', Supervise,
         NEW n \in Nodes \ (raced' \cup failed'), n \notin raced \cup failed => CleanNode(n)
  PROVE  CleanNode(n)'
<1> DEFINE m == act[Supervisor].n
<1>0. /\ act \in [Coroutines -> Acts] /\ act[Supervisor] \in Acts /\ Supervisor \in Coroutines
      /\ Supervisor \notin Requests /\ Supervisor # Boot /\ SidecarTypes /\ Roles
      /\ Requests \subseteq Coroutines /\ Boot \in Coroutines
  BY NilFacts DEF Base, SidecarTypes
<1>1. CleanNode(n) /\ UNCHANGED <<row, file, box, todo>>
  BY DEF Supervise, HandleEvent, RestartNode, Reconnect, history
<1>2. CASE HandleEvent
  <2>1. CASE act' = act
    BY <2>1, <1>1, CleanRest
  <2>2. CASE act' # act
    <3> DEFINE s == [Idle EXCEPT !.at = "backoff", !.n = Head(events)]
    <3>1. act' = [act EXCEPT ![Supervisor] = s] /\ act[Supervisor].at = "idle" /\ events # <<>>
      BY <1>2, <2>2 DEF HandleEvent, Go
    <3>2. s \in Acts /\ s.at = "backoff"
      BY <3>1, <1>0, HeadTyped, NilFacts DEF Idle, Acts, Places, Thens
    <3> HIDE DEF s
    <3> QED BY <3>1, <3>2, <1>0, <1>1, MoveElsewhere
  <2> QED BY <2>1, <2>2
<1>3. CASE RestartNode
  <2>1. act[Supervisor].at = "backoff"
    BY <1>3 DEF RestartNode
  <2>2. CASE ~(row[m] # Nil /\ row[m].on /\ row[m].port # 0)
    <3>1. act' = [act EXCEPT ![Supervisor] = Idle] /\ Idle.at = "idle"
      BY <1>3, <2>2 DEF RestartNode, Go, Idle
    <3> QED BY <2>1, <3>1, <1>0, <1>1, IdleTyped, MoveElsewhere
  <2>3. CASE row[m] # Nil /\ row[m].on /\ row[m].port # 0
    <3> DEFINE s == [act[Supervisor] EXCEPT !.at = "start", !.conf = Copy(row[m])]
    <3>1. act' = [act EXCEPT ![Supervisor] = s]
      BY <1>3, <2>3 DEF RestartNode, Go
    <3>2. m \in Nodes /\ row[m] \in Row
      BY <2>1, <2>3, <1>0 DEF Roles, Role, SidecarTypes
    <3>3. Copy(row[m]) \in FileConf
      BY <2>3, <3>2, CopyTyped
    <3>4. s \in Acts /\ s.at = "start" /\ s.n = m /\ s.conf = Copy(row[m])
      BY <1>0, <3>3 DEF Acts, Places
    <3> HIDE DEF s
    <3>5. CASE m # n
      BY <3>1, <3>4, <3>5, <2>1, <1>0, <1>1, MoveElsewhere
    <3>6. CASE m = n
      <4>1. ~Deleting(n)
        BY <1>3, <2>3, <3>6 DEF RestartNode
      <4>2. act'[Supervisor] = s /\ \A b \in Coroutines : b # Supervisor => act'[b] = act[b]
        BY <3>1, <1>0
      <4>3. WantsSidecar(n) /\ (WantsSidecar(n)' <=> WantsSidecar(n)) /\ Copy(row[n])' = Copy(row[n])
        BY <2>3, <3>6, <1>1 DEF WantsSidecar, Copy
      <4>4. CallsFollow(n)'
        <5> SUFFICES ASSUME NEW b \in Coroutines
                     PROVE  /\ IsStarting(b, n)' => WantsSidecar(n) /\ act'[b].conf = Copy(row[n])
                            /\ IsStopping(b, n)' => ~WantsSidecar(n)
          BY <4>3 DEF CallsFollow
        <5>1. CASE b = Supervisor
          BY <4>2, <4>3, <3>4, <3>6, <5>1 DEF IsStarting, IsStopping
        <5>2. CASE b # Supervisor
          BY <4>2, <1>1, <5>2 DEF CleanNode, CallsFollow, IsStarting, IsStopping
        <5> QED BY <5>1, <5>2
      <4>5. OneAtATime(n)'
        <5> SUFFICES ASSUME NEW q \in Requests, NEW a \in Coroutines, a # q, WorksOn(q, n)', Holds(a, n)'
                     PROVE  a \notin Requests /\ act'[q].then # "drop"
          BY DEF OneAtATime
        <5>1. q # Supervisor /\ act'[q] = act[q] /\ WorksOn(q, n)
          BY <4>2, <1>0 DEF WorksOn
        <5>2. CASE a = Supervisor
          BY <5>1, <5>2, <4>1, <1>0 DEF Deleting
        <5>3. CASE a # Supervisor
          <6>1. Holds(a, n)
            BY <5>3, <4>2 DEF Holds, WorksOn
          <6> QED BY <5>1, <6>1, <1>1 DEF CleanNode, OneAtATime
        <5> QED BY <5>2, <5>3
      <4>6. AllocationsFollow(n)' /\ DropsFollow(n)' /\ BootFollows(n)'
        BY <4>2, <4>3, <1>0, <1>1 DEF CleanNode, AllocationsFollow, IsAllocating, DropsFollow, BootFollows
      <4>7. RestFits(n)'
        BY <4>2, <3>4, <3>6, <1>0 DEF RestFits, Holds, WorksOn
      <4> QED BY <4>4, <4>5, <4>6, <4>7 DEF CleanNode
    <3> QED BY <3>5, <3>6
  <2> QED BY <2>2, <2>3
<1>4. CASE Reconnect
  BY <1>4, <1>1, CleanRest DEF Reconnect
<1> QED BY <1>2, <1>3, <1>4 DEF Supervise

LEMMA CleanOutside ==
  ASSUME Base, Base',
         \/ StreamBreaks \/ \E S \in SUBSET Nodes : DropRows(S)
         \/ \E m \in Nodes : Forget(m) \/ SidecarDies(m) \/ DockerRestarts(m),
         NEW n \in Nodes \ (raced' \cup failed'), n \notin raced \cup failed => CleanNode(n)
  PROVE  CleanNode(n)'
<1>0. SidecarTypes
  BY DEF Base
<1>1. CASE StreamBreaks \/ \E m \in Nodes : Forget(m)
  BY <1>1, CleanRest DEF StreamBreaks, Forget, history
<1>2. ASSUME NEW S \in SUBSET Nodes, DropRows(S) PROVE CleanNode(n)'
  <2>1. CleanNode(n) /\ n \notin S /\ UNCHANGED <<file, box, act, todo>>
    BY <1>2 DEF DropRows
  <2>2. row'[n] = row[n]
    BY <1>2, <2>1 DEF DropRows
  <2> QED BY <2>1, <2>2, Elsewhere
<1>3. ASSUME NEW m \in Nodes, SidecarDies(m) \/ DockerRestarts(m) PROVE CleanNode(n)'
  <2>1. CleanNode(n) /\ UNCHANGED <<row, file, act, todo>>
    BY <1>3 DEF SidecarDies, DockerRestarts, history
  <2>2. CASE m # n
    <3>1. box'[n] = box[n]
      BY <2>2, <1>0, <1>3 DEF SidecarDies, DockerRestarts, SidecarTypes
    <3> QED BY <2>1, <3>1, Elsewhere
  <2>3. CASE m = n
    <3>1. box[n] \in Box /\ box[n].conf \in FileConf /\ box[n].up \in BOOLEAN
      BY <2>3, <1>0, <1>3 DEF SidecarDies, DockerRestarts, SidecarTypes, Box
    <3>2. box'[n] # Nil
      <4>1. box'[n] \in Box
        <5>1. CASE SidecarDies(m)
          <6>1. box'[n] = [box[n] EXCEPT !.up = FALSE]
            BY <5>1, <2>3, <1>0 DEF SidecarDies, SidecarTypes
          <6> QED BY <6>1, <3>1 DEF Box
        <5>2. CASE DockerRestarts(m)
          <6>1. box'[n] = [conf |-> IF file[n] = Nil THEN box[n].conf ELSE file[n], up |-> TRUE]
            BY <5>2, <2>3, <1>0 DEF DockerRestarts, SidecarTypes
          <6>2. file[n] = Nil \/ file[n] \in FileConf
            BY <1>0 DEF SidecarTypes
          <6> QED BY <6>1, <6>2, <3>1 DEF Box
        <5> QED BY <5>1, <5>2, <1>3
      <4> QED BY <4>1, NilFacts
    <3>3. file[n] = box[n].conf => box'[n].conf = box[n].conf
      <4>1. CASE SidecarDies(m)
        <5>1. box'[n] = [box[n] EXCEPT !.up = FALSE]
          BY <4>1, <2>3, <1>0 DEF SidecarDies, SidecarTypes
        <5> QED BY <5>1, <3>1 DEF Box
      <4>2. CASE DockerRestarts(m)
        <5>1. box'[n] = [conf |-> IF file[n] = Nil THEN box[n].conf ELSE file[n], up |-> TRUE]
          BY <4>2, <2>3, <1>0 DEF DockerRestarts, SidecarTypes
        <5> QED BY <5>1
      <4> QED BY <4>1, <4>2, <1>3
    <3>4. box[n] # Nil
      BY <3>1, NilFacts
    <3> QED BY <2>1, <3>2, <3>3, <3>4, Elsewhere
  <2> QED BY <2>2, <2>3
<1> QED BY <1>1, <1>2, <1>3

LEMMA CleanRestart ==
  ASSUME Base, Base', Restart, NEW n \in Nodes
  PROVE  CleanNode(n)'
<1>0. row \in [Nodes -> Row \cup {Nil}] /\ Boot \in Coroutines /\ Requests \subseteq Coroutines
      /\ Boot \notin Requests
  BY NilFacts DEF Base, SidecarTypes
<1>1. /\ \A a \in Coroutines : a # Boot => act'[a].at = "idle"
      /\ act'[Boot].at = "list" /\ row' = row
  BY <1>0 DEF Restart, Idle
<1>2. todo'.start[n] = IF WantsSidecar(n) THEN Copy(row[n]) ELSE Nil
  BY DEF Restart, WantsSidecar
<1>3. n \notin todo'.stop
  BY DEF Restart
<1>4. (WantsSidecar(n)' <=> WantsSidecar(n)) /\ Copy(row[n])' = Copy(row[n])
  BY <1>1 DEF WantsSidecar, Copy
<1>5. WantsSidecar(n) => Copy(row[n]) # Nil
  BY <1>0, CopyTyped, NilFacts DEF WantsSidecar
<1>6. CallsFollow(n)'
  BY <1>1 DEF CallsFollow, IsStarting, IsStopping
<1>7. OneAtATime(n)'
  BY <1>0, <1>1 DEF OneAtATime, WorksOn
<1>8. AllocationsFollow(n)' /\ DropsFollow(n)'
  BY <1>0, <1>1 DEF AllocationsFollow, IsAllocating, DropsFollow
<1>9. BootFollows(n)'
  BY <1>2, <1>3, <1>4, <1>5 DEF BootFollows
<1>10. RestFits(n)'
  BY <1>1 DEF RestFits, Awaits
<1> QED BY <1>6, <1>7, <1>8, <1>9, <1>10 DEF CleanNode

LEMMA BetweenStep == ASSUME Base, BootBetween, [NaiveNext]_naiveVars PROVE BootBetween'
<1>0. act \in [Coroutines -> Acts] /\ Boot \in Coroutines /\ Boot \notin Requests /\ Supervisor # Boot
      /\ act[Boot] \in Acts
  BY NilFacts DEF Base, SidecarTypes
<1>1. CASE act'[Boot] = act[Boot]
  BY <1>1 DEF BootBetween
<1>2. CASE act'[Boot].at \notin {"list", "next"} \/ act'[Boot].n = Nil
  BY <1>2 DEF BootBetween
<1>3. ASSUME NEW a \in Coroutines, Manager(a) \/ DockerFails(a) PROVE BootBetween'
  <2>1. CASE a # Boot
    BY <2>1, <1>0, <1>1, <1>3 DEF Manager, DockerFails, WriteConfig, RemoveForStart, RunContainer,
                                  RemoveForStop, DeleteConfig, Go, At
  <2>2. CASE a = Boot
    <3>1. ASSUME NEW l \in {"remove", "run", "wipe"}, At(a, l) PROVE BootBetween'
      BY <3>1, <2>2, <1>0, <1>2 DEF At, Acts
    <3>2. CASE Go(a, After(a))
      BY <3>2, <2>2, <1>0, <1>2 DEF Go, After, Idle
    <3> QED BY <3>1, <3>2, <1>3 DEF Manager, DockerFails, WriteConfig, RemoveForStart, RunContainer,
                                    RemoveForStop, DeleteConfig
  <2> QED BY <2>1, <2>2
<1>4. ASSUME NEW r \in Requests, NEW n \in Nodes,
             CreateNode(r, n) \/ UpdateNode(r, n) \/ RestartSidecar(r, n) \/ DeleteNode(r, n)
      PROVE  BootBetween'
  BY <1>4, <1>0, <1>1 DEF CreateNode, UpdateNode, RestartSidecar, DeleteNode, Ensure, Go
<1>5. ASSUME NEW r \in Requests, Serve(r) PROVE BootBetween'
  BY <1>5, <1>0, <1>1 DEF Serve, DropRow, AllocatePort, TakePort, Go
<1>6. CASE Supervise
  BY <1>6, <1>0, <1>1 DEF Supervise, HandleEvent, RestartNode, Reconnect, Go
<1>7. CASE Sync
  <2>1. CASE ListSidecars
    <3>1. act[Boot].n = Nil
      BY <2>1 DEF BootBetween, ListSidecars
    <3>2. act'[Boot] = Idle \/ act'[Boot] = [act[Boot] EXCEPT !.at = "next"]
      BY <2>1, <1>0 DEF ListSidecars, Go, At
    <3> QED BY <3>1, <3>2, <1>0, <1>2 DEF Idle, Acts
  <2>2. CASE SyncNext
    <3>1. /\ todo.stop # {} => \E n \in todo.stop : Go(Boot, [Idle EXCEPT !.at = "stop", !.n = n])
          /\ todo.stop = {} /\ (\E n \in Nodes : todo.start[n] # Nil) =>
               \E n \in Nodes : Go(Boot, [Idle EXCEPT !.at = "start", !.n = n, !.conf = todo.start[n]])
          /\ todo.stop = {} /\ ~(\E n \in Nodes : todo.start[n] # Nil) => Go(Boot, Idle)
      BY <2>2 DEF SyncNext
    <3>2. ASSUME NEW x, Go(Boot, x), x.at \notin {"list", "next"} \/ x.n = Nil PROVE BootBetween'
      BY <3>2, <1>0, <1>2 DEF Go
    <3>3. /\ \A n : [Idle EXCEPT !.at = "stop", !.n = n].at = "stop"
          /\ \A n, c : [Idle EXCEPT !.at = "start", !.n = n, !.conf = c].at = "start"
          /\ Idle.n = Nil
      BY DEF Idle
    <3> QED BY <3>1, <3>2, <3>3
  <2> QED BY <1>7, <2>1, <2>2 DEF Sync
<1>8. CASE Restart
  BY <1>8, <1>0, <1>2 DEF Restart, Idle
<1>9. CASE \/ StreamBreaks \/ \E S \in SUBSET Nodes : DropRows(S)
           \/ \E n \in Nodes : Forget(n) \/ SidecarDies(n) \/ DockerRestarts(n)
  BY <1>9, <1>1 DEF StreamBreaks, DropRows, Forget, SidecarDies, DockerRestarts
<1>10. CASE UNCHANGED naiveVars
  BY <1>10, <1>1 DEF naiveVars
<1> QED BY <1>3, <1>4, <1>5, <1>6, <1>7, <1>8, <1>9, <1>10 DEF NaiveNext

\* The boot turns to s, between two nodes before; it has listed, or takes a node from its lists.
LEMMA CleanBoot ==
  ASSUME Base, Base', BootBetween, NEW n \in Nodes, CleanNode(n), NEW s \in Acts,
         act[Boot].at \in {"list", "next"}, act' = [act EXCEPT ![Boot] = s],
         UNCHANGED <<row, file, box>>,
         s.at \in {"idle", "next", "stop", "start"},
         s.n = n /\ s.at = "start" => WantsSidecar(n) /\ s.conf = Copy(row[n]),
         s.n = n /\ s.at = "stop" => ~WantsSidecar(n),
         s.at # "idle" => /\ n \in todo'.stop => ~WantsSidecar(n)
                          /\ todo'.start[n] # Nil => WantsSidecar(n) /\ todo'.start[n] = Copy(row[n]),
         s.n # n \/ s.at = "idle" =>
           \/ s.at # "idle" /\ (n \in todo'.stop \/ todo'.start[n] # Nil)
           \/ Fits(n) \/ ~Awaits(n)
  PROVE  CleanNode(n)'
<1>1. /\ act \in [Coroutines -> Acts] /\ Boot \in Coroutines /\ Requests \subseteq Coroutines
      /\ Boot \notin Requests /\ Nil \notin Nodes
      /\ \A r \in Requests : act[r].at = "idle"
  BY NilFacts DEF Base, SidecarTypes, Roles, RequestRole
<1>2. act'[Boot] = s /\ \A b \in Coroutines : b # Boot => act'[b] = act[b]
  BY <1>1
<1>3. (WantsSidecar(n)' <=> WantsSidecar(n)) /\ Copy(row[n])' = Copy(row[n])
  BY DEF WantsSidecar, Copy
<1>4. CallsFollow(n)'
  <2> SUFFICES ASSUME NEW b \in Coroutines
               PROVE  /\ IsStarting(b, n)' => WantsSidecar(n) /\ act'[b].conf = Copy(row[n])
                      /\ IsStopping(b, n)' => ~WantsSidecar(n)
    BY <1>3 DEF CallsFollow
  <2>1. CASE b = Boot
    BY <1>2, <2>1 DEF IsStarting, IsStopping
  <2>2. CASE b # Boot
    BY <1>2, <2>2 DEF CleanNode, CallsFollow, IsStarting, IsStopping
  <2> QED BY <2>1, <2>2
<1>5. OneAtATime(n)' /\ AllocationsFollow(n)' /\ DropsFollow(n)'
  BY <1>1, <1>2 DEF OneAtATime, AllocationsFollow, IsAllocating, DropsFollow, WorksOn
<1>6. BootFollows(n)'
  BY <1>2, <1>3 DEF BootFollows
<1>7. RestFits(n)'
  <2> SUFFICES ASSUME \A a \in Coroutines : ~Holds(a, n)', ~Awaits(n)' PROVE Fits(n)'
    BY DEF RestFits
  <2>1. s.n # n \/ s.at = "idle"
    BY <1>1, <1>2 DEF Holds, WorksOn
  <2>2. Fits(n) \/ ~Awaits(n)
    BY <2>1, <1>2 DEF Awaits
  <2>3. \A a \in Coroutines : ~Holds(a, n)
    <3>1. ~Holds(Boot, n)
      BY <1>1 DEF BootBetween, Holds, WorksOn
    <3> QED BY <3>1, <1>2 DEF Holds, WorksOn
  <2>4. Fits(n)
    BY <2>2, <2>3 DEF CleanNode, RestFits
  <2> QED BY <2>4, <1>3 DEF Fits
<1> QED BY <1>4, <1>5, <1>6, <1>7 DEF CleanNode

LEMMA CleanSync ==
  ASSUME Base, Base', BootBetween, Sync,
         NEW n \in Nodes \ (raced' \cup failed'), n \notin raced \cup failed => CleanNode(n)
  PROVE  CleanNode(n)'
<1>0. /\ SidecarTypes /\ act[Boot] \in Acts /\ act[Boot].at \in {"list", "next"}
      /\ UNCHANGED <<row, file, box>> /\ Idle \in Acts /\ Idle.at = "idle" /\ Nil \notin Nodes
      /\ todo \in [stop : SUBSET Nodes, start : [Nodes -> FileConf \cup {Nil}]]
  BY NilFacts, IdleTyped DEF Base, SidecarTypes, Idle, Sync, ListSidecars, SyncNext
<1>1. CASE ListSidecars
  <2>1. /\ failed' = failed /\ raced' = raced /\ act[Boot].at = "list" /\ At(Boot, "next")
        /\ todo' = [todo EXCEPT !.stop = {k \in Nodes : box[k] # Nil /\ todo.start[k] = Nil}]
    BY <1>1 DEF ListSidecars
  <2>2. CleanNode(n)
    BY <2>1
  <2> DEFINE s == [act[Boot] EXCEPT !.at = "next"]
  <2>3. s \in Acts /\ act' = [act EXCEPT ![Boot] = s] /\ s.at = "next" /\ s.n = act[Boot].n
    BY <2>1, <1>0 DEF At, Acts, Places
  <2> HIDE DEF s
  <2>4. s.n # n
    BY <2>1, <2>3, <1>0 DEF BootBetween
  <2>5. (n \in todo'.stop <=> box[n] # Nil /\ todo.start[n] = Nil) /\ todo'.start[n] = todo.start[n]
    BY <2>1, <1>0
  <2>6. /\ todo.start[n] # Nil => WantsSidecar(n) /\ todo.start[n] = Copy(row[n])
        /\ WantsSidecar(n) => todo.start[n] # Nil
    BY <2>1, <2>2 DEF CleanNode, BootFollows
  <2>7. \/ n \in todo'.stop \/ todo'.start[n] # Nil
        \/ Fits(n)
    BY <2>5, <2>6 DEF Fits
  <2> QED BY <2>2, <2>3, <2>4, <2>5, <2>6, <2>7, <1>0, CleanBoot
<1>2. CASE SyncNext
  <2>1. CleanNode(n) /\ act[Boot].at = "next"
    BY <1>2 DEF SyncNext, history
  <2>2. /\ n \in todo.stop => ~WantsSidecar(n)
        /\ todo.start[n] # Nil => WantsSidecar(n) /\ todo.start[n] = Copy(row[n])
    BY <2>1 DEF CleanNode, BootFollows
  <2>3. n \in todo.stop \/ todo.start[n] # Nil \/ ~Awaits(n)
    BY <2>1 DEF Awaits
  <2>4. CASE todo.stop # {}
    <3>1. PICK m \in todo.stop : /\ Go(Boot, [Idle EXCEPT !.at = "stop", !.n = m])
                                 /\ todo' = [todo EXCEPT !.stop = @ \ {m}]
      BY <1>2, <2>4 DEF SyncNext
    <3> DEFINE s == [Idle EXCEPT !.at = "stop", !.n = m]
    <3>2. s \in Acts /\ s.at = "stop" /\ s.n = m /\ act' = [act EXCEPT ![Boot] = s]
      BY <1>0, <3>1 DEF Go, Acts, Idle, Places
    <3> HIDE DEF s
    <3>3. (n \in todo'.stop <=> n \in todo.stop /\ n # m) /\ todo'.start[n] = todo.start[n]
      BY <1>0, <3>1
    <3> QED BY <2>1, <2>2, <2>3, <3>1, <3>2, <3>3, <1>0, CleanBoot
  <2>5. CASE todo.stop = {} /\ \E k \in Nodes : todo.start[k] # Nil
    <3>1. PICK m \in Nodes : /\ todo.start[m] # Nil
                             /\ Go(Boot, [Idle EXCEPT !.at = "start", !.n = m, !.conf = todo.start[m]])
                             /\ todo' = [todo EXCEPT !.start[m] = Nil]
      BY <1>2, <2>5 DEF SyncNext
    <3> DEFINE s == [Idle EXCEPT !.at = "start", !.n = m, !.conf = todo.start[m]]
    <3>2. s \in Acts /\ s.at = "start" /\ s.n = m /\ s.conf = todo.start[m] /\ act' = [act EXCEPT ![Boot] = s]
      BY <1>0, <3>1 DEF Go, Acts, Idle, Places
    <3> HIDE DEF s
    <3>3. /\ n \in todo'.stop <=> n \in todo.stop
          /\ todo'.start[n] = IF n = m THEN Nil ELSE todo.start[n]
      BY <1>0, <3>1
    <3> QED BY <2>1, <2>2, <2>3, <3>1, <3>2, <3>3, <1>0, CleanBoot
  <2>6. CASE todo.stop = {} /\ ~\E k \in Nodes : todo.start[k] # Nil
    <3>1. act' = [act EXCEPT ![Boot] = Idle] /\ todo' = todo
      BY <1>2, <2>6 DEF SyncNext, Go
    <3>2. ~Awaits(n)
      BY <2>1, <2>6 DEF Awaits
    <3> QED BY <2>1, <2>2, <3>1, <3>2, <1>0, CleanBoot
  <2> QED BY <2>4, <2>5, <2>6
<1> QED BY <1>1, <1>2 DEF Sync

LEMMA CleanInit == ASSUME NaiveInit, NEW n \in Nodes PROVE CleanNode(n)
<1>1. \A a \in Coroutines : act[a].at = "idle"
  BY DEF NaiveInit, Idle
<1>2. Boot \in Coroutines /\ Requests \subseteq Coroutines /\ row[n] = Nil /\ box[n] = Nil
  BY NilFacts DEF NaiveInit
<1> QED BY <1>1, <1>2 DEF CleanNode, CallsFollow, IsStarting, IsStopping, OneAtATime, WorksOn,
                          AllocationsFollow, IsAllocating, DropsFollow, BootFollows, RestFits, Fits,
                          WantsSidecar

LEMMA SidecarInvInit == ASSUME NaiveInit PROVE SidecarInv
<1>1. BootBetween
  BY NilFacts DEF NaiveInit, BootBetween, Idle
<1> QED BY <1>1, BaseInit, CleanInit DEF SidecarInv

LEMMA SidecarInvStep == ASSUME SidecarInv, [NaiveNext]_naiveVars PROVE SidecarInv'
<1>1. Base /\ BootBetween /\ \A n \in Nodes \ (raced \cup failed) : CleanNode(n)
  BY DEF SidecarInv
<1>2. Base' /\ BootBetween'
  BY <1>1, BaseStep, BetweenStep
<1>3. ASSUME NEW n \in Nodes \ (raced' \cup failed') PROVE CleanNode(n)'
  <2>1. n \notin raced \cup failed => CleanNode(n)
    BY <1>1
  <2>2. CASE UNCHANGED naiveVars
    BY <1>1, <1>2, <2>1, <2>2, CleanRest DEF naiveVars, history
  <2>3. CASE NaiveNext
    BY <1>1, <1>2, <2>1, <2>3, CleanManager, CleanEdit, CleanServe, CleanSupervise, CleanOutside,
       CleanSync, CleanRestart DEF NaiveNext
  <2> QED BY <2>2, <2>3
<1> QED BY <1>2, <1>3 DEF SidecarInv

(* Once nothing is under way, a node changed by one request at a time and  *)
(* for which Docker obeyed has a sidecar if and only if its row is enabled *)
(* and has a port, and that sidecar runs on the row as it is: whatever     *)
(* number of nodes, requests, deaths, restarts of the backend, rows        *)
(* dropped beside.                                                         *)
THEOREM SidecarsKept == NaiveSpec => []SidecarsFollowRows
<1>1. NaiveInit => SidecarInv
  BY SidecarInvInit
<1>2. SidecarInv /\ [NaiveNext]_naiveVars => SidecarInv'
  BY SidecarInvStep
<1>3. SidecarInv => SidecarsFollowRows
  <2> SUFFICES ASSUME SidecarInv, Settled, NEW n \in Nodes \ (raced \cup failed)
               PROVE  IF WantsSidecar(n) THEN box[n] # Nil /\ box[n].conf = Copy(row[n]) ELSE box[n] = Nil
    BY DEF SidecarsFollowRows
  <2>1. CleanNode(n) /\ Boot \in Coroutines
    BY NilFacts DEF SidecarInv
  <2>2. (\A a \in Coroutines : ~Holds(a, n)) /\ ~Awaits(n)
    BY <2>1 DEF Settled, Holds, WorksOn, Awaits
  <2> QED BY <2>1, <2>2 DEF CleanNode, RestFits, Fits
<1> QED BY <1>1, <1>2, <1>3, PTL DEF NaiveSpec

-----------------------------------------------------------------------------
\* The boot has not dealt with n yet, and will.
Owing(n) ==
  \/ act[Boot].at = "list"
  \/ act[Boot].at # "idle" /\ (n \in todo.stop \/ todo.start[n] # Nil)
  \/ act[Boot].at \in {"start", "stop"} /\ act[Boot].n = n

\* A sidecar whose lock is free and that the boot will leave alone runs on its file.
RunsItsFile(n) == lock[n] = Nil /\ box[n] # Nil /\ ~Owing(n) => box[n].conf = file[n]
FileInv == Base /\ \A n \in Nodes \ failed : RunsItsFile(n)

LEMMA FileFrame ==
  ASSUME NEW n \in Nodes, RunsItsFile(n), lock'[n] = lock[n], file'[n] = file[n],
         box'[n] = box[n] \/ (box[n] # Nil /\ box'[n].conf = box[n].conf),
         \/ act'[Boot] = act[Boot] /\ todo' = todo
         \/ Owing(n) => Owing(n)'
  PROVE  RunsItsFile(n)'
<1>1. Owing(n) => Owing(n)'
  BY DEF Owing
<1> QED BY <1>1 DEF RunsItsFile

\* The manager writes and starts under the lock; a failed call leaves the node out.
LEMMA FileManager ==
  ASSUME Base, NEW a \in Coroutines, Manager(a) \/ DockerFails(a), NEW n \in Nodes \ failed',
         RunsItsFile(n)
  PROVE  RunsItsFile(n)'
<1> DEFINE m == act[a].n
<1>1. /\ SidecarTypes /\ UnderLock(a) /\ Role(a) /\ act[a] \in Acts /\ Boot \in Coroutines
      /\ act \in [Coroutines -> Acts] /\ lock \in [Nodes -> Coroutines \cup {Nil}]
      /\ file \in [Nodes -> FileConf \cup {Nil}] /\ box \in [Nodes -> Box \cup {Nil}]
      /\ Nil \notin Coroutines
  BY NilFacts DEF Base, SidecarTypes, Roles
<1>2. m \in Nodes /\ todo' = todo /\ act[a].at \in {"start", "remove", "run", "stop", "wipe"}
  BY <1>1 DEF Role, Manager, DockerFails, WriteConfig, RemoveForStart, RunContainer, RemoveForStop, DeleteConfig
<1>3. CASE m # n
  <2>1. lock'[n] = lock[n] /\ file'[n] = file[n] /\ box'[n] = box[n]
    BY <1>1, <1>2, <1>3 DEF Manager, DockerFails, WriteConfig, RemoveForStart, RunContainer,
                            RemoveForStop, DeleteConfig, Remove
  <2>2. CASE a # Boot
    <3>1. act'[Boot] = act[Boot]
      BY <2>2, <1>1 DEF Manager, DockerFails, WriteConfig, RemoveForStart, RunContainer,
                        RemoveForStop, DeleteConfig, Go, At
    <3> QED BY <2>1, <3>1, <1>2, FileFrame
  <2>3. CASE a = Boot
    <3>1. act'[Boot].at # "idle"
      <4>1. CASE Go(a, After(a))
        BY <4>1, <2>3, <1>1 DEF Go, After, Idle
      <4>2. ASSUME NEW l \in {"remove", "run", "wipe"}, At(a, l) PROVE act'[Boot].at # "idle"
        BY <4>2, <2>3, <1>1 DEF At, Acts
      <4> QED BY <4>1, <4>2 DEF Manager, DockerFails, WriteConfig, RemoveForStart, RunContainer,
                                RemoveForStop, DeleteConfig
    <3>2. Owing(n) => Owing(n)'
      BY <3>1, <2>3, <1>2, <1>3 DEF Owing
    <3> QED BY <2>1, <3>2, FileFrame
  <2> QED BY <2>2, <2>3
<1>4. CASE m = n
  <2>1. CASE WriteConfig(a) \/ RemoveForStart(a)
    <3>1. lock'[n] = a
      BY <2>1, <1>1, <1>2, <1>4 DEF WriteConfig, RemoveForStart, UnderLock
    <3> QED BY <3>1, <1>1 DEF RunsItsFile
  <2>2. CASE RunContainer(a)
    BY <2>2, <1>1, <1>2, <1>4 DEF RunContainer, RunsItsFile
  <2>3. CASE RemoveForStop(a)
    BY <2>3, <1>1, <1>2, <1>4 DEF RemoveForStop, Remove, RunsItsFile
  <2>4. CASE DeleteConfig(a)
    BY <2>4, <1>1, <1>2, <1>4 DEF DeleteConfig, UnderLock, RunsItsFile
  <2>5. CASE DockerFails(a)
    BY <2>5, <1>4 DEF DockerFails
  <2> QED BY <2>1, <2>2, <2>3, <2>4, <2>5 DEF Manager
<1> QED BY <1>3, <1>4

\* The boot lists, and takes up, every container there is.
LEMMA FileSync ==
  ASSUME Base, Sync, NEW n \in Nodes \ failed', n \notin failed => RunsItsFile(n)
  PROVE  RunsItsFile(n)'
<1>1. /\ act \in [Coroutines -> Acts] /\ Boot \in Coroutines /\ act[Boot] \in Acts
      /\ todo \in [stop : SUBSET Nodes, start : [Nodes -> FileConf \cup {Nil}]]
  BY NilFacts DEF Base, SidecarTypes
<1>2. UNCHANGED <<lock, file, box>>
  BY DEF Sync, ListSidecars, SyncNext
<1>3. CASE ListSidecars
  <2>1. /\ At(Boot, "next")
        /\ todo' = [todo EXCEPT !.stop = {k \in Nodes : box[k] # Nil /\ todo.start[k] = Nil}]
    BY <1>3 DEF ListSidecars
  <2>2. act'[Boot].at = "next"
    BY <2>1, <1>1 DEF At, Acts
  <2>3. todo'.start = todo.start /\ todo'.stop = {k \in Nodes : box[k] # Nil /\ todo.start[k] = Nil}
    BY <2>1, <1>1
  <2>4. box[n] # Nil => Owing(n)'
    BY <2>2, <2>3 DEF Owing
  <2> QED BY <2>4, <1>2 DEF RunsItsFile
<1>4. CASE SyncNext
  <2>1. n \notin failed /\ act[Boot].at = "next"
    BY <1>4 DEF SyncNext, history
  <2>2. Owing(n) => Owing(n)'
    <3>1. CASE todo.stop # {}
      <4>1. PICK k \in todo.stop : /\ Go(Boot, [Idle EXCEPT !.at = "stop", !.n = k])
                                   /\ todo' = [todo EXCEPT !.stop = @ \ {k}]
        BY <1>4, <3>1 DEF SyncNext
      <4>2. act'[Boot].at = "stop" /\ act'[Boot].n = k
        BY <4>1, <1>1 DEF Go, Idle
      <4>3. todo'.start = todo.start /\ todo'.stop = todo.stop \ {k}
        BY <4>1, <1>1
      <4> QED BY <2>1, <4>2, <4>3 DEF Owing
    <3>2. CASE todo.stop = {} /\ \E k \in Nodes : todo.start[k] # Nil
      <4>1. PICK k \in Nodes : /\ Go(Boot, [Idle EXCEPT !.at = "start", !.n = k, !.conf = todo.start[k]])
                               /\ todo' = [todo EXCEPT !.start[k] = Nil]
        BY <1>4, <3>2 DEF SyncNext
      <4>2. act'[Boot].at = "start" /\ act'[Boot].n = k
        BY <4>1, <1>1 DEF Go, Idle
      <4>3. todo'.stop = todo.stop /\ (k # n => todo'.start[n] = todo.start[n])
        BY <4>1, <1>1
      <4> QED BY <2>1, <4>2, <4>3 DEF Owing
    <3>3. CASE todo.stop = {} /\ ~\E k \in Nodes : todo.start[k] # Nil
      BY <3>3, <2>1 DEF Owing
    <3> QED BY <3>1, <3>2, <3>3
  <2> QED BY <2>1, <2>2, <1>2, FileFrame
<1> QED BY <1>3, <1>4 DEF Sync

\* What Docker does by itself: a process that is started again reads the file.
LEMMA FileOutside ==
  ASSUME Base, NEW n \in Nodes, RunsItsFile(n), NEW m \in Nodes, SidecarDies(m) \/ DockerRestarts(m)
  PROVE  RunsItsFile(n)'
<1>1. box \in [Nodes -> Box \cup {Nil}] /\ Nil \notin Box /\ Nil \notin FileConf
  BY NilFacts DEF Base, SidecarTypes
<1>2. UNCHANGED <<file, lock, act, todo>>
  BY DEF SidecarDies, DockerRestarts
<1>3. CASE m # n
  <2>1. box'[n] = box[n]
    BY <1>1, <1>3 DEF SidecarDies, DockerRestarts
  <2> QED BY <2>1, <1>2, FileFrame
<1>4. CASE m = n /\ SidecarDies(m)
  <2>1. box[n] # Nil /\ box'[n] = [box[n] EXCEPT !.up = FALSE]
    BY <1>1, <1>4 DEF SidecarDies
  <2>2. box'[n].conf = box[n].conf
    BY <2>1, <1>1 DEF Box
  <2> QED BY <2>1, <2>2, <1>2, FileFrame
<1>5. CASE m = n /\ DockerRestarts(m)
  <2>1. box[n] # Nil /\ box'[n].conf = IF file[n] = Nil THEN box[n].conf ELSE file[n]
    BY <1>1, <1>5 DEF DockerRestarts
  <2>2. Owing(n)' <=> Owing(n)
    BY <1>2 DEF Owing
  <2> QED BY <2>1, <2>2, <1>2 DEF RunsItsFile
<1> QED BY <1>3, <1>4, <1>5

LEMMA FileStep == ASSUME FileInv, [NaiveNext]_naiveVars PROVE FileInv'
<1>1. Base /\ Base' /\ \A n \in Nodes \ failed : RunsItsFile(n)
  BY BaseStep DEF FileInv
<1>0. act \in [Coroutines -> Acts] /\ Boot \in Coroutines /\ Boot \notin Requests /\ Supervisor # Boot
  BY <1>1, NilFacts DEF Base, SidecarTypes
<1>2. SUFFICES ASSUME NEW n \in Nodes \ failed' PROVE RunsItsFile(n)'
  BY <1>1 DEF FileInv
<1>3. ASSUME n \notin failed, UNCHANGED <<lock, file, box, todo>>, act'[Boot] = act[Boot] PROVE RunsItsFile(n)'
  BY <1>1, <1>3, FileFrame
<1>4. ASSUME NEW a \in Coroutines, Manager(a) \/ DockerFails(a) PROVE RunsItsFile(n)'
  <2>1. n \notin failed
    BY <1>4 DEF Manager, DockerFails, WriteConfig, RemoveForStart, RunContainer, RemoveForStop,
       DeleteConfig, history
  <2> QED BY <2>1, <1>1, <1>4, FileManager
<1>5. ASSUME NEW r \in Requests, NEW m \in Nodes,
             CreateNode(r, m) \/ UpdateNode(r, m) \/ RestartSidecar(r, m) \/ DeleteNode(r, m)
      PROVE  RunsItsFile(n)'
  <2>1. UNCHANGED <<failed, lock, file, box, todo>> /\ act'[Boot] = act[Boot]
    BY <1>5, <1>0 DEF CreateNode, UpdateNode, RestartSidecar, DeleteNode, Ensure, Go, Rest
  <2> QED BY <2>1, <1>3
<1>6. ASSUME NEW r \in Requests, Serve(r) PROVE RunsItsFile(n)'
  <2>1. UNCHANGED <<lock, file, box, todo>> /\ act'[Boot] = act[Boot] /\ failed \subseteq failed'
    BY <1>6, <1>0 DEF Serve, DropRow, AllocatePort, TakePort, Go, Rest, history
  <2> QED BY <2>1, <1>3
<1>7. CASE \/ Supervise \/ StreamBreaks \/ \E S \in SUBSET Nodes : DropRows(S)
           \/ \E m \in Nodes : Forget(m)
  <2>1. UNCHANGED <<failed, lock, file, box, todo>> /\ act'[Boot] = act[Boot]
    BY <1>7, <1>0 DEF Supervise, HandleEvent, RestartNode, Reconnect, StreamBreaks, DropRows, Forget, Go, history
  <2> QED BY <2>1, <1>3
<1>8. CASE Sync
  BY <1>1, <1>8, FileSync
<1>9. CASE Restart
  <2>1. act'[Boot].at = "list"
    BY <1>9, <1>0 DEF Restart, Idle
  <2> QED BY <2>1 DEF RunsItsFile, Owing
<1>10. ASSUME NEW m \in Nodes, SidecarDies(m) \/ DockerRestarts(m) PROVE RunsItsFile(n)'
  <2>1. n \notin failed
    BY <1>10 DEF SidecarDies, DockerRestarts, history
  <2> QED BY <2>1, <1>1, <1>10, FileOutside
<1>11. CASE UNCHANGED naiveVars
  BY <1>11, <1>3 DEF naiveVars, history
<1> QED BY <1>4, <1>5, <1>6, <1>7, <1>8, <1>9, <1>10, <1>11 DEF NaiveNext

(* Whatever races, once no boot is under way a sidecar nobody is working   *)
(* on, and for which Docker obeyed, runs on the file that stands behind    *)
(* it: the lock of the node keeps one restart's file together with its     *)
(* container, and the boot makes good what an end in between left apart.   *)
THEOREM SidecarsRunTheirFiles == NaiveSpec => []BoxRunsItsFile
<1>1. NaiveInit => FileInv
  <2>1. ASSUME NaiveInit, NEW n \in Nodes PROVE RunsItsFile(n)
    BY <2>1 DEF NaiveInit, RunsItsFile
  <2> QED BY <2>1, BaseInit DEF FileInv
<1>2. FileInv /\ [NaiveNext]_naiveVars => FileInv'
  BY FileStep
<1>3. FileInv => BoxRunsItsFile
  <2> SUFFICES ASSUME FileInv, act[Boot].at = "idle", NEW n \in Nodes \ failed, lock[n] = Nil, box[n] # Nil
               PROVE  box[n].conf = file[n]
    BY DEF BoxRunsItsFile
  <2>1. RunsItsFile(n) /\ ~Owing(n)
    BY DEF FileInv, Owing
  <2> QED BY <2>1 DEF RunsItsFile
<1> QED BY <1>1, <1>2, <1>3, PTL DEF NaiveSpec

=============================================================================
