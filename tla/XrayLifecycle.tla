---------------------------- MODULE XrayLifecycle ---------------------------
(***************************************************************************)
(* The xray process and the nftables table that sends traffic to it        *)
(* (core/xray.py, core/dataplane.py, the table operations of               *)
(* core/nftables.py).                                                      *)
(*                                                                         *)
(* Lifecycle calls (API background tasks, failover, circle rotation), the  *)
(* log readers of the processes launched so far and the boot sequence are  *)
(* coroutines of one event loop; a step is the code between two awaits.    *)
(* The manager's lock covers the process only: the table is replaced       *)
(* outside it, in two commands (delete, then load).  A load into a table   *)
(* somebody else has just created merges with it.                          *)
(***************************************************************************)
EXTENDS Naturals, FiniteSets

CONSTANTS
  Ops,         \* lifecycle calls, each made at most once
  Runs,        \* launches of the xray binary
  Kinds,       \* the calls that are made
  Confs,       \* settings in force: kill switch, auto restart, bypass mode
  Crashes,     \* bound on deaths of an xray process
  Faults,      \* bound on launches that fail
  LoadFaults,  \* bound on nft scripts that are refused
  Deadlines,   \* bound on circle rotations that run into their 20 s deadline
  EofFirst,    \* may end-of-file be seen before the exit status is collected?
  EarlyChecks  \* may a failover happen before the boot is over?

Kind == {"start", "stop", "restart", "reload", "failover", "rotate", "refresh"}
Conf == [kill : BOOLEAN, auto : BOOLEAN, bypass : BOOLEAN]

ASSUME ActorAssumption ==
  /\ Ops \cap Runs = {} /\ "boot" \notin Ops \cup Runs /\ "none" \notin Ops \cup Runs
ASSUME KindAssumption == Kinds \subseteq Kind /\ Confs \subseteq Conf
ASSUME BoundAssumption ==
  /\ Crashes \in Nat /\ Faults \in Nat /\ LoadFaults \in Nat /\ Deadlines \in Nat
  /\ EofFirst \in BOOLEAN /\ EarlyChecks \in BOOLEAN

VARIABLES
  conf,    \* Settings: kill_switch, auto_restart_xray (with an enabled node), mode = bypass
  life,    \* what became of each launch
  reaped,  \* launches whose returncode is known to the manager
  handle,  \* XrayManager._process; its reader is XrayManager._log_task
  pc,      \* where each coroutine stands
  kind,    \* the call each op makes
  nft,     \* the rule sets loaded into table inet pitun
  left,    \* what remains of the bounds
  loaded,  \* history: a table was loaded at least once
  solo,    \* history: a call begun in peace and undisturbed since, or none
  halted   \* history: the proxy was stopped and nobody asked for it since

vars == <<conf, life, reaped, handle, pc, kind, nft, left, loaded, solo, halted>>

None == "none"
Actors == Ops \cup Runs \cup {"boot"}
Ended == {"ok", "busy", "failed"}
Labels == {"new", "block_del", "block_load", "wait", "term", "spawn", "rules_del",
           "rules_load", "flush"} \cup Ended
          \cup {"unborn", "reading", "kill_del", "kill_load", "backoff", "lock", "decide", "gone"}
Lives == {"unborn", "alive", "crashed", "exited"}

\* is_running: the process exists and its returncode is not known.
Running == handle # None /\ handle \notin reaped

\* Mutant: the recovery takes no lock.
HeldByCalls == \E o \in Ops : pc[o] \in {"term", "spawn"}

\* Calls and readers inside _lock; the boot sequence does not take it.
Held == \/ \E o \in Ops : pc[o] \in {"term", "spawn"}
        \/ \E i \in Runs : pc[i] \in {"decide", "rules_del", "rules_load", "spawn"}

Serving == pc["boot"] = "gone"

\* No call and no recovery is in flight.
Quiet ==
  /\ Serving
  /\ \A o \in Ops : pc[o] \in {"new"} \cup Ended
  /\ \A i \in Runs : pc[i] = "reading" => life[i] = "alive"
  /\ \A i \in Runs : pc[i] \in {"unborn", "reading", "gone"}

Init ==
  /\ conf \in Confs
  /\ life = [i \in Runs |-> "unborn"] /\ reaped = {} /\ handle = None
  /\ pc = [a \in Actors |-> IF a \in Ops THEN "new" ELSE IF a = "boot" THEN "decide" ELSE "unborn"]
  /\ kind = [o \in Ops |-> None]
  /\ nft = {}
  /\ left = [crash |-> Crashes, fault |-> Faults, load |-> LoadFaults, deadline |-> Deadlines]
  /\ loaded = FALSE /\ solo = None /\ halted = FALSE

Goto(a, l) == pc' = [pc EXCEPT ![a] = l]
Spend(k) == left[k] > 0 /\ left' = [left EXCEPT ![k] = @ - 1]

-----------------------------------------------------------------------------
(* Replacing the table.                                                    *)

Delete(a, l) == nft' = {} /\ Goto(a, l) /\ UNCHANGED <<conf, life, reaped, handle, kind, left, loaded, solo, halted>>

\* The script is merged into what is there, or refused and leaves it as it was.
Load(a, rules, l) ==
  /\ \/ nft' = nft \cup {rules} /\ loaded' = TRUE /\ UNCHANGED <<left, solo>>
     \/ Spend("load") /\ solo' = None /\ UNCHANGED <<nft, loaded>>
  /\ Goto(a, l)
  /\ UNCHANGED <<conf, life, reaped, handle, kind, halted>>

\* Where a coroutine goes when the redirect rules are in place: a call is done, a
\* recovery (or the boot) launches xray unless it finds it running.
AfterRules(a) == IF a \in Ops THEN "ok" ELSE IF Running THEN "gone" ELSE "spawn"

\* _apply_nftables: in bypass mode the table is only removed.
RulesDelete(a) ==
  /\ pc[a] = "rules_del" /\ Delete(a, IF conf.bypass THEN AfterRules(a) ELSE "rules_load")

RulesLoad(a) == pc[a] = "rules_load" /\ Load(a, "redirect", AfterRules(a))

\* A stop with the kill switch blocks first and stops then.
BlockDelete(o) == pc[o] = "block_del" /\ Delete(o, "block_load")
BlockLoad(o) == pc[o] = "block_load" /\ Load(o, "drop", "wait")

Flush(o) == pc[o] = "flush" /\ Delete(o, "ok")

Table(a) == RulesDelete(a) \/ RulesLoad(a)

-----------------------------------------------------------------------------
(* Lifecycle calls: apply_dataplane() and the bare reloads.                *)

\* start is a reload of a running xray; reload, a rotation's full reload and a refresh
\* of the table's exceptions are no-ops when nothing runs.  All of this is read before
\* the lock is requested.
Begin(o) ==
  /\ pc[o] = "new"
  /\ \E k \in Kinds :
       /\ Serving \/ (k = "failover" /\ EarlyChecks)
       /\ kind' = [kind EXCEPT ![o] = IF k = "start" /\ Running THEN "restart" ELSE k]
       /\ Goto(o, IF k \in {"reload", "rotate", "refresh"} /\ ~Running THEN "ok"
                  ELSE IF k = "stop" /\ conf.kill THEN "block_del"
                  ELSE IF k = "refresh" THEN "rules_del" ELSE "wait")
       /\ solo' = IF Quiet THEN o ELSE None
       /\ halted' = (halted /\ k \notin {"start", "restart"})
  /\ UNCHANGED <<conf, life, reaped, handle, nft, left, loaded>>

\* Mutants: a stop always flushes; a start leaves the table as it is.
LeaveFlushing(o) ==
  IF kind[o] \in {"start", "restart", "reload"} THEN "rules_del"
  ELSE IF kind[o] = "stop" THEN "flush" ELSE "ok"
LeaveStarted(o) ==
  IF kind[o] \in {"restart", "reload"} THEN "rules_del"
  ELSE IF kind[o] = "stop" /\ ~conf.kill THEN "flush" ELSE "ok"

\* What a call does once it has left the lock.
Leave(o) ==
  IF kind[o] \in {"start", "restart", "reload"} THEN "rules_del"
  ELSE IF kind[o] = "stop" /\ ~conf.kill THEN "flush" ELSE "ok"

\* A start that is still under way wants xray up.
Wanted == \E o \in Ops : kind[o] \in {"start", "restart"} /\ pc[o] \notin Ended
Stopping(o) == IF kind[o] = "stop" THEN ~Wanted ELSE halted

Acquire(o) ==
  /\ pc[o] = "wait" /\ ~Held
  /\ IF Running
       THEN Goto(o, IF kind[o] = "start" THEN Leave(o) ELSE "term") /\ UNCHANGED halted
       ELSE Goto(o, IF kind[o] = "stop" THEN Leave(o) ELSE "spawn") /\ halted' = Stopping(o)
  /\ UNCHANGED <<conf, life, reaped, handle, kind, nft, left, loaded, solo>>

\* LockBusyError after 30 s: the call ends here, the table is left alone.
Busy(o) ==
  /\ pc[o] = "wait" /\ Held /\ Goto(o, "busy")
  /\ UNCHANGED <<conf, life, reaped, handle, kind, nft, left, loaded, solo, halted>>

\* Mutant: the process is forgotten before its exit is noted.
TerminatedLate(o, l) ==
  /\ life' = [life EXCEPT ![handle] = IF @ = "alive" THEN "exited" ELSE @]
  /\ handle' = None
  /\ reaped' = reaped \cup {handle'}
  /\ pc' = [pc EXCEPT ![o] = l, ![handle] = "gone"]

\* The process is gone (SIGTERM, or SIGKILL after 10 s); the reader is cancelled.
Terminated(o, l) ==
  /\ life' = [life EXCEPT ![handle] = IF @ = "alive" THEN "exited" ELSE @]
  /\ reaped' = reaped \cup {handle}
  /\ handle' = None
  /\ pc' = [pc EXCEPT ![o] = l, ![handle] = "gone"]

Term(o) ==
  /\ pc[o] = "term"
  /\ Terminated(o, IF kind[o] = "stop" THEN Leave(o) ELSE "spawn")
  /\ halted' = Stopping(o)
  /\ UNCHANGED <<conf, kind, nft, left, loaded, solo>>

\* _start_unlocked by a call, a recovery or the boot.
Spawn(a) ==
  /\ pc[a] = "spawn"
  /\ \E i \in Runs :
       /\ life[i] = "unborn" /\ life' = [life EXCEPT ![i] = "alive"]
       /\ handle' = i
       /\ pc' = [pc EXCEPT ![i] = "reading", ![a] = IF a \in Ops THEN Leave(a) ELSE "gone"]
  /\ UNCHANGED <<conf, reaped, kind, nft, left, loaded, solo, halted>>

SpawnFails(a) ==
  /\ pc[a] = "spawn" /\ Spend("fault")
  /\ Goto(a, IF a \in Ops THEN "failed" ELSE "gone")
  /\ solo' = None
  /\ UNCHANGED <<conf, life, reaped, handle, kind, nft, loaded, halted>>

\* asyncio.timeout around a rotation cancels its reload wherever it stands: a stop
\* under way still forgets the process, a launch under way is undone.
Deadline(o) ==
  /\ kind[o] = "rotate" /\ Spend("deadline")
  /\ \/ pc[o] \in {"wait", "spawn"} /\ Goto(o, "failed") /\ UNCHANGED <<life, reaped, handle>>
     \/ pc[o] = "term" /\ Terminated(o, "failed")
  /\ solo' = None
  /\ UNCHANGED <<conf, kind, nft, loaded, halted>>

Call(o) == \/ Begin(o) \/ Acquire(o) \/ Busy(o) \/ Term(o) \/ Deadline(o)
           \/ BlockDelete(o) \/ BlockLoad(o) \/ Flush(o)

Launch(a) == Spawn(a) \/ SpawnFails(a)

-----------------------------------------------------------------------------
(* _read_logs(): the reader of a launch, and the recovery after a crash.   *)

\* End of the process's output.  While a stop waits for the process, the stop
\* cancels the reader before it gets any further.
Eof(i) ==
  /\ pc[i] = "reading" /\ life[i] \in {"crashed", "exited"}
  /\ i \in reaped \/ EofFirst
  /\ \A o \in Ops : pc[o] # "term"
  /\ Goto(i, IF handle \in reaped /\ life[handle] = "crashed"
             THEN IF conf.kill THEN "kill_del" ELSE "backoff"
             ELSE "gone")
  /\ UNCHANGED <<conf, life, reaped, handle, kind, nft, left, loaded, solo, halted>>

KillDelete(i) == pc[i] = "kill_del" /\ Delete(i, "kill_load")
KillLoad(i) == pc[i] = "kill_load" /\ Load(i, "drop", "backoff")

\* Mutant: a process that died counts as running.
WakeGivesUp(i) ==
  /\ pc[i] = "backoff" /\ Goto(i, IF handle # None THEN "gone" ELSE "lock")
  /\ UNCHANGED <<conf, life, reaped, handle, kind, nft, left, loaded, solo, halted>>

\* The backoff is slept outside the lock, is_running is read after it.
Wake(i) ==
  /\ pc[i] = "backoff" /\ Goto(i, IF Running THEN "gone" ELSE "lock")
  /\ UNCHANGED <<conf, life, reaped, handle, kind, nft, left, loaded, solo, halted>>

\* async with self._lock: a recovery has no deadline.
ReaderAcquire(i) ==
  /\ pc[i] = "lock" /\ ~Held /\ Goto(i, "decide")
  /\ UNCHANGED <<conf, life, reaped, handle, kind, nft, left, loaded, solo, halted>>

\* _auto_restart_if_enabled: settings, 3 s, config; then the table, then xray.
Decide(a) ==
  /\ pc[a] = "decide" /\ Goto(a, IF conf.auto THEN "rules_del" ELSE "gone")
  /\ UNCHANGED <<conf, life, reaped, handle, kind, nft, left, loaded, solo, halted>>

Reader(i) == Eof(i) \/ KillDelete(i) \/ KillLoad(i) \/ Wake(i) \/ ReaderAcquire(i)

-----------------------------------------------------------------------------
(* The environment.                                                        *)

\* xray dies by itself, with an error or without.
Die(i) ==
  /\ life[i] = "alive" /\ Spend("crash")
  /\ \E e \in {"crashed", "exited"} : life' = [life EXCEPT ![i] = e]
  /\ solo' = None
  /\ UNCHANGED <<conf, reaped, handle, pc, kind, nft, loaded, halted>>

\* The child watcher collects the exit status.
Reap(i) ==
  /\ life[i] \in {"crashed", "exited"} /\ i \notin reaped
  /\ reaped' = reaped \cup {i}
  /\ UNCHANGED <<conf, life, handle, pc, kind, nft, left, loaded, solo, halted>>

Next ==
  \/ \E o \in Ops : Call(o)
  \/ \E i \in Runs : Reader(i) \/ Die(i) \/ Reap(i)
  \/ \E a \in Runs \cup {"boot"} : Decide(a)
  \/ \E a \in Actors : Table(a) \/ Launch(a)

Spec == Init /\ [][Next]_vars

\* Every coroutine the event loop has started goes on; nobody has to call anything
\* and nothing has to die.
Fairness ==
  /\ \A o \in Ops : WF_vars((pc[o] # "new" /\ (Acquire(o) \/ Term(o) \/ BlockDelete(o)
                               \/ BlockLoad(o) \/ Flush(o))) \/ Table(o) \/ Launch(o))
  /\ \A i \in Runs : WF_vars(Reader(i) \/ Decide(i) \/ Table(i) \/ Launch(i)) /\ WF_vars(Reap(i))
  /\ WF_vars(Decide("boot") \/ Table("boot") \/ Launch("boot"))

FairSpec == Spec /\ Fairness

-----------------------------------------------------------------------------
(* Properties.                                                             *)

TypeOK ==
  /\ conf \in Confs
  /\ life \in [Runs -> Lives] /\ reaped \subseteq Runs /\ handle \in Runs \cup {None}
  /\ pc \in [Actors -> Labels] /\ kind \in [Ops -> Kinds \cup {None, "restart"}]
  /\ nft \subseteq {"redirect", "drop"}
  /\ left \in [{"crash", "fault", "load", "deadline"} -> Nat]
  /\ loaded \in BOOLEAN /\ solo \in Ops \cup {None} /\ halted \in BOOLEAN

\* No process is lost: an xray that runs is the one the manager would stop.
OneXray == \A i \in Runs : life[i] = "alive" => handle = i

Replacing == \E a \in Actors : pc[a] \in {"rules_load", "block_load", "kill_load"}

\* With the kill switch on, a table that was loaded once is never gone but while
\* somebody is replacing it: whatever calls, crashes and recoveries overlap.
KillSwitchHolds == conf.kill /\ ~conf.bypass /\ loaded /\ ~Replacing => nft # {}

\* What a call leaves behind when it ends.
Served == Running /\ nft = IF conf.bypass THEN {} ELSE {"redirect"}
Blocked == ~Running /\ nft = IF conf.kill THEN {"drop"} ELSE {}

\* One call made in peace repairs whatever earlier races, crashes and refused
\* scripts have left.
PeaceRepairs ==
  solo # None /\ pc[solo] = "ok" =>
    /\ kind[solo] \in {"start", "restart"} => Served
    /\ kind[solo] = "stop" => Blocked

\* A crashed xray comes back when auto restart is on, unless a stop is requested, a
\* launch fails or a rotation is cut off by its deadline.
Recovers ==
  (conf.auto /\ \E i \in Runs : handle = i /\ life[i] = "crashed")
    ~> \/ \E i \in Runs : handle = i /\ life[i] = "alive"
       \/ \E o \in Ops : kind[o] = "stop"
       \/ left.fault < Faults \/ left.deadline < Deadlines

-----------------------------------------------------------------------------
(* What the code's comments and the documentation say of it.               *)

\* _read_logs: the backoff is "waited outside the lock so Start/Stop stay
\* responsive; Stop cancels this task": a proxy that was stopped stays down.
StopStays == halted /\ Quiet => ~Running

\* apply_dataplane: "A reload with nothing running is a no-op".
ReloadIsNoOp ==
  [][\A o \in Ops : kind[o] = "reload" /\ pc[o] = "wait" /\ ~Running => pc'[o] # "spawn"]_vars

\* apply_dataplane: "xray first so its inbounds are live, nftables second so the
\* redirects point at a listening port".
RedirectsAreServed == Quiet /\ "redirect" \in nft => Running

\* apply_kill_switch: "internet is blocked until proxy is back".
BlockedUntilBack == Quiet /\ Running => "drop" \notin nft

\* README: "Kill switch - drop all forwarded traffic if xray crashes".
CrashIsBlocked ==
  Quiet /\ conf.kill /\ (\E i \in Runs : handle = i /\ life[i] = "crashed") => nft # {}

\* rotate_circle: on the deadline "we abort cleanly (no permanent broken state)":
\* with nobody stopping the proxy, it is up when all is quiet.
DeadlineIsClean == Quiet /\ loaded => Running
=============================================================================
