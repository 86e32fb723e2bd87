----------------------------- MODULE RouterMode -----------------------------
(***************************************************************************)
(* Router mode and its commit-confirm watchdog (core/router_mode.py,       *)
(* core/router_watchdog.py, the router part of the settings PATCH in       *)
(* api/system.py, and the boot sequence in main.py).                       *)
(*                                                                         *)
(* The settings rows (mode, cfg, pending) live in SQLite and survive a     *)
(* crash.  The dataplane is the set of pieces currently up on the host.    *)
(* Settings requests, the watchdog loop and the boot sequence are          *)
(* coroutines of one event loop: a step of the model is the code between   *)
(* two awaits.  apply() and teardown() are called by all three, and no     *)
(* lock serialises them.                                                   *)
(***************************************************************************)
EXTENDS Naturals, FiniteSets

CONSTANTS
  Reqs,      \* settings requests, each sent at most once
  Configs,   \* the router configurations an operator may save
  Flaky,     \* pieces whose removal may fail (a dead Docker socket, nft refusing)
  Verdicts,  \* how the validation at the head of apply() may end
  Faults,    \* bound on failing apply steps
  Crashes,   \* bound on restarts of the process or the box
  Restores   \* bound on backup restores

Optional == {"wan", "bridge", "dhcp", "wifi"}
Pieces == Optional \cup {"nat"}

ASSUME RequestAssumption == Reqs \cap {"watchdog", "boot"} = {}
ASSUME ConfigAssumption == Configs # {} /\ Configs \subseteq SUBSET Optional
ASSUME FlakyAssumption == Flaky \subseteq Pieces
ASSUME VerdictAssumption == Verdicts \subseteq {"ok", "refused", "error"}
ASSUME BoundAssumption == Faults \in Nat /\ Crashes \in Nat /\ Restores \in Nat

VARIABLES
  mode,      \* Settings["operating_mode"]
  cfg,       \* the other router keys: which optional pieces they call for
  pending,   \* Settings[PENDING_KEY]: absent, in the future, in the past
  up,        \* the pieces of the dataplane that exist on the host
  pc,        \* where each coroutine stands
  seen,      \* the configuration an apply() in progress has read
  ret,       \* what teardown() returns to
  body,      \* the PATCH body of each request
  before,    \* the settings each request read before writing
  left,      \* what remains of the bounds on the environment
  owed       \* history: a window was open when the process died

settings == <<mode, cfg, pending>>
locals == <<seen, ret, body, before>>
vars == <<mode, cfg, pending, up, pc, seen, ret, body, before, left, owed>>

Procs == Reqs \cup {"watchdog", "boot"}
Modes == {"gateway", "router"}
Windows == {"none", "open", "expired"}

\* A PATCH body: for each key the value it carries, or nothing.
Bodies == [mode : SUBSET Modes, cfg : SUBSET Configs]
NoBody == [mode |-> {}, cfg |-> {}]

\* The settings a request compares its writes with; Blank while it holds none.
Snapshots == [mode : Modes, cfg : SUBSET Optional]
Blank == [mode |-> "gateway", cfg |-> {}]

\* Everything the configuration c needs once the box is a router.
Wanted(c) == c \cup {"nat"}

ApplySteps == {"read", "link", "nat", "dhcp", "wifi"}
TeardownSteps == {"t_dhcp", "t_wifi", "t_nat", "t_bridge"}
RevertSteps == {"set_gateway", "clear"}
RequestSteps == {"new", "commit", "arm", "disarm", "giveup", "answered", "failed"}
WatchdogSteps == {"off", "idle", "w_mode", "w_counters"}
BootSteps == {"recover", "reconcile", "start", "done"}
Labels == ApplySteps \cup TeardownSteps \cup RevertSteps \cup RequestSteps
            \cup WatchdogSteps \cup BootSteps
Outcomes == {"router", "gateway", "refused", "error", "reverted"}

\* HTTP requests are served once the lifespan startup has finished.
Serving == pc["boot"] = "done"

\* Where a coroutine stands when the process starts.
Restarted(p, request) ==
  IF p = "boot" THEN "recover" ELSE IF p = "watchdog" THEN "off" ELSE request

Init ==
  /\ mode = "gateway" /\ pending = "none" /\ up = {}
  /\ cfg \in Configs
  /\ pc = [p \in Procs |-> Restarted(p, "new")]
  /\ seen = [p \in Procs |-> {}]
  /\ ret = [p \in Procs |-> "gateway"]
  /\ body = [r \in Reqs |-> NoBody]
  /\ before = [r \in Reqs |-> Blank]
  /\ left = [fault |-> Faults, crash |-> Crashes, restore |-> Restores]
  /\ owed = FALSE

Goto(p, l) == pc' = [pc EXCEPT ![p] = l]

\* One use of the bounded environment event k.
Spend(k) == left[k] > 0 /\ left' = [left EXCEPT ![k] = @ - 1]

\* Where a request or the boot sequence continues after apply(). A boot apply
\* that was refused is torn down once more by reconcile_on_boot (the mutant
\* forgets it).
RequestResume == [router |-> "answered", gateway |-> "disarm",
                  refused |-> "giveup", error |-> "answered"]
BootResumeNoTeardown == [router |-> "start", gateway |-> "start",
                         refused |-> "start", error |-> "start"]
BootResume == [router |-> "start", gateway |-> "start",
               refused |-> "t_dhcp", error |-> "start"]

Resume(p, outcome) ==
  IF outcome = "reverted" THEN "set_gateway"
  ELSE IF p = "watchdog" THEN "idle"
  ELSE IF p = "boot" THEN BootResume[outcome] ELSE RequestResume[outcome]

\* Call teardown(), to continue with the outcome o when it is over.
CallTeardown(p, o) ==
  /\ Goto(p, "t_dhcp")
  /\ ret' = [ret EXCEPT ![p] = o]
  /\ seen' = [seen EXCEPT ![p] = {}]

Return(p, outcome) ==
  /\ Goto(p, Resume(p, outcome))
  /\ ret' = [ret EXCEPT ![p] = "gateway"]
  /\ seen' = [seen EXCEPT ![p] = {}]

-----------------------------------------------------------------------------
(* teardown(): best-effort, one piece after another, never raises.         *)

\* Piece x goes away, or its removal fails and is only recorded.
Drop(x) == \/ up' = up \ {x}
           \/ x \in Flaky /\ up' = up

TeardownDhcp(p) ==
  /\ pc[p] = "t_dhcp" /\ Drop("dhcp") /\ Goto(p, "t_wifi")
  /\ UNCHANGED <<settings, locals, left, owed>>

TeardownWifi(p) ==
  /\ pc[p] = "t_wifi" /\ Drop("wifi") /\ Goto(p, "t_nat")
  /\ UNCHANGED <<settings, locals, left, owed>>

\* The uplink connection and the firewall: no await separates them.
TeardownNat(p) ==
  /\ pc[p] = "t_nat"
  /\ \E kept \in SUBSET (up \cap {"wan", "nat"} \cap Flaky) :
       up' = (up \ {"wan", "nat"}) \cup kept
  /\ Goto(p, "t_bridge")
  /\ UNCHANGED <<settings, locals, left, owed>>

TeardownBridge(p) ==
  /\ pc[p] = "t_bridge" /\ Drop("bridge") /\ Return(p, ret[p])
  /\ UNCHANGED <<settings, body, before, left, owed>>

Teardown(p) == TeardownDhcp(p) \/ TeardownWifi(p) \/ TeardownNat(p) \/ TeardownBridge(p)

-----------------------------------------------------------------------------
(* apply(): reconcile the dataplane with the settings read at its start.   *)

\* The mode as apply() finds it: the retry's session still holds the row that
\* WatchdogMode read, and a query does not refresh a row the session holds.
SaysRouter(p) == p = "watchdog" \/ mode = "router"

\* The settings say gateway: apply() is a teardown.
ApplyGateway(p) ==
  /\ pc[p] = "read" /\ ~SaysRouter(p) /\ CallTeardown(p, "gateway")
  /\ UNCHANGED <<settings, up, body, before, left, owed>>

\* Validation happens before the try block, so a refusal (RouterModeError) and
\* any other exception (a LAN too small for the default pool) leave up alone.
ApplyRead(p) ==
  /\ pc[p] = "read" /\ SaysRouter(p)
  /\ \/ /\ "ok" \in Verdicts /\ Goto(p, "link")
        /\ seen' = [seen EXCEPT ![p] = cfg]
        /\ UNCHANGED <<ret, left>>
     \/ \E v \in Verdicts \ {"ok"} : Spend("fault") /\ Return(p, v)
  /\ UNCHANGED <<settings, up, body, before, owed>>

\* Any exception inside the try block: teardown, then RouterModeError.
Fail(p) == Spend("fault") /\ CallTeardown(p, "refused")

Continue(p, l) == Goto(p, l) /\ UNCHANGED <<ret, seen, left>>

\* Uplink, ip_forward and LAN bridge: no await between them, none is removed
\* when the configuration no longer calls for it.
ApplyLink(p) ==
  /\ pc[p] = "link"
  /\ LET built == seen[p] \cap {"wan", "bridge"} IN
       \/ up' = up \cup built /\ Continue(p, "nat")
       \/ /\ \E done \in SUBSET built : up' = (up \ (seen[p] \cap {"wan"})) \cup done
          /\ Fail(p)
  /\ UNCHANGED <<settings, body, before, owed>>

\* One nft transaction: it replaces the table or leaves it as it was.
ApplyNat(p) ==
  /\ pc[p] = "nat"
  /\ \/ up' = up \cup {"nat"} /\ Continue(p, "dhcp")
     \/ up' = up /\ Fail(p)
  /\ UNCHANGED <<settings, body, before, owed>>

\* Start or stop the sidecar x; the old container is removed before a start.
Sidecar(p, x, next) ==
  \/ x \in seen[p] /\ up' = up \cup {x} /\ next
  \/ x \notin seen[p] /\ up' = up \ {x} /\ next
  \/ up' \in {up} \cup (IF x \in seen[p] THEN {up \ {x}} ELSE {}) /\ Fail(p)
  \/ x \in seen[p] \cap Flaky /\ up' = up \cup {x} /\ Fail(p)

ApplyDhcp(p) ==
  /\ pc[p] = "dhcp" /\ Sidecar(p, "dhcp", Continue(p, "wifi"))
  /\ UNCHANGED <<settings, body, before, owed>>

ApplyWifi(p) ==
  /\ pc[p] = "wifi"
  /\ Sidecar(p, "wifi", Return(p, "router") /\ UNCHANGED left)
  /\ UNCHANGED <<settings, body, before, owed>>

Apply(p) == \/ ApplyGateway(p) \/ ApplyRead(p) \/ ApplyLink(p)
            \/ ApplyNat(p) \/ ApplyDhcp(p) \/ ApplyWifi(p)

-----------------------------------------------------------------------------
(* update_settings(): the PATCH that may change router settings.           *)

\* The handler snapshots the settings it will compare its writes with.
ReqRead(r) ==
  /\ Serving /\ pc[r] = "new" /\ Goto(r, "commit")
  /\ \E m \in {{}} \cup {{x} : x \in Modes}, c \in {{}} \cup {{x} : x \in Configs} :
       body' = [body EXCEPT ![r] = [mode |-> m, cfg |-> c]]
  /\ before' = [before EXCEPT ![r] = [mode |-> mode, cfg |-> cfg]]
  /\ UNCHANGED <<settings, up, seen, ret, left, owed>>

\* The values a key takes when the body may carry one.
Patched(values, old) == IF values = {} THEN old ELSE CHOOSE v \in values : TRUE

\* Writes and commits the rows first; nothing else happens when no router key
\* differs from the snapshot.
ReqCommit(r) ==
  /\ pc[r] = "commit"
  /\ mode' = Patched(body[r].mode, mode)
  /\ cfg' = Patched(body[r].cfg, cfg)
  /\ IF \/ Patched(body[r].mode, before[r].mode) # before[r].mode
        \/ Patched(body[r].cfg, before[r].cfg) # before[r].cfg
       THEN Goto(r, "arm") /\ UNCHANGED body
       ELSE Goto(r, "answered") /\ body' = [body EXCEPT ![r] = NoBody]
  /\ before' = [before EXCEPT ![r] = Blank]
  /\ UNCHANGED <<pending, up, seen, ret, left, owed>>

\* The confirmation window opens before apply() when the box will be a router.
ReqArm(r) ==
  /\ pc[r] = "arm" /\ Goto(r, "read")
  /\ pending' = IF Patched(body[r].mode, mode) = "router" THEN "open" ELSE pending
  /\ body' = [body EXCEPT ![r] = NoBody]
  /\ UNCHANGED <<mode, cfg, up, seen, ret, before, left, owed>>

\* Mutant: the row is emptied in a way pending() does not recognise.
ReqDisarmBlank(r) ==
  /\ pc[r] = "disarm" /\ Goto(r, "answered") /\ pending' = "blank"
  /\ UNCHANGED <<mode, cfg, up, locals, left, owed>>

\* apply() returned a gateway: a window left over is cleared.
ReqDisarm(r) ==
  /\ pc[r] = "disarm" /\ Goto(r, "answered") /\ pending' = "none"
  /\ UNCHANGED <<mode, cfg, up, locals, left, owed>>

\* RouterModeError: the settings go back to gateway, HTTP 400.
ReqGiveUp(r) ==
  /\ pc[r] = "giveup" /\ Goto(r, "failed")
  /\ mode' = "gateway" /\ pending' = "none"
  /\ UNCHANGED <<cfg, up, locals, left, owed>>

Request(r) == \/ ReqRead(r) \/ ReqCommit(r) \/ ReqArm(r) \/ ReqDisarm(r)
              \/ ReqGiveUp(r)

\* POST /network/router-mode/confirm with a window pending.
Confirm ==
  /\ Serving /\ pending # "none" /\ pending' = "none"
  /\ UNCHANGED <<mode, cfg, up, pc, locals, left, owed>>

\* A backup restore rewrites settings rows without touching the dataplane. A
\* restored "router" is stored as gateway; a bundle may carry an old deadline.
Restore ==
  /\ Serving /\ Spend("restore")
  /\ mode' \in {mode, "gateway"} /\ cfg' \in Configs
  /\ pending' \in {pending, "none", "expired"}
  /\ UNCHANGED <<up, pc, locals, owed>>

-----------------------------------------------------------------------------
(* The watchdog loop: revert an expired window, else retry router mode.    *)

\* Mutant: a window over a gateway box is not worth a revert.
WatchdogRevertRouterOnly ==
  /\ pc["watchdog"] = "idle" /\ pending = "expired" /\ mode = "router"
  /\ CallTeardown("watchdog", "reverted")
  /\ UNCHANGED <<settings, up, body, before, left, owed>>

\* Mutant: an absent deadline reads as one long past.
WatchdogRevertAbsent ==
  /\ pc["watchdog"] = "idle" /\ pending # "open"
  /\ CallTeardown("watchdog", "reverted")
  /\ UNCHANGED <<settings, up, body, before, left, owed>>

WatchdogRevert ==
  /\ pc["watchdog"] = "idle" /\ pending = "expired"
  /\ CallTeardown("watchdog", "reverted")
  /\ UNCHANGED <<settings, up, body, before, left, owed>>

\* At most once a minute: the rate limit only skips ticks.
WatchdogRetry ==
  /\ pc["watchdog"] = "idle" /\ pending = "none" /\ Goto("watchdog", "w_mode")
  /\ UNCHANGED <<settings, up, locals, left, owed>>

WatchdogMode ==
  /\ pc["watchdog"] = "w_mode"
  /\ Goto("watchdog", IF mode = "router" THEN "w_counters" ELSE "idle")
  /\ UNCHANGED <<settings, up, locals, left, owed>>

\* router_counters(): a router whose table is loaded is left alone.
WatchdogCounters ==
  /\ pc["watchdog"] = "w_counters"
  /\ Goto("watchdog", IF "nat" \in up THEN "idle" ELSE "read")
  /\ UNCHANGED <<settings, up, locals, left, owed>>

\* revert() after its teardown: two commits, the mode first.
SetGateway(p) ==
  /\ pc[p] = "set_gateway" /\ Goto(p, "clear") /\ mode' = "gateway"
  /\ UNCHANGED <<cfg, pending, up, locals, left, owed>>

ClearPending(p) ==
  /\ pc[p] = "clear" /\ pending' = "none"
  /\ Goto(p, IF p = "boot" THEN "reconcile" ELSE "idle")
  /\ UNCHANGED <<mode, cfg, up, locals, left, owed>>

Revert(p) == SetGateway(p) \/ ClearPending(p)

Watchdog == WatchdogRevert \/ WatchdogRetry \/ WatchdogMode \/ WatchdogCounters

-----------------------------------------------------------------------------
(* Boot: recover_on_boot, reconcile_on_boot, then the watchdog starts.     *)

\* Mutant: at boot only a window that is over is reverted.
BootRecoverExpired ==
  /\ pc["boot"] = "recover"
  /\ IF pending # "expired" THEN Goto("boot", "reconcile") /\ UNCHANGED <<seen, ret>>
                            ELSE CallTeardown("boot", "reverted")
  /\ UNCHANGED <<settings, up, body, before, left, owed>>

BootRecover ==
  /\ pc["boot"] = "recover"
  /\ IF pending = "none" THEN Goto("boot", "reconcile") /\ UNCHANGED <<seen, ret>>
                         ELSE CallTeardown("boot", "reverted")
  /\ UNCHANGED <<settings, up, body, before, left, owed>>

\* The wait for the ports may time out; a gateway is torn down as well.
BootReconcile ==
  /\ pc["boot"] = "reconcile"
  /\ \/ mode # "router" /\ CallTeardown("boot", "gateway") /\ UNCHANGED left
     \/ mode = "router" /\ Spend("fault") /\ CallTeardown("boot", "gateway")
     \/ mode = "router" /\ Goto("boot", "read") /\ UNCHANGED <<seen, ret, left>>
  /\ UNCHANGED <<settings, up, body, before, owed>>

\* Mutant: the watchdog is started in the same try as the reconciliation.
BootStartIfReconciled ==
  /\ pc["boot"] = "start"
  /\ pc' = [pc EXCEPT !["boot"] = "done",
                      !["watchdog"] = IF mode = "router" /\ "nat" \notin up THEN "off" ELSE "idle"]
  /\ owed' = FALSE
  /\ UNCHANGED <<settings, up, locals, left>>

\* The watchdog is started whatever the reconciliation did.
BootStart ==
  /\ pc["boot"] = "start"
  /\ pc' = [pc EXCEPT !["boot"] = "done", !["watchdog"] = "idle"]
  /\ owed' = FALSE
  /\ UNCHANGED <<settings, up, locals, left>>

Boot == BootRecover \/ BootReconcile \/ BootStart

-----------------------------------------------------------------------------
(* The environment: time, and restarts of the process or of the box.       *)

Expire ==
  /\ pending = "open" /\ pending' = "expired"
  /\ UNCHANGED <<mode, cfg, up, pc, locals, left, owed>>

\* A reboot loses the nft table and the bridge; the uplink profile persists and
\* Docker's restart policy brings the sidecars back.
Crash ==
  /\ Spend("crash")
  /\ up' \in {up, up \ {"nat", "bridge"}}
  /\ pc' = [p \in Procs |-> Restarted(p, IF pc[p] = "new" THEN "new" ELSE "answered")]
  /\ seen' = [p \in Procs |-> {}]
  /\ ret' = [p \in Procs |-> "gateway"]
  /\ body' = [r \in Reqs |-> NoBody]
  /\ before' = [r \in Reqs |-> Blank]
  /\ owed' = (owed \/ pending # "none")
  /\ UNCHANGED settings

Step(p) == Apply(p) \/ Teardown(p) \/ Revert(p)

Next ==
  \/ \E p \in Procs : Step(p)
  \/ \E r \in Reqs : Request(r)
  \/ Confirm \/ Restore \/ Watchdog \/ Boot \/ Expire \/ Crash

Spec == Init /\ [][Next]_vars

\* The event loop keeps running its coroutines and the clock advances; requests
\* already accepted make progress, nobody has to send or confirm anything.
Fairness ==
  /\ WF_vars(Step("watchdog") \/ Watchdog)
  /\ WF_vars(Step("boot") \/ Boot)
  /\ \A r \in Reqs : WF_vars(Step(r) \/ (pc[r] # "new" /\ Request(r)))
  /\ WF_vars(Expire)

FairSpec == Spec /\ Fairness

-----------------------------------------------------------------------------
(* Properties.                                                             *)

TypeOK ==
  /\ mode \in Modes /\ cfg \in Configs /\ pending \in Windows
  /\ up \subseteq Pieces
  /\ pc \in [Procs -> Labels]
  /\ seen \in [Procs -> SUBSET Optional]
  /\ ret \in [Procs -> Outcomes]
  /\ body \in [Reqs -> Bodies]
  /\ before \in [Reqs -> Snapshots]
  /\ left \in [{"fault", "crash", "restore"} -> Nat]
  /\ owed \in BOOLEAN

GatewayBox == up \subseteq Flaky

\* Boot leaves a clean gateway or a complete router, never half of one, however
\* the previous run died (reconcile_on_boot: a failure tears everything down).
BootSettles ==
  pc["boot"] = "start" => GatewayBox \/ (mode = "router" /\ Wanted(cfg) \subseteq up)

\* A window found open when the process died is honoured: at the end of the boot
\* the box is a gateway and says so, also when the recovery itself is cut short.
RevertOwed ==
  pc["boot"] = "start" /\ owed => GatewayBox /\ mode = "gateway" /\ pending = "none"

\* Every window closes: by a confirmation, by the request that opened it, or by
\* the watchdog, also after an apply that died without an answer.
WindowCloses == pending # "none" ~> pending = "none"

\* Settings that keep saying router with no window pending are a standing
\* instruction: the firewall of the router ends up loaded for good.
RouterRestored == <>[](mode = "router" /\ pending = "none") => <>[]("nat" \in up)

-----------------------------------------------------------------------------
(* What the code's comments say of it, to be compared with what it does.   *)

\* No handler, apply or revert is in flight.
QuietExcept(r) ==
  /\ Serving /\ pc["watchdog"] = "idle"
  /\ \A q \in Reqs \ {r} : pc[q] \in {"new", "answered", "failed"}

Quiet == Serving /\ \A r \in Reqs : QuietExcept(r) /\ pc[r] \in {"new", "answered", "failed"}

\* api/system.py: when an apply is refused, "apply() has already torn the
\* dataplane down, so the box IS in gateway mode".
RefusedIsTornDown ==
  \A r \in Reqs : pc[r] = "giveup" /\ QuietExcept(r) => GatewayBox

\* A backup restore stores "gateway" rather than "claim a mode the box isn't in"
\* (api/backup.py).  Once everything is quiet, settings that say gateway with no
\* window pending describe a gateway box.
GatewayMeansDown == Quiet /\ mode = "gateway" /\ pending = "none" => GatewayBox

\* apply(): "Reconcile the dataplane with operating_mode".  An apply about to end,
\* with nothing else in flight, has left no piece up that its settings do not
\* call for.
RouterRunsWhatWasSaved ==
  \A r \in Reqs : pc[r] = "wifi" /\ QuietExcept(r) => up \ {"wifi"} \subseteq Wanted(seen[r])

\* api/system.py: the reconciliation "runs whenever anything it depends on moved":
\* a PATCH that moves the mode goes on to apply it.
MovedIsReconciled ==
  [][\A r \in Reqs : pc[r] = "commit" /\ pc'[r] = "answered" => mode' = mode]_vars

=============================================================================
