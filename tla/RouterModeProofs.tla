-------------------------- MODULE RouterModeProofs --------------------------
(***************************************************************************)
(* Proofs about RouterMode and RouterHistory, for every set of requests    *)
(* and configurations, every choice of flaky pieces and every bound.       *)
(***************************************************************************)
EXTENDS RouterHistory, TLAPS

USE DEF Modes, Windows, Outcomes

LEMMA PatchedType ==
  ASSUME NEW S, NEW old \in S, NEW values \in SUBSET S
  PROVE  Patched(values, old) \in S
BY DEF Patched

LEMMA TypeTeardown ==
  ASSUME TypeOK, NEW p \in Procs, Teardown(p)
  PROVE  TypeOK'
<1>1. CASE TeardownDhcp(p)
  BY <1>1 DEF TypeOK, TeardownDhcp, Drop, Goto, settings, locals, Labels, TeardownSteps, Pieces
<1>2. CASE TeardownWifi(p)
  BY <1>2 DEF TypeOK, TeardownWifi, Drop, Goto, settings, locals, Labels, TeardownSteps, Pieces
<1>3. CASE TeardownNat(p)
  BY <1>3 DEF TypeOK, TeardownNat, Drop, Goto, settings, locals, Labels, TeardownSteps, Pieces
<1>4. CASE TeardownBridge(p)
  BY <1>4 DEF TypeOK, TeardownBridge, Drop, Return, Resume, RequestResume, BootResume, Goto, settings, locals, Labels,
              TeardownSteps, RevertSteps, RequestSteps, BootSteps, WatchdogSteps, Pieces
<1> QED BY <1>1, <1>2, <1>3, <1>4 DEF Teardown

\* What the calls into apply() and teardown() assign is well typed.
LocalsOK == /\ pc \in [Procs -> Labels]
            /\ seen \in [Procs -> SUBSET Optional]
            /\ ret \in [Procs -> Outcomes]

LEMMA GotoType ==
  ASSUME TypeOK, NEW p \in Procs, NEW l \in Labels, Goto(p, l)
  PROVE  pc' \in [Procs -> Labels]
BY DEF TypeOK, Goto

LEMMA SpendType ==
  ASSUME TypeOK, NEW k \in {"fault", "crash", "restore"}, Spend(k)
  PROVE  left' \in [{"fault", "crash", "restore"} -> Nat]
BY DEF TypeOK, Spend

LEMMA CallType ==
  ASSUME TypeOK, NEW p \in Procs, NEW o \in Outcomes, CallTeardown(p, o)
  PROVE  LocalsOK'
BY DEF TypeOK, CallTeardown, Goto, LocalsOK, Labels, TeardownSteps

LEMMA ReturnType ==
  ASSUME TypeOK, NEW p \in Procs, NEW o \in Outcomes, Return(p, o)
  PROVE  LocalsOK'
BY DEF TypeOK, Return, Resume, RequestResume, BootResume, Goto, LocalsOK, Labels,
       TeardownSteps, RevertSteps, RequestSteps, BootSteps, WatchdogSteps

LEMMA FailType ==
  ASSUME TypeOK, NEW p \in Procs, Fail(p)
  PROVE  LocalsOK' /\ left' \in [{"fault", "crash", "restore"} -> Nat]
BY CallType, SpendType DEF Fail

LEMMA ContinueType ==
  ASSUME TypeOK, NEW p \in Procs, NEW l \in ApplySteps, Continue(p, l)
  PROVE  LocalsOK' /\ left' \in [{"fault", "crash", "restore"} -> Nat]
BY DEF TypeOK, Continue, Goto, LocalsOK, Labels

LEMMA SidecarType ==
  ASSUME TypeOK, NEW p \in Procs, NEW x \in {"dhcp", "wifi"}, NEW next,
         next => LocalsOK' /\ left' \in [{"fault", "crash", "restore"} -> Nat],
         Sidecar(p, x, next)
  PROVE  /\ up' \subseteq Pieces
         /\ LocalsOK' /\ left' \in [{"fault", "crash", "restore"} -> Nat]
<1>1. x \in Pieces /\ up \subseteq Pieces
  BY DEF TypeOK, Pieces, Optional
<1>2. up' \subseteq Pieces
  BY <1>1 DEF Sidecar
<1>3. next \/ Fail(p)
  BY DEF Sidecar
<1> QED BY <1>2, <1>3, FailType

LEMMA TypeApply ==
  ASSUME TypeOK, NEW p \in Procs, Apply(p)
  PROVE  TypeOK'
<1> DEFINE LeftOK == left \in [{"fault", "crash", "restore"} -> Nat]
<1>0. ASSUME LocalsOK', LeftOK', up' \subseteq Pieces, UNCHANGED <<settings, body, before, owed>>
      PROVE  TypeOK'
  BY <1>0 DEF TypeOK, LocalsOK, settings
<1>1. CASE ApplyGateway(p)
  BY <1>0, <1>1, CallType DEF TypeOK, ApplyGateway
<1>2. CASE ApplyRead(p)
  <2>0. up' \subseteq Pieces /\ UNCHANGED <<settings, body, before, owed>>
    BY <1>2 DEF ApplyRead, TypeOK
  <2>1. CASE Goto(p, "link") /\ seen' = [seen EXCEPT ![p] = cfg] /\ UNCHANGED <<ret, left>>
    <3>1. cfg \in SUBSET Optional
      BY ConfigAssumption DEF TypeOK
    <3>2. LocalsOK' /\ LeftOK'
      BY <2>1, <3>1, GotoType DEF TypeOK, LocalsOK, Labels, ApplySteps
    <3> QED BY <1>0, <2>0, <3>2
  <2>2. ASSUME NEW v \in Verdicts \ {"ok"}, Spend("fault"), Return(p, v)
        PROVE  TypeOK'
    BY <1>0, <2>0, <2>2, VerdictAssumption, ReturnType, SpendType
  <2> QED BY <1>2, <2>1, <2>2 DEF ApplyRead
<1>3. CASE ApplyLink(p)
  <2>1. up' \subseteq Pieces
    BY <1>3 DEF TypeOK, ApplyLink, Pieces, Optional
  <2>2. Continue(p, "nat") \/ Fail(p)
    BY <1>3 DEF ApplyLink
  <2>3. UNCHANGED <<settings, body, before, owed>>
    BY <1>3 DEF ApplyLink
  <2> QED BY <1>0, <2>1, <2>2, <2>3, ContinueType, FailType DEF ApplySteps
<1>4. CASE ApplyNat(p)
  <2>1. up' \subseteq Pieces
    BY <1>4 DEF TypeOK, ApplyNat, Pieces
  <2> QED BY <1>0, <1>4, <2>1, ContinueType, FailType DEF ApplyNat, ApplySteps
<1>5. CASE ApplyDhcp(p)
  <2>1. Continue(p, "wifi") => LocalsOK' /\ LeftOK'
    BY ContinueType DEF ApplySteps
  <2> QED BY <1>0, <1>5, <2>1, SidecarType DEF ApplyDhcp
<1>6. CASE ApplyWifi(p)
  <2>1. Return(p, "router") /\ UNCHANGED left => LocalsOK' /\ LeftOK'
    BY ReturnType DEF TypeOK
  <2> QED BY <1>0, <1>6, <2>1, SidecarType DEF ApplyWifi
<1> QED BY <1>1, <1>2, <1>3, <1>4, <1>5, <1>6 DEF Apply

LEMMA TypeRevert ==
  ASSUME TypeOK, NEW p \in Procs, Revert(p)
  PROVE  TypeOK'
BY DEF TypeOK, Revert, SetGateway, ClearPending, Goto, settings, locals, Labels,
       RevertSteps, BootSteps, WatchdogSteps

LEMMA TypeRequest ==
  ASSUME TypeOK, NEW r \in Reqs, Request(r)
  PROVE  TypeOK'
<1> USE DEF settings, locals, Goto, Labels, ApplySteps, RequestSteps, Bodies, NoBody,
            Snapshots, Blank
<1>0. r \in Procs
  BY DEF Procs
<1>1. CASE ReqRead(r)
  BY <1>0, <1>1, ConfigAssumption DEF TypeOK, ReqRead
<1>2. CASE ReqCommit(r)
  <2>1. mode' \in Modes /\ cfg' \in Configs
    <3>1. body[r].mode \in SUBSET Modes /\ body[r].cfg \in SUBSET Configs
      BY <1>0 DEF TypeOK
    <3> QED BY <1>2, <3>1, PatchedType DEF ReqCommit, TypeOK
  <2> QED BY <1>0, <1>2, <2>1 DEF TypeOK, ReqCommit
<1>3. CASE ReqArm(r)
  BY <1>0, <1>3 DEF TypeOK, ReqArm
<1>4. CASE ReqDisarm(r)
  BY <1>0, <1>4 DEF TypeOK, ReqDisarm
<1>5. CASE ReqGiveUp(r)
  BY <1>0, <1>5 DEF TypeOK, ReqGiveUp
<1> QED BY <1>1, <1>2, <1>3, <1>4, <1>5 DEF Request

LEMMA TypeOthers ==
  ASSUME TypeOK, Confirm \/ Restore \/ Watchdog \/ Boot \/ Expire \/ Crash
  PROVE  TypeOK'
<1> USE DEF settings, locals, Goto, Spend, CallTeardown, Labels, ApplySteps, TeardownSteps,
            RequestSteps, BootSteps, WatchdogSteps
<1>0. "watchdog" \in Procs /\ "boot" \in Procs
  BY DEF Procs
<1>1. CASE Confirm \/ Restore \/ Expire
  BY <1>1 DEF TypeOK, Confirm, Restore, Expire
<1>2. CASE Watchdog
  BY <1>0, <1>2 DEF TypeOK, Watchdog, WatchdogRevert, WatchdogRetry, WatchdogMode,
                    WatchdogCounters
<1>3. CASE Boot
  <2>1. CASE BootRecover
    BY <1>0, <2>1 DEF TypeOK, BootRecover
  <2>2. CASE BootReconcile
    BY <1>0, <2>2 DEF TypeOK, BootReconcile
  <2>3. CASE BootStart
    BY <1>0, <2>3 DEF TypeOK, BootStart
  <2> QED BY <1>3, <2>1, <2>2, <2>3 DEF Boot
<1>4. CASE Crash
  BY <1>4 DEF TypeOK, Crash, Restarted, Bodies, NoBody, Snapshots, Blank
<1> QED BY <1>1, <1>2, <1>3, <1>4

LEMMA InitType ==
  ASSUME Init
  PROVE  TypeOK
<1>1. \A p \in Procs : Restarted(p, "new") \in Labels
  BY DEF Restarted, Labels, RequestSteps, WatchdogSteps, BootSteps
<1>2. pc \in [Procs -> Labels]
  BY <1>1 DEF Init
<1>3. left \in [{"fault", "crash", "restore"} -> Nat]
  BY BoundAssumption DEF Init
<1>4. body \in [Reqs -> Bodies] /\ before \in [Reqs -> Snapshots]
  BY DEF Init, Bodies, NoBody, Snapshots, Blank
<1> QED BY ConfigAssumption, <1>2, <1>3, <1>4 DEF Init, TypeOK

LEMMA TypeStep ==
  ASSUME TypeOK, [Next]_vars
  PROVE  TypeOK'
<1>1. ASSUME Next PROVE TypeOK'
  BY <1>1, TypeTeardown, TypeApply, TypeRevert, TypeRequest, TypeOthers DEF Next, Step
<1>2. ASSUME UNCHANGED vars PROVE TypeOK'
  BY <1>2 DEF TypeOK, vars
<1> QED BY <1>1, <1>2

\* Every reachable state is well typed.
THEOREM TypeCorrect == Spec => []TypeOK
<1>1. Init => TypeOK
  BY InitType
<1>2. TypeOK /\ [Next]_vars => TypeOK'
  BY TypeStep
<1> QED BY <1>1, <1>2, PTL DEF Spec

-----------------------------------------------------------------------------
(***************************************************************************)
(* The boot sequence.  Until it is over nothing else moves but the clock,  *)
(* so what it has done so far can be read off where it stands.             *)
(***************************************************************************)
b == pc["boot"]

\* No request is served and the watchdog is not started before the boot is over.
Alone ==
  ~Serving => /\ pc["watchdog"] = "off"
              /\ \A r \in Reqs : pc[r] \in {"new", "answered", "failed"}

\* How far a teardown has come.
Cleared ==
  /\ b = "t_wifi" => up \ {"wifi", "wan", "nat", "bridge"} \subseteq Flaky
  /\ b = "t_nat" => up \ {"wan", "nat", "bridge"} \subseteq Flaky
  /\ b = "t_bridge" => up \ {"bridge"} \subseteq Flaky

\* How far an apply has come.
Built ==
  /\ b \in {"link", "nat", "dhcp", "wifi"} => mode = "router" /\ seen["boot"] = cfg
  /\ b \in {"nat", "dhcp", "wifi"} => cfg \cap {"wan", "bridge"} \subseteq up
  /\ b \in {"dhcp", "wifi"} => "nat" \in up
  /\ b = "wifi" => cfg \cap {"dhcp"} \subseteq up

\* What remains to be done of a revert that is owed: the mode is written before
\* the window is cleared, so a restart in between finds one of the two.
Honoured ==
  owed =>
    /\ mode = "gateway" \/ pending # "none"
    /\ b \in {"recover", "reconcile", "read", "start"} \cup TeardownSteps \cup RevertSteps
    /\ b \in TeardownSteps => ret["boot"] = "reverted" \/ pending = "none"
    /\ b = "clear" => mode = "gateway"
    /\ b \in {"reconcile", "read", "start"} => mode = "gateway" /\ pending = "none"

Ended == b = "start" /\ owed => GatewayBox

BootInv == TypeOK /\ Alone /\ Cleared /\ Built /\ Honoured /\ Ended

\* Once requests are served the invariant says nothing but that nothing is owed.
LEMMA ServingInv ==
  ASSUME TypeOK', Serving', ~owed'
  PROVE  BootInv'
BY DEF BootInv, Serving, Alone, Cleared, Built, Honoured, Ended, b

LEMMA ServedInv ==
  ASSUME BootInv, Serving
  PROVE  ~owed
BY DEF BootInv, Serving, Honoured, b, TeardownSteps, RevertSteps

\* A step of apply(), teardown() or revert() moves its own coroutine only.
LEMMA StepMoves ==
  ASSUME NEW p \in Procs, Step(p)
  PROVE  /\ pc[p] \in ApplySteps \cup TeardownSteps \cup RevertSteps
         /\ \E l : Goto(p, l)
         /\ owed' = owed
<1>1. CASE Teardown(p)
  BY <1>1 DEF Teardown, TeardownDhcp, TeardownWifi, TeardownNat, TeardownBridge, Return,
              TeardownSteps
<1>2. CASE Revert(p)
  BY <1>2 DEF Revert, SetGateway, ClearPending, RevertSteps
<1>3. CASE Apply(p)
  <2> USE DEF Fail, Continue, Return, CallTeardown, ApplySteps
  <2>1. CASE ApplyGateway(p) \/ ApplyRead(p)
    BY <2>1 DEF ApplyGateway, ApplyRead
  <2>2. CASE ApplyLink(p) \/ ApplyNat(p)
    BY <2>2 DEF ApplyLink, ApplyNat
  <2>3. CASE ApplyDhcp(p)
    BY <2>3 DEF ApplyDhcp, Sidecar
  <2>4. CASE ApplyWifi(p)
    BY <2>4 DEF ApplyWifi, Sidecar
  <2> QED BY <1>3, <2>1, <2>2, <2>3, <2>4 DEF Apply
<1> QED BY <1>1, <1>2, <1>3 DEF Step

\* Before the boot is over no other coroutine takes a step of a shared operation.
LEMMA OthersServe ==
  ASSUME BootInv, NEW p \in Procs \ {"boot"}, Step(p)
  PROVE  Serving /\ Serving' /\ owed' = owed
<1>1. Serving
  BY StepMoves DEF BootInv, Alone, Procs, ApplySteps, TeardownSteps, RevertSteps
<1>2. pc'["boot"] = pc["boot"]
  BY StepMoves DEF Goto, BootInv, TypeOK, Procs
<1> QED BY <1>1, <1>2, StepMoves DEF Serving

\* The same for the handlers and the watchdog's own steps.
LEMMA RequestsServe ==
  ASSUME BootInv, NEW r \in Reqs, Request(r)
  PROVE  Serving /\ Serving' /\ owed' = owed
<1> USE DEF Serving, Alone, BootInv
<1>1. Serving /\ owed' = owed /\ \E l : Goto(r, l)
  BY DEF Request, ReqRead, ReqCommit, ReqArm, ReqDisarm, ReqGiveUp
<1> QED BY <1>1, RequestAssumption DEF Goto, TypeOK, Procs

LEMMA WatchdogServes ==
  ASSUME BootInv, Watchdog
  PROVE  Serving /\ Serving' /\ owed' = owed
<1> USE DEF Serving, Alone, BootInv
<1>1. Serving /\ owed' = owed /\ \E l : Goto("watchdog", l)
  BY DEF Watchdog, WatchdogRevert, WatchdogRetry, WatchdogMode, WatchdogCounters, CallTeardown
<1> QED BY <1>1 DEF Goto, TypeOK, Procs

\* Steps of the boot sequence leave the others where they are.
LEMMA BootAlone ==
  ASSUME BootInv, \E l : Goto("boot", l), ~Serving
  PROVE  Alone'
BY RequestAssumption DEF BootInv, Alone, Goto, TypeOK, Procs

LEMMA BootTeardownInv ==
  ASSUME BootInv, TypeOK', Teardown("boot")
  PROVE  BootInv'
<1> USE DEF TeardownSteps, RevertSteps, Goto, settings, locals, Drop, b
<1>0. /\ "boot" \in Procs /\ TypeOK
      /\ pc["boot"] \in TeardownSteps
  BY StepMoves DEF Procs, BootInv, Teardown, TeardownDhcp, TeardownWifi, TeardownNat, TeardownBridge
<1>1. Alone'
  BY <1>0, BootAlone, StepMoves DEF Step, Serving
<1>2. CASE TeardownDhcp("boot")
  BY <1>0, <1>1, <1>2 DEF TypeOK, BootInv, Cleared, Built, Honoured, Ended, TeardownDhcp, Pieces, Optional
<1>3. CASE TeardownWifi("boot")
  BY <1>0, <1>1, <1>3 DEF TypeOK, BootInv, Cleared, Built, Honoured, Ended, TeardownWifi
<1>4. CASE TeardownNat("boot")
  BY <1>0, <1>1, <1>4 DEF TypeOK, BootInv, Cleared, Built, Honoured, Ended, TeardownNat
<1>5. CASE TeardownBridge("boot")
  <2>1. GatewayBox'
    BY <1>5 DEF BootInv, Cleared, TeardownBridge, GatewayBox
  <2>2. /\ pc' = [pc EXCEPT !["boot"] = Resume("boot", ret["boot"])]
        /\ UNCHANGED <<mode, cfg, pending, owed>>
    BY <1>5 DEF TeardownBridge, Return
  <2>3. pc'["boot"] = Resume("boot", ret["boot"])
    BY <1>0, <2>2 DEF TypeOK
  <2>4. /\ pc'["boot"] \in {"set_gateway", "start", "t_dhcp"}
        /\ ret["boot"] = "reverted" => pc'["boot"] = "set_gateway"
        /\ ret["boot"] # "reverted" => pc'["boot"] # "set_gateway"
    BY <1>0, <2>3 DEF TypeOK, Resume, BootResume
  <2>5. Cleared' /\ Built' /\ Ended'
    BY <2>1, <2>4 DEF Cleared, Built, Ended
  <2>6. Honoured'
    <3>1. ASSUME owed PROVE ret["boot"] # "reverted" => mode = "gateway" /\ pending = "none"
      BY <1>0, <3>1 DEF BootInv, Honoured
    <3>2. owed => mode = "gateway" \/ pending # "none"
      BY DEF BootInv, Honoured
    <3> QED BY <2>2, <2>4, <3>1, <3>2 DEF Honoured
  <2> QED BY <1>1, <2>5, <2>6 DEF BootInv
<1> QED BY <1>2, <1>3, <1>4, <1>5 DEF Teardown

\* The boot sequence calls teardown() or returns from apply().
LEMMA BootCallInv ==
  ASSUME BootInv, TypeOK', ~Serving, UNCHANGED <<settings, owed>>,
         NEW o \in Outcomes, CallTeardown("boot", o),
         owed => o = "reverted" \/ pending = "none"
  PROVE  BootInv'
<1>1. "boot" \in Procs /\ TypeOK
  BY DEF Procs, BootInv
<1>2. pc'["boot"] = "t_dhcp" /\ ret'["boot"] = o
  BY <1>1 DEF CallTeardown, Goto, TypeOK
<1>3. Alone'
  BY BootAlone DEF CallTeardown
<1>4. Honoured'
  BY <1>2 DEF settings, BootInv, Honoured, TeardownSteps, RevertSteps, b
<1> QED BY <1>2, <1>3, <1>4 DEF BootInv, Cleared, Built, Ended, b

\* A step of apply() other than a refusal has nothing to do with a revert owed.
LEMMA BootApplyInv ==
  ASSUME BootInv, TypeOK', Apply("boot")
  PROVE  BootInv'
<1> USE DEF Goto, settings, b
<1>0. "boot" \in Procs /\ TypeOK /\ ~Serving
  BY StepMoves DEF Procs, BootInv, Step, Serving, ApplySteps, TeardownSteps, RevertSteps
<1>1. Alone'
  BY <1>0, BootAlone, StepMoves DEF Step
<1>2. CASE ApplyGateway("boot")
  <2>1. owed => pending = "none"
    BY <1>2 DEF SaysRouter, ApplyGateway, BootInv, Honoured
  <2> QED BY <1>0, <1>2, <2>1, BootCallInv DEF SaysRouter, ApplyGateway
<1>3. CASE ApplyRead("boot")
  <2>1. ~owed /\ ~owed'
    BY <1>3 DEF SaysRouter, ApplyRead, BootInv, Honoured
  <2>2. CASE Goto("boot", "link") /\ seen' = [seen EXCEPT !["boot"] = cfg]
    <3>1. pc'["boot"] = "link" /\ seen'["boot"] = cfg
      BY <1>0, <2>2 DEF TypeOK
    <3> QED BY <1>1, <1>3, <2>1, <3>1 DEF SaysRouter, ApplyRead, BootInv, Cleared, Built, Honoured, Ended
  <2>3. ASSUME NEW v \in Verdicts \ {"ok"}, Return("boot", v) PROVE BootInv'
    <3>0. v \in {"refused", "error"}
      BY VerdictAssumption
    <3>1. pc'["boot"] \in {"start", "t_dhcp"}
      BY <1>0, <2>3, <3>0 DEF TypeOK, Return, Resume, BootResume
    <3> QED BY <1>1, <2>1, <3>1 DEF BootInv, Cleared, Built, Honoured, Ended
  <2> QED BY <1>3, <2>2, <2>3 DEF SaysRouter, ApplyRead
<1>4. ASSUME pc["boot"] \in {"link", "nat", "dhcp", "wifi"} PROVE ~owed
  BY <1>4 DEF BootInv, Honoured, TeardownSteps, RevertSteps
<1>5. ASSUME Fail("boot"), UNCHANGED <<settings, owed>>, ~owed PROVE BootInv'
  BY <1>0, <1>5, BootCallInv DEF Fail
<1>6. ASSUME NEW l \in ApplySteps, Continue("boot", l)
      PROVE  pc'["boot"] = l /\ seen' = seen
  BY <1>0, <1>6 DEF Continue, TypeOK
<1>7. CASE ApplyLink("boot")
  <2>1. ~owed /\ ~owed'
    BY <1>4, <1>7 DEF ApplyLink
  <2>2. CASE up' = up \cup (seen["boot"] \cap {"wan", "bridge"}) /\ Continue("boot", "nat")
    BY <1>1, <1>6, <1>7, <2>1, <2>2 DEF ApplyLink, ApplySteps, BootInv, Cleared, Built, Honoured, Ended
  <2> QED BY <1>5, <1>7, <2>1, <2>2 DEF ApplyLink
<1>8. CASE ApplyNat("boot")
  <2>1. ~owed /\ ~owed'
    BY <1>4, <1>8 DEF ApplyNat
  <2>2. CASE up' = up \cup {"nat"} /\ Continue("boot", "dhcp")
    BY <1>1, <1>6, <1>8, <2>1, <2>2 DEF ApplyNat, ApplySteps, BootInv, Cleared, Built, Honoured, Ended
  <2> QED BY <1>5, <1>8, <2>1, <2>2 DEF ApplyNat
<1>9. CASE ApplyDhcp("boot")
  <2>1. ~owed /\ ~owed'
    BY <1>4, <1>9 DEF ApplyDhcp
  <2>2. CASE Continue("boot", "wifi") /\ ~Fail("boot")
    <3>1. pc'["boot"] = "wifi" /\ seen' = seen
      BY <1>6, <2>2 DEF ApplySteps
    <3>2. \/ "dhcp" \in seen["boot"] /\ up' = up \cup {"dhcp"}
          \/ "dhcp" \notin seen["boot"] /\ up' = up \ {"dhcp"}
      BY <1>9, <2>2 DEF ApplyDhcp, Sidecar
    <3>3. Built'
      BY <1>9, <3>1, <3>2 DEF ApplyDhcp, BootInv, Built
    <3> QED BY <1>1, <2>1, <3>1, <3>3 DEF BootInv, Cleared, Honoured, Ended
  <2> QED BY <1>5, <1>9, <2>1, <2>2 DEF ApplyDhcp, Sidecar
<1>10. CASE ApplyWifi("boot")
  <2>1. ~owed /\ ~owed'
    BY <1>4, <1>10 DEF ApplyWifi
  <2>2. CASE Return("boot", "router")
    <3>1. pc'["boot"] = "start"
      BY <1>0, <2>2 DEF Return, Resume, BootResume, TypeOK
    <3> QED BY <1>1, <2>1, <3>1 DEF BootInv, Cleared, Built, Honoured, Ended
  <2> QED BY <1>5, <1>10, <2>1, <2>2 DEF ApplyWifi, Sidecar
<1> QED BY <1>2, <1>3, <1>7, <1>8, <1>9, <1>10 DEF Apply

LEMMA BootRevertInv ==
  ASSUME BootInv, TypeOK', Revert("boot")
  PROVE  BootInv'
<1> USE DEF Goto, b
<1>0. "boot" \in Procs /\ TypeOK /\ ~Serving
  BY StepMoves DEF Procs, BootInv, Step, Serving, ApplySteps, TeardownSteps, RevertSteps
<1>1. Alone'
  BY <1>0, BootAlone, StepMoves DEF Step
<1>2. CASE SetGateway("boot")
  BY <1>0, <1>1, <1>2 DEF SetGateway, TypeOK, BootInv, Cleared, Built, Honoured, Ended,
                          TeardownSteps, RevertSteps
<1>3. CASE ClearPending("boot")
  BY <1>0, <1>1, <1>3 DEF ClearPending, TypeOK, BootInv, Cleared, Built, Honoured, Ended,
                          TeardownSteps, RevertSteps
<1> QED BY <1>2, <1>3 DEF Revert

LEMMA BootBootInv ==
  ASSUME BootInv, TypeOK', Boot
  PROVE  BootInv'
<1> USE DEF Goto, settings, b
<1>0. "boot" \in Procs /\ TypeOK
  BY DEF Procs, BootInv
<1>1. CASE BootRecover
  <2>1. ~Serving /\ UNCHANGED <<settings, owed>>
    BY <1>1 DEF BootRecover, Serving
  <2>2. CASE pending = "none"
    <3>1. pc'["boot"] = "reconcile" /\ Alone'
      BY <1>0, <1>1, <2>1, <2>2, BootAlone DEF BootRecover, TypeOK
    <3>2. owed => mode = "gateway"
      BY <2>2 DEF BootInv, Honoured
    <3> QED BY <2>1, <2>2, <3>1, <3>2 DEF BootInv, Cleared, Built, Honoured, Ended, TeardownSteps
  <2>3. CASE pending # "none"
    BY <1>1, <2>1, <2>3, BootCallInv DEF BootRecover
  <2> QED BY <2>2, <2>3
<1>2. CASE BootReconcile
  <2>1. ~Serving /\ UNCHANGED <<settings, owed>>
    BY <1>2 DEF BootReconcile, Serving
  <2>2. owed => mode = "gateway" /\ pending = "none"
    BY <1>2 DEF BootReconcile, BootInv, Honoured
  <2>3. CASE CallTeardown("boot", "gateway")
    BY <2>1, <2>2, <2>3, BootCallInv
  <2>4. CASE mode = "router" /\ Goto("boot", "read")
    <3>1. pc'["boot"] = "read" /\ Alone'
      BY <1>0, <2>1, <2>4, BootAlone DEF TypeOK
    <3> QED BY <2>1, <2>2, <2>4, <3>1 DEF BootInv, Cleared, Built, Honoured, Ended
  <2> QED BY <1>2, <2>3, <2>4 DEF BootReconcile
<1>3. CASE BootStart
  BY <1>0, <1>3, ServingInv DEF BootStart, Serving, TypeOK
<1> QED BY <1>1, <1>2, <1>3 DEF Boot

LEMMA InitInv ==
  ASSUME Init, TypeOK
  PROVE  BootInv
<1>1. pc["boot"] = "recover" /\ pc["watchdog"] = "off" /\ \A r \in Reqs : pc[r] = "new"
  BY RequestAssumption DEF Init, Procs, Restarted
<1> QED BY <1>1 DEF Init, BootInv, Alone, Cleared, Built, Honoured, Ended, b

LEMMA CrashInv ==
  ASSUME BootInv, TypeOK', Crash
  PROVE  BootInv'
<1>1. pc'["boot"] = "recover" /\ Alone'
  BY RequestAssumption DEF Crash, Procs, Restarted, Alone
<1>2. owed' => mode = "gateway" \/ pending # "none"
  BY DEF Crash, BootInv, Honoured
<1> QED BY <1>1, <1>2 DEF Crash, settings, BootInv, Cleared, Built, Honoured, Ended, b,
                          TeardownSteps, RevertSteps

LEMMA BootInvStep ==
  ASSUME BootInv, [Next]_vars
  PROVE  BootInv'
<1>0. TypeOK /\ TypeOK'
  BY TypeStep DEF BootInv
<1>1. ASSUME NEW p \in Procs, Step(p) PROVE BootInv'
  <2>1. CASE p = "boot"
    BY <1>0, <1>1, <2>1, BootApplyInv, BootTeardownInv, BootRevertInv DEF Step
  <2>2. CASE p # "boot"
    BY <1>0, <1>1, <2>2, OthersServe, ServedInv, ServingInv
  <2> QED BY <2>1, <2>2
<1>2. ASSUME NEW r \in Reqs, Request(r) PROVE BootInv'
  BY <1>0, <1>2, RequestsServe, ServedInv, ServingInv
<1>3. CASE Watchdog
  BY <1>0, <1>3, WatchdogServes, ServedInv, ServingInv
<1>4. CASE Confirm \/ Restore
  <2>1. Serving /\ Serving' /\ owed' = owed
    BY <1>4 DEF Confirm, Restore, locals, Serving
  <2> QED BY <1>0, <2>1, ServedInv, ServingInv
<1>5. CASE Boot
  BY <1>0, <1>5, BootBootInv
<1>6. CASE Crash
  BY <1>0, <1>6, CrashInv
<1>7. CASE Expire
  BY <1>0, <1>7 DEF Expire, locals, BootInv, Alone, Serving, Cleared, Built, Honoured, Ended,
                    GatewayBox, b
<1>8. CASE UNCHANGED vars
  BY <1>0, <1>8 DEF vars, BootInv, Alone, Serving, Cleared, Built, Honoured, Ended, GatewayBox, b
<1> QED BY <1>1, <1>2, <1>3, <1>4, <1>5, <1>6, <1>7, <1>8 DEF Next

LEMMA BootInvariant == Spec => []BootInv
<1>1. ASSUME Init PROVE TypeOK
  BY <1>1, InitType
<1>2. Init => BootInv
  BY <1>1, InitInv
<1>3. BootInv /\ [Next]_vars => BootInv'
  BY BootInvStep
<1> QED BY <1>2, <1>3, PTL DEF Spec

\* A confirmation window that was open when the process died is honoured by the
\* boot, however often the boot itself is cut short: it ends as a gateway.
THEOREM RevertHonoured == Spec => []RevertOwed
<1>1. BootInv => RevertOwed
  BY DEF BootInv, RevertOwed, Honoured, Ended, b
<1> QED BY <1>1, BootInvariant, PTL

-----------------------------------------------------------------------------
(***************************************************************************)
(* How a boot ends.  An exception other than RouterModeError escapes       *)
(* reconcile_on_boot and leaves half a router: without one, it does not.   *)
(***************************************************************************)
LEMMA SettlesStep ==
  ASSUME "error" \notin Verdicts, BootInv, BootInv', BootSettles, [Next]_vars
  PROVE  BootSettles'
<1> USE DEF Goto
<1>0. TypeOK /\ "boot" \in Procs
  BY DEF BootInv, Procs
<1>1. SUFFICES ASSUME pc'["boot"] = "start"
               PROVE  GatewayBox' \/ (mode' = "router" /\ Wanted(cfg') \subseteq up')
  BY DEF BootSettles
<1>2. ~Serving'
  BY <1>1 DEF Serving
<1>3. ASSUME NEW p \in Procs, Step(p)
      PROVE  GatewayBox' \/ (mode' = "router" /\ Wanted(cfg') \subseteq up')
  <2>0. p = "boot"
    BY <1>2, <1>3, OthersServe
  <2>1. CASE Teardown(p)
    <3>1. TeardownBridge("boot")
      BY <1>0, <1>1, <2>0, <2>1
         DEF TypeOK, Teardown, TeardownDhcp, TeardownWifi, TeardownNat
    <3> QED BY <3>1 DEF TeardownBridge, Drop, BootInv, Cleared, GatewayBox, b
  <2>2. CASE Revert(p)
    BY <1>0, <1>1, <2>0, <2>2 DEF TypeOK, Revert, SetGateway, ClearPending
  <2>3. CASE Apply(p)
    <3>1. ASSUME NEW o, CallTeardown("boot", o) PROVE FALSE
      BY <1>0, <1>1, <3>1 DEF CallTeardown, TypeOK
    <3>2. ASSUME NEW l \in {"link", "nat", "dhcp", "wifi"}, Goto("boot", l) PROVE FALSE
      BY <1>0, <1>1, <3>2 DEF TypeOK
    <3>3. ~ApplyRead("boot")
      <4>1. ASSUME NEW v \in Verdicts \ {"ok"}, Return("boot", v) PROVE FALSE
        <5>1. v = "refused"
          BY VerdictAssumption
        <5> QED BY <1>0, <1>1, <4>1, <5>1 DEF Return, Resume, BootResume, TypeOK
      <4> QED BY <3>2, <4>1 DEF ApplyRead
    <3>4. ApplyWifi("boot") /\ Return("boot", "router")
      BY <2>0, <2>3, <3>1, <3>2, <3>3
         DEF Apply, ApplyGateway, ApplyLink, ApplyNat, ApplyDhcp, ApplyWifi, Sidecar, Continue, Fail
    <3>5. \/ "wifi" \in seen["boot"] /\ up' = up \cup {"wifi"}
          \/ "wifi" \notin seen["boot"] /\ up' = up \ {"wifi"}
      BY <3>1, <3>4 DEF ApplyWifi, Sidecar, Fail
    <3>6. /\ mode = "router" /\ seen["boot"] = cfg /\ UNCHANGED <<mode, cfg>>
          /\ (cfg \cap {"wan", "bridge", "dhcp"}) \cup {"nat"} \subseteq up
      BY <3>4 DEF ApplyWifi, BootInv, Built, b, settings
    <3>7. cfg \subseteq Optional
      BY ConfigAssumption, <1>0 DEF TypeOK
    <3> QED BY <3>5, <3>6, <3>7 DEF Wanted, Optional
  <2> QED BY <1>3, <2>1, <2>2, <2>3 DEF Step
<1>4. CASE \E r \in Reqs : Request(r)
  BY <1>2, <1>4, RequestsServe
<1>5. CASE Watchdog
  BY <1>2, <1>5, WatchdogServes
<1>6. CASE Confirm \/ Restore
  BY <1>2, <1>6 DEF Confirm, Restore, locals, Serving
<1>7. CASE Boot \/ Crash
  BY <1>0, <1>1, <1>7 DEF Boot, BootRecover, BootReconcile, BootStart, CallTeardown, Crash,
                          Restarted, TypeOK
<1>8. CASE Expire \/ UNCHANGED vars
  BY <1>1, <1>8 DEF BootSettles, Expire, locals, vars, GatewayBox
<1> QED BY <1>3, <1>4, <1>5, <1>6, <1>7, <1>8 DEF Next

\* If validation never fails in an unforeseen way, every boot ends with a clean
\* gateway (but for pieces that cannot be removed) or a complete router.
THEOREM BootSettled ==
  ASSUME "error" \notin Verdicts
  PROVE  Spec => []BootSettles
<1>1. Init => BootSettles
  BY DEF Init, Procs, Restarted, BootSettles
<1>2. BootInv /\ BootInv' /\ BootSettles /\ [Next]_vars => BootSettles'
  BY SettlesStep
<1> QED BY <1>1, <1>2, BootInvariant, PTL DEF Spec

-----------------------------------------------------------------------------
(***************************************************************************)
(* Confirmations.  The history variables hold no step back, so what is     *)
(* proved of Spec holds of HSpec.  A confirmation finds no revert under    *)
(* way and leaves no window behind, so no revert can begin.                *)
(***************************************************************************)
LEMMA HistoryOnly == HSpec => Spec
<1>1. HInit => Init
  BY DEF HInit
<1>2. [HNext]_hvars => [Next]_vars
  BY DEF HNext, hvars
<1> QED BY <1>1, <1>2, PTL DEF HSpec, Spec

Reverts(p) == ret[p] = "reverted" \/ pc[p] \in RevertSteps

\* Only the watchdog and the boot revert, and what they return to is set while they
\* tear down.
RevertInv ==
  /\ \A p \in Procs : ret[p] = "reverted" => pc[p] \in TeardownSteps
  /\ \A r \in Reqs : ~Reverts(r)

\* Once confirmed, the mode stands, no window is open and nobody is reverting.
Confirmed ==
  confirmed = "clean" => /\ mode = "router" /\ pending = "none"
                         /\ \A p \in Procs : ~Reverts(p)

\* What a coroutine that calls teardown() or returns from a call becomes.
LEMMA CallReverts ==
  ASSUME TypeOK, NEW p \in Procs, NEW o \in Outcomes, CallTeardown(p, o)
  PROVE  /\ Reverts(p)' <=> o = "reverted"
         /\ pc'[p] \in TeardownSteps
         /\ \A q \in Procs \ {p} : pc'[q] = pc[q] /\ ret'[q] = ret[q]
BY DEF TypeOK, CallTeardown, Goto, Reverts, RevertSteps, TeardownSteps

LEMMA ReturnReverts ==
  ASSUME TypeOK, NEW p \in Procs, NEW o \in Outcomes, Return(p, o)
  PROVE  /\ Reverts(p)' <=> o = "reverted"
         /\ ret'[p] # "reverted"
         /\ \A q \in Procs \ {p} : pc'[q] = pc[q] /\ ret'[q] = ret[q]
<1>1. /\ pc' = [pc EXCEPT ![p] = Resume(p, o)] /\ ret' = [ret EXCEPT ![p] = "gateway"]
  BY DEF Return, Goto
<1>2. pc'[p] = Resume(p, o) /\ ret'[p] = "gateway"
  BY <1>1 DEF TypeOK
<1>3. Resume(p, o) \in RevertSteps <=> o = "reverted"
  BY DEF Resume, BootResume, RequestResume, RevertSteps
<1> QED BY <1>1, <1>2, <1>3 DEF Reverts, TypeOK

\* Between two points where a coroutine neither calls nor returns.
LEMMA GotoReverts ==
  ASSUME TypeOK, NEW p \in Procs, NEW l \in Labels, Goto(p, l), UNCHANGED ret
  PROVE  /\ pc'[p] = l /\ \A q \in Procs \ {p} : pc'[q] = pc[q]
         /\ ret[p] # "reverted" /\ l \notin RevertSteps => ~Reverts(p)'
BY DEF TypeOK, Goto, Reverts

\* How a step of apply() ends.
LEMMA ApplyMoves ==
  ASSUME TypeOK, NEW p \in Procs, Apply(p)
  PROVE  /\ UNCHANGED <<mode, pending>> /\ pc[p] \in ApplySteps
         /\ \/ \E l \in ApplySteps : Goto(p, l) /\ UNCHANGED ret
            \/ \E o \in Outcomes \ {"reverted"} : CallTeardown(p, o) \/ Return(p, o)
<1> USE DEF ApplySteps, settings, Continue, Fail
<1>1. CASE ApplyGateway(p)
  BY <1>1 DEF ApplyGateway
<1>2. CASE ApplyRead(p)
  <2>1. \A v \in Verdicts \ {"ok"} : v \in Outcomes \ {"reverted"}
    BY VerdictAssumption
  <2> QED BY <1>2, <2>1 DEF ApplyRead
<1>3. CASE ApplyLink(p)
  BY <1>3 DEF ApplyLink
<1>4. CASE ApplyNat(p)
  BY <1>4 DEF ApplyNat
<1>5. CASE ApplyDhcp(p)
  BY <1>5 DEF ApplyDhcp, Sidecar
<1>6. CASE ApplyWifi(p)
  BY <1>6 DEF ApplyWifi, Sidecar
<1> QED BY <1>1, <1>2, <1>3, <1>4, <1>5, <1>6 DEF Apply

\* How a step of teardown() ends: it takes up again what called it.
LEMMA TeardownMoves ==
  ASSUME TypeOK, NEW p \in Procs, Teardown(p)
  PROVE  /\ UNCHANGED <<mode, pending>> /\ pc[p] \in TeardownSteps
         /\ \/ \E l \in TeardownSteps : Goto(p, l) /\ UNCHANGED ret
            \/ Return(p, ret[p]) /\ ret[p] \in Outcomes
BY DEF Teardown, TeardownDhcp, TeardownWifi, TeardownNat, TeardownBridge, TeardownSteps,
       settings, locals, TypeOK

LEMMA RevertStep ==
  ASSUME TypeOK, Alone, RevertInv, [Next]_vars
  PROVE  /\ RevertInv'
         /\ pending = "none" /\ (\A p \in Procs : ~Reverts(p)) => \A p \in Procs : ~Reverts(p)'
<1> DEFINE Goal == /\ RevertInv'
                   /\ pending = "none" /\ (\A p \in Procs : ~Reverts(p))
                        => \A p \in Procs : ~Reverts(p)'
<1>0. "watchdog" \in Procs /\ "boot" \in Procs /\ Reqs \subseteq Procs
      /\ "watchdog" \notin Reqs /\ "boot" \notin Reqs
  BY RequestAssumption DEF Procs
<1>a. ApplySteps \cap RevertSteps = {} /\ TeardownSteps \cap RevertSteps = {}
      /\ ApplySteps \cap TeardownSteps = {} /\ ApplySteps \subseteq Labels
      /\ TeardownSteps \subseteq Labels
  BY DEF ApplySteps, RevertSteps, TeardownSteps, Labels
\* One coroutine moves.
<1>1. ASSUME NEW p \in Procs, \A q \in Procs \ {p} : pc'[q] = pc[q] /\ ret'[q] = ret[q],
             ret'[p] = "reverted" => pc'[p] \in TeardownSteps,
             Reverts(p)' => Reverts(p) \/ (pending # "none" /\ p \notin Reqs)
      PROVE  Goal
  BY <1>0, <1>1 DEF RevertInv, Reverts
<1> HIDE DEF Goal
<1>2. ASSUME NEW p \in Procs, Apply(p) PROVE Goal
  <2>0. ret[p] # "reverted" /\ ~Reverts(p)
    BY <1>a, <1>2, ApplyMoves DEF RevertInv, Reverts
  <2>1. CASE \E l \in ApplySteps : Goto(p, l) /\ UNCHANGED ret
    BY <1>1, <1>a, <2>0, <2>1, GotoReverts
  <2>2. ASSUME NEW o \in Outcomes \ {"reverted"}, CallTeardown(p, o) \/ Return(p, o) PROVE Goal
    BY <1>1, <2>2, CallReverts, ReturnReverts DEF Reverts
  <2> QED BY <1>2, <2>1, <2>2, ApplyMoves
<1>3. ASSUME NEW p \in Procs, Teardown(p) PROVE Goal
  <2>1. ASSUME NEW l \in TeardownSteps, Goto(p, l), UNCHANGED ret PROVE Goal
    <3>1. pc'[p] = l /\ \A q \in Procs \ {p} : pc'[q] = pc[q]
      BY <1>a, <2>1, GotoReverts
    <3>2. Reverts(p)' => Reverts(p)
      BY <1>a, <2>1, <3>1 DEF Reverts
    <3> QED BY <1>1, <2>1, <3>1, <3>2
  <2>2. CASE Return(p, ret[p]) /\ ret[p] \in Outcomes
    <3>1. Reverts(p)' => Reverts(p)
      BY <2>2, ReturnReverts DEF Reverts
    <3> QED BY <1>1, <2>2, <3>1, ReturnReverts
  <2> QED BY <1>3, <2>1, <2>2, TeardownMoves
<1>4. ASSUME NEW p \in Procs, Revert(p) PROVE Goal
  <2>1. pc[p] \in RevertSteps /\ UNCHANGED ret /\ \E l \in Labels : Goto(p, l)
    BY <1>4 DEF Revert, SetGateway, ClearPending, RevertSteps, locals, Labels, BootSteps,
                WatchdogSteps
  <2>2. Reverts(p) /\ ret[p] # "reverted"
    BY <1>a, <2>1 DEF Reverts, RevertInv
  <2> QED BY <1>1, <2>1, <2>2, GotoReverts
<1>5. ASSUME NEW r \in Reqs, Request(r) PROVE Goal
  <2>1. UNCHANGED ret /\ \E l \in {"commit", "arm", "read", "answered", "failed"} : Goto(r, l)
    BY <1>5 DEF Request, ReqRead, ReqCommit, ReqArm, ReqDisarm, ReqGiveUp, locals
  <2>2. PICK l \in Labels : Goto(r, l) /\ l \notin RevertSteps
    BY <2>1 DEF Labels, ApplySteps, RequestSteps, RevertSteps
  <2>3. ret[r] # "reverted"
    BY <1>5 DEF RevertInv, Reverts
  <2> QED BY <1>0, <1>1, <2>1, <2>2, <2>3, GotoReverts
<1>6. ASSUME Watchdog PROVE Goal
  <2> DEFINE w == "watchdog"
  <2>1. CASE WatchdogRevert
    <3>1. pending = "expired" /\ CallTeardown(w, "reverted")
      BY <2>1 DEF WatchdogRevert
    <3> QED BY <1>0, <1>1, <3>1, CallReverts
  <2>2. CASE WatchdogRetry \/ WatchdogMode \/ WatchdogCounters
    <3>1. UNCHANGED ret /\ pc[w] \in {"idle", "w_mode", "w_counters"}
          /\ \E l \in {"w_mode", "w_counters", "idle", "read"} : Goto(w, l)
      BY <2>2 DEF WatchdogRetry, WatchdogMode, WatchdogCounters, locals
    <3>2. PICK l \in Labels : Goto(w, l) /\ l \notin RevertSteps
      BY <3>1 DEF Labels, ApplySteps, WatchdogSteps, RevertSteps
    <3>3. ret[w] # "reverted"
      BY <1>0, <3>1 DEF RevertInv, TeardownSteps
    <3> QED BY <1>0, <1>1, <3>1, <3>2, <3>3, GotoReverts
  <2> QED BY <1>6, <2>1, <2>2 DEF Watchdog
<1>7. ASSUME Boot PROVE Goal
  <2> DEFINE v == "boot"
  <2>0. ret[v] # "reverted"
    BY <1>0, <1>7 DEF RevertInv, TeardownSteps, Boot, BootRecover, BootReconcile, BootStart
  <2>1. ASSUME NEW o \in Outcomes, CallTeardown(v, o), o = "reverted" => pending # "none"
        PROVE  Goal
    BY <1>0, <1>1, <2>1, CallReverts
  <2>2. ASSUME NEW l \in {"reconcile", "read"}, Goto(v, l), UNCHANGED ret PROVE Goal
    <3>1. l \in Labels /\ l \notin RevertSteps
      BY DEF Labels, ApplySteps, BootSteps, RevertSteps
    <3> QED BY <1>0, <1>1, <2>0, <2>2, <3>1, GotoReverts
  <2>3. CASE BootRecover
    BY <2>1, <2>2, <2>3 DEF BootRecover
  <2>4. CASE BootReconcile
    BY <2>1, <2>2, <2>4 DEF BootReconcile
  <2>5. CASE BootStart
    <3>1. pc["watchdog"] = "off"
      BY <2>5 DEF BootStart, Serving, Alone
    <3>2. /\ pc'[v] = "done" /\ pc'["watchdog"] = "idle" /\ UNCHANGED ret
          /\ \A r \in Reqs : pc'[r] = pc[r]
      BY <1>0, <2>5 DEF BootStart, TypeOK, locals
    <3>3. ret["watchdog"] # "reverted"
      BY <1>0, <3>1 DEF RevertInv, TeardownSteps
    <3>4. \A p \in Procs : p = v \/ p = "watchdog" \/ p \in Reqs
      BY DEF Procs
    <3>5. /\ ~Reverts(v)' /\ ~Reverts("watchdog")' /\ \A r \in Reqs : ~Reverts(r)'
          /\ \A p \in Procs : ret'[p] # "reverted"
      BY <2>0, <3>2, <3>3, <3>4 DEF RevertInv, Reverts, RevertSteps
    <3> QED BY <3>4, <3>5 DEF Goal, RevertInv
  <2> QED BY <1>7, <2>3, <2>4, <2>5 DEF Boot
<1>8. ASSUME Confirm \/ Restore \/ Expire \/ UNCHANGED vars PROVE Goal
  BY <1>8 DEF Goal, Confirm, Restore, Expire, vars, locals, RevertInv, Reverts
<1>9. ASSUME Crash PROVE Goal
  <2>1. \A p \in Procs : ret'[p] = "gateway" /\ pc'[p] \notin RevertSteps
    BY <1>9 DEF Crash, Restarted, RevertSteps
  <2> QED BY <1>0, <2>1 DEF Goal, RevertInv, Reverts
<1>10. Goal
  BY <1>2, <1>3, <1>4, <1>5, <1>6, <1>7, <1>8, <1>9 DEF Next, Step
<1> QED BY <1>10 DEF Goal

\* Who writes the mode and the window.
LEMMA ModeWriters ==
  ASSUME TypeOK, RevertInv, [Next]_vars, ~Touching
  PROVE  /\ mode' = mode \/ \E p \in Procs : Reverts(p)
         /\ pending' = pending \/ Confirm \/ Expire \/ \E p \in Procs : Reverts(p)
<1>1. ASSUME NEW p \in Procs, Step(p)
      PROVE  Reverts(p) \/ UNCHANGED <<mode, pending>>
  BY <1>1, ApplyMoves, TeardownMoves
     DEF Step, Revert, SetGateway, ClearPending, Reverts, RevertSteps
<1>2. ASSUME NEW r \in Reqs, Request(r) PROVE UNCHANGED <<mode, pending>>
  <2>1. CASE ReqRead(r)
    BY <2>1 DEF ReqRead, settings
  <2>2. CASE ReqCommit(r) \/ ReqArm(r) \/ ReqDisarm(r) \/ ReqGiveUp(r)
    <3>1. /\ pc[r] \in {"commit", "arm", "disarm", "giveup"}
          /\ \E l \in {"arm", "answered", "read", "failed"} : l # pc[r] /\ Goto(r, l)
      BY <2>2 DEF ReqCommit, ReqArm, ReqDisarm, ReqGiveUp
    <3>2. pc'[r] # pc[r]
      BY <3>1 DEF Goto, TypeOK, Procs
    <3> QED BY <3>1, <3>2 DEF Touching
  <2> QED BY <1>2, <2>1, <2>2 DEF Request
<1>3. CASE Restore
  <2>1. left'["restore"] = left["restore"] - 1 /\ left["restore"] \in Nat
    BY <1>3 DEF Restore, Spend, TypeOK
  <2> QED BY <2>1 DEF Touching, Restoring
<1>4. CASE Watchdog \/ Boot \/ Crash \/ UNCHANGED vars
  BY <1>4 DEF Watchdog, WatchdogRevert, WatchdogRetry, WatchdogMode, WatchdogCounters, Boot,
              BootRecover, BootReconcile, BootStart, Crash, vars, settings
<1> QED BY <1>1, <1>2, <1>3, <1>4 DEF Next, Confirm, Expire

LEMMA ConfirmedStep ==
  ASSUME TypeOK, Alone, RevertInv, Confirmed, [HNext]_hvars
  PROVE  Confirmed'
<1>0. [Next]_vars
  BY DEF HNext, hvars
<1> SUFFICES ASSUME confirmed' = "clean"
             PROVE  mode' = "router" /\ pending' = "none" /\ \A p \in Procs : ~Reverts(p)'
  BY DEF Confirmed
<1>1. CASE confirmed = "clean" /\ ~Touching
  <2>1. mode = "router" /\ pending = "none" /\ \A p \in Procs : ~Reverts(p)
    BY <1>1 DEF Confirmed
  <2>2. mode' = "router" /\ pending' = "none"
    BY <1>0, <1>1, <2>1, ModeWriters DEF Confirm, Expire
  <2> QED BY <1>0, <2>1, <2>2, RevertStep
<1>2. CASE Confirming /\ mode = "router" /\ ~Reverting
  <2>1. /\ pending # "none" /\ pending' = "none" /\ pc' = pc /\ left' = left
        /\ ~Reverts("watchdog")
    BY <1>2 DEF Confirming, Reverting, Reverts
  <2>2. ~Touching
    BY <2>1 DEF Touching, Restoring
  <2>3. CASE Confirm
    <3>1. UNCHANGED <<mode, pc, ret>> /\ Serving
      BY <2>3 DEF Confirm, locals
    <3>2. ~Reverts("boot")
      BY <3>1 DEF Serving, RevertInv, Reverts, Procs, TeardownSteps, RevertSteps
    <3>3. \A p \in Procs : ~Reverts(p)
      BY <2>1, <3>2 DEF Procs, RevertInv
    <3> QED BY <1>2, <2>1, <3>1, <3>3 DEF Reverts
  <2>4. CASE ~Confirm
    <3>1. PICK p \in Procs : Step(p) /\ pending' # pending
      <4>1. CASE \E p \in Procs : Step(p)
        BY <2>1, <4>1
      <4>2. CASE Watchdog \/ Boot \/ Crash \/ Expire \/ UNCHANGED vars
        BY <2>1, <4>2
           DEF Watchdog, WatchdogRevert, WatchdogRetry, WatchdogMode, WatchdogCounters, Boot,
               BootRecover, BootReconcile, BootStart, Crash, Expire, vars, settings
      <4>3. CASE \E r \in Reqs : Request(r)
        <5>1. PICK r \in Reqs : Request(r)
          BY <4>3
        <5>2. \E l \in {"commit", "arm", "answered", "read", "failed"} : l # pc[r] /\ Goto(r, l)
          BY <5>1 DEF Request, ReqRead, ReqCommit, ReqArm, ReqDisarm, ReqGiveUp
        <5> QED BY <2>1, <5>2 DEF Goto, TypeOK, Procs
      <4>4. CASE Restore
        BY <2>1, <4>4 DEF Restore, Spend, TypeOK
      <4> QED BY <1>0, <2>4, <4>1, <4>2, <4>3, <4>4 DEF Next
    <3>2. ClearPending(p)
      BY <3>1, ApplyMoves, TeardownMoves DEF Step, Revert, SetGateway
    <3>3. pc[p] = "clear" /\ pc'[p] \in {"reconcile", "idle"}
      BY <3>2 DEF ClearPending, Goto, TypeOK
    <3> QED BY <2>1, <3>3
  <2> QED BY <2>3, <2>4
<1>3. \/ confirmed = "clean" /\ ~Touching
      \/ Confirming /\ mode = "router" /\ ~Reverting
  <2>1. CASE HNext
    BY <2>1 DEF HNext
  <2>2. CASE UNCHANGED hvars
    <3>1. confirmed = "clean" /\ UNCHANGED <<pc, left>>
      BY <2>2 DEF hvars, vars
    <3> QED BY <3>1 DEF Touching, Restoring
  <2> QED BY <2>1, <2>2
<1> QED BY <1>1, <1>2, <1>3

\* What the operator confirmed before the watchdog began to revert is never reverted
\* behind his back, by the watchdog or by a restart, whatever requests, failures and
\* crashes come after it.
THEOREM ConfirmationKept == HSpec => []ConfirmedIsKept
<1>1. HInit => RevertInv /\ Confirmed
  BY DEF HInit, Init, RevertInv, Reverts, Restarted, RevertSteps, Confirmed, Procs
<1>2. BootInv /\ RevertInv /\ [Next]_vars => RevertInv'
  BY RevertStep DEF BootInv
<1>3. BootInv /\ RevertInv /\ Confirmed /\ [HNext]_hvars => Confirmed'
  BY ConfirmedStep DEF BootInv
<1>4. Confirmed => ConfirmedIsKept
  BY DEF Confirmed, ConfirmedIsKept
<1>5. [HNext]_hvars => [Next]_vars
  BY DEF HNext, hvars
<1> QED BY <1>1, <1>2, <1>3, <1>4, <1>5, HistoryOnly, BootInvariant, PTL DEF HSpec

=============================================================================
