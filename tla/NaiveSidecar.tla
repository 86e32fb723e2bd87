---------------------------- MODULE NaiveSidecar ----------------------------
(***************************************************************************)
(* NaiveProxy nodes and their sidecar containers: the node rows, the       *)
(* configuration files, the containers, the requests that change a node,   *)
(* the supervisor that answers the death of a container, and the boot.     *)
(*                                                                         *)
(* A step runs to the next commit or the next call of the Docker daemon.   *)
(* A row's ver stands for what of it goes into the configuration file:     *)
(* server address, credentials, padding.  Docker is the environment: it    *)
(* reports the death of a running container, its removal by force being    *)
(* one, and it starts again a container that died (restart policy).        *)
(***************************************************************************)
EXTENDS Naturals, Sequences, FiniteSets, FiniteSetsExt

CONSTANTS
  Nodes,       \* node ids
  Requests,    \* requests that may be served at the same time
  Vers,        \* values of ver
  Ports,       \* naive_port_range_start .. naive_port_range_end
  MaxRestarts, \* MAX_RESTARTS_PER_WINDOW
  Nil,
  MaxOps,      \* bound: requests served
  MaxMishaps   \* bound: deaths, failures of Docker, restarts of the backend, rows dropped

ASSUME NaiveAssumption ==
  /\ IsFiniteSet(Nodes) /\ IsFiniteSet(Requests)
  /\ Ports \subseteq Nat \ {0} /\ MaxRestarts \in Nat \ {0}
  /\ MaxOps \in Nat /\ MaxMishaps \in Nat

Supervisor == "supervisor"
Boot == "boot"
Coroutines == Requests \cup {Supervisor, Boot}

FileConf == [ver : Vers, port : Ports]
Row == [on : BOOLEAN, ver : Vers, port : {0} \cup Ports]
Box == [conf : FileConf, up : BOOLEAN]

ASSUME NilAssumption ==
  /\ Requests \cap {Supervisor, Boot} = {}
  /\ Nil \notin Nodes \cup Coroutines \cup FileConf \cup Row \cup Box

VARIABLES
  row,    \* Node: Nil, or enabled, ver and internal_port (0: none yet)
  file,   \* {NAIVE_CONFIG_DIR}/<id>.json
  box,    \* container pitun-naive-<id>: the configuration its process read, and whether it runs
  lock,   \* NaiveManager._locks: who holds it
  act,    \* what an actor is doing, to which node, with which copy of the row or chosen port
  todo,   \* sync_all: the sidecars still to stop and the copies of rows still to start
  events, \* the queue of die events
  stream, \* the events stream is connected
  hist,   \* attempts in _restart_history that are inside the window
  budget,   \* what remains of the bounds
  gaveUp, \* history: nodes for which sidecar.gave_up was recorded
  died,   \* history: nodes whose process ended by itself
  raced,  \* history: nodes changed while someone else was acting on them
  failed  \* history: nodes for which a call of Docker, or an allocation, failed

history == <<gaveUp, died, raced, failed>>
naiveVars == <<row, file, box, lock, act, todo, events, stream, hist, budget, history>>

Copy(r) == [ver |-> r.ver, port |-> r.port]
Idle == [at |-> "idle", n |-> Nil, conf |-> Nil, port |-> 0, then |-> "done"]

Places == {"idle", "port", "take", "start", "stop", "remove", "run", "wipe", "drop",
           "backoff", "list", "next"}

NaiveTypeOK ==
  /\ row \in [Nodes -> Row \cup {Nil}]
  /\ file \in [Nodes -> FileConf \cup {Nil}]
  /\ box \in [Nodes -> Box \cup {Nil}]
  /\ lock \in [Nodes -> Coroutines \cup {Nil}]
  /\ \A a \in Coroutines :
       /\ act[a].at \in Places /\ act[a].n \in Nodes \cup {Nil}
       /\ act[a].at \in {"start", "remove", "run"} => act[a].conf \in FileConf
       /\ act[a].at = "take" => act[a].port \in Ports
       /\ act[a].at \in {"remove", "run", "wipe"} => lock[act[a].n] = a
  /\ todo.stop \subseteq Nodes /\ todo.start \in [Nodes -> FileConf \cup {Nil}]
  /\ events \in Seq(Nodes) /\ stream \in BOOLEAN
  /\ hist \in [Nodes -> 0..MaxRestarts]

NaiveInit ==
  /\ row = [n \in Nodes |-> Nil] /\ file = [n \in Nodes |-> Nil]
  /\ box = [n \in Nodes |-> Nil] /\ lock = [n \in Nodes |-> Nil]
  /\ act = [a \in Coroutines |-> Idle]
  /\ todo = [stop |-> {}, start |-> [n \in Nodes |-> Nil]]
  /\ events = <<>> /\ stream = TRUE /\ hist = [n \in Nodes |-> 0]
  /\ budget = [ops |-> MaxOps, mishaps |-> MaxMishaps]
  /\ gaveUp = {} /\ died = {} /\ raced = {} /\ failed = {}

Consume(k) == budget[k] > 0 /\ budget' = [budget EXCEPT ![k] = @ - 1]

-----------------------------------------------------------------------------
(* Who acts on a node while its row changes. *)

WorksOn(a, n) == act[a].at # "idle" /\ act[a].n = n
Holds(a, n) == WorksOn(a, n) /\ act[a].at # "backoff"
Deleting(n) == \E r \in Requests : WorksOn(r, n) /\ act[r].then = "drop"

\* Request r changes the row of n, at its beginning or, a delete, at its end.
Changes(r, n) ==
  raced' = IF \E a \in Coroutines \ {r} : Holds(a, n) \/ act[Boot].at # "idle"
             THEN raced \cup {n} ELSE raced

Go(a, s) == act' = [act EXCEPT ![a] = s]
At(a, at) == act' = [act EXCEPT ![a].at = at]

\* What an actor turns to when its call of the manager is over.
After(a) ==
  CASE a = Boot -> [Idle EXCEPT !.at = "next"]
    [] act[a].then = "drop" -> [act[a] EXCEPT !.at = "drop"]
    [] OTHER -> Idle

-----------------------------------------------------------------------------
(* naive_manager: start_node and stop_node, each under the lock of the node. *)

\* _write_config_sync, the first thing start_node does under the lock.
WriteConfig(a) ==
  LET n == act[a].n
  IN /\ act[a].at = "start" /\ lock[n] = Nil
     /\ lock' = [lock EXCEPT ![n] = a]
     /\ file' = [file EXCEPT ![n] = act[a].conf]
     /\ At(a, "remove")
     /\ UNCHANGED <<row, box, todo, events, stream, hist, budget, history>>

\* Docker reports a death on the stream, if the supervisor is connected to it.
Report(n) == events' = IF stream THEN Append(events, n) ELSE events

\* _remove_container_sync: remove(force=True) of a running container kills it.
Remove(n) ==
  /\ box' = [box EXCEPT ![n] = Nil]
  /\ IF box[n] # Nil /\ box[n].up THEN Report(n) ELSE UNCHANGED events

RemoveForStart(a) ==
  /\ act[a].at = "remove" /\ Remove(act[a].n) /\ At(a, "run")
  /\ UNCHANGED <<row, file, lock, todo, stream, hist, budget, history>>

\* _run_container_sync: the process reads the file as it is when it starts.
RunContainer(a) ==
  LET n == act[a].n
  IN /\ act[a].at = "run"
     /\ box' = [box EXCEPT ![n] = [conf |-> file[n], up |-> TRUE]]
     /\ lock' = [lock EXCEPT ![n] = Nil]
     /\ Go(a, After(a))
     /\ UNCHANGED <<row, file, todo, events, stream, hist, budget, history>>

RemoveForStop(a) ==
  LET n == act[a].n
  IN /\ act[a].at = "stop" /\ lock[n] = Nil
     /\ Remove(n) /\ lock' = [lock EXCEPT ![n] = a] /\ At(a, "wipe")
     /\ UNCHANGED <<row, file, todo, stream, hist, budget, history>>

DeleteConfig(a) ==
  LET n == act[a].n
  IN /\ act[a].at = "wipe"
     /\ file' = [file EXCEPT ![n] = Nil]
     /\ lock' = [lock EXCEPT ![n] = Nil]
     /\ Go(a, After(a))
     /\ UNCHANGED <<row, box, todo, events, stream, hist, budget, history>>

\* Docker refuses to remove or to run: NaiveManagerError, the lock is released and every caller
\* goes on.  (The Docker call of stop_node is its first step, before the lock is recorded here.)
DockerFails(a) ==
  LET n == act[a].n
  IN /\ \/ act[a].at \in {"remove", "run"}
        \/ act[a].at = "stop" /\ lock[n] = Nil
     /\ Consume("mishaps")
     /\ lock' = [lock EXCEPT ![n] = Nil]
     /\ Go(a, After(a))
     /\ failed' = failed \cup {n}
     /\ UNCHANGED <<row, file, box, todo, events, stream, hist, gaveUp, died, raced>>

-----------------------------------------------------------------------------
(* Requests. *)

CanServe(r) == act[r].at = "idle" /\ act[Boot].at = "idle" /\ Consume("ops")
Rest == UNCHANGED <<file, box, lock, todo, events, stream, hist, gaveUp, died, failed>>

\* A handler goes on with _ensure_naive_port, then with the sidecar.
Ensure(r, n, w, then) ==
  Go(r, [at |-> IF w.port = 0 THEN "port" ELSE then, n |-> n,
         conf |-> IF w.port = 0 THEN Nil ELSE Copy(w), port |-> 0, then |-> then])

\* create_node, and import_nodes for an imported naive node.
CreateNode(r, n) ==
  \E on \in BOOLEAN, v \in Vers :
     LET w == [on |-> on, ver |-> v, port |-> 0]
     IN /\ CanServe(r) /\ row[n] = Nil
        /\ row' = [row EXCEPT ![n] = w]
        /\ Ensure(r, n, w, IF on THEN "start" ELSE "stop")
        /\ Changes(r, n) /\ Rest

\* update_node.  A change of enabled starts or stops the sidecar, a change of what its file says
\* restarts it if the node is enabled.
UpdateNode(r, n) ==
  \E on \in BOOLEAN, v \in Vers :
     LET w == [row[n] EXCEPT !.on = on, !.ver = v]
         then == CASE on # row[n].on -> IF on THEN "start" ELSE "stop"
                   [] on /\ v # row[n].ver -> "start"
                   [] OTHER -> "idle"
     IN /\ CanServe(r) /\ row[n] # Nil /\ w # row[n]
        /\ row' = [row EXCEPT ![n] = w]
        /\ Ensure(r, n, w, then)
        /\ Changes(r, n) /\ Rest

\* naive_sidecar_restart.
RestartSidecar(r, n) ==
  /\ CanServe(r) /\ row[n] # Nil /\ row[n].on
  /\ Ensure(r, n, row[n], "start")
  /\ Changes(r, n) /\ UNCHANGED row /\ Rest

\* delete_node: the sidecar is stopped before the row is deleted.
DeleteNode(r, n) ==
  /\ CanServe(r) /\ row[n] # Nil
  /\ Go(r, [at |-> "stop", n |-> n, conf |-> Nil, port |-> 0, then |-> "drop"])
  /\ Changes(r, n) /\ UNCHANGED row /\ Rest

DropRow(r) ==
  LET n == act[r].n
  IN /\ act[r].at = "drop"
     /\ row' = [row EXCEPT ![n] = Nil]
     /\ Go(r, Idle)
     /\ Changes(r, n) /\ UNCHANGED budget /\ Rest

\* allocate_port: the lowest port that no other row has; none: the request fails.
FreePorts(n) == Ports \ {row[m].port : m \in {m \in Nodes \ {n} : row[m] # Nil}}

AllocatePort(r) ==
  LET n == act[r].n
  IN /\ act[r].at = "port"
     /\ IF FreePorts(n) = {}
          THEN Go(r, Idle) /\ failed' = failed \cup {n}
          ELSE /\ Go(r, [act[r] EXCEPT !.at = "take", !.port = Min(FreePorts(n))])
               /\ UNCHANGED failed
     /\ UNCHANGED <<row, file, box, lock, todo, events, stream, hist, budget, gaveUp, died, raced>>

\* The commit of the port and the refresh of the row; the row is gone: the request fails.
TakePort(r) ==
  LET n == act[r].n
      w == [row[n] EXCEPT !.port = act[r].port]
  IN /\ act[r].at = "take"
     /\ IF row[n] = Nil THEN Go(r, Idle) /\ UNCHANGED row
        ELSE /\ row' = [row EXCEPT ![n] = w]
             /\ Go(r, [act[r] EXCEPT !.at = act[r].then, !.conf = Copy(w), !.port = 0])
     /\ UNCHANGED <<file, box, lock, todo, events, stream, hist, budget, history>>

\* delete_subscription, refresh and import with replace delete rows and touch no sidecar.
DropRows(S) ==
  /\ S # {} /\ Consume("mishaps") /\ \A n \in S : row[n] # Nil
  /\ row' = [n \in Nodes |-> IF n \in S THEN Nil ELSE row[n]]
  /\ raced' = raced \cup S
  /\ UNCHANGED <<file, box, lock, act, todo, events, stream, hist, gaveUp, died, failed>>

-----------------------------------------------------------------------------
(* The supervisor: one event at a time. *)

\* _handle_event and _should_restart.
HandleEventMutant ==
  LET n == Head(events)
  IN /\ events # <<>> /\ act[Supervisor].at = "idle"
     /\ events' = Tail(events)
     /\ Go(Supervisor, [Idle EXCEPT !.at = "backoff", !.n = n])
     /\ UNCHANGED <<row, file, box, lock, todo, stream, hist, budget, history>>

HandleEvent ==
  LET n == Head(events)
  IN /\ events # <<>> /\ act[Supervisor].at = "idle"
     /\ events' = Tail(events)
     /\ IF hist[n] >= MaxRestarts
          THEN gaveUp' = gaveUp \cup {n} /\ UNCHANGED <<hist, act>>
          ELSE /\ hist' = [hist EXCEPT ![n] = @ + 1]
               /\ Go(Supervisor, [Idle EXCEPT !.at = "backoff", !.n = n])
               /\ UNCHANGED gaveUp
     /\ UNCHANGED <<row, file, box, lock, todo, stream, budget, died, raced, failed>>

\* _restart_node, after _backoff_delay: it reads the row and closes the session.
RestartNode ==
  LET n == act[Supervisor].n
  IN /\ act[Supervisor].at = "backoff"
     /\ IF row[n] # Nil /\ row[n].on /\ row[n].port # 0
          THEN /\ Go(Supervisor, [act[Supervisor] EXCEPT !.at = "start", !.conf = Copy(row[n])])
               /\ raced' = IF Deleting(n) THEN raced \cup {n} ELSE raced
          ELSE Go(Supervisor, Idle) /\ UNCHANGED raced
     /\ UNCHANGED <<row, file, box, lock, todo, events, stream, hist, budget, gaveUp, died, failed>>

\* An attempt leaves the window.  Five attempts and their delays, some 16 s, fit in its 60 s:
\* none leaves it while the node's restarts go on.
Forget(n) ==
  /\ hist[n] > 0 /\ ~Holds(Supervisor, n) /\ act[Supervisor].n # n
  /\ n \notin {events[i] : i \in DOMAIN events}
  /\ \A a \in Coroutines : ~WorksOn(a, n)
  /\ hist' = [hist EXCEPT ![n] = @ - 1]
  /\ UNCHANGED <<row, file, box, lock, act, todo, events, stream, budget, history>>

\* The stream breaks; the queue is drained before _run reconnects.
StreamBreaks ==
  /\ stream /\ Consume("mishaps") /\ stream' = FALSE
  /\ UNCHANGED <<row, file, box, lock, act, todo, events, hist, history>>

Reconnect ==
  /\ ~stream /\ events = <<>> /\ act[Supervisor].at = "idle" /\ stream' = TRUE
  /\ UNCHANGED <<row, file, box, lock, act, todo, events, hist, budget, history>>

-----------------------------------------------------------------------------
(* Docker: the process of a sidecar ends by itself, and is started again. *)

SidecarDies(n) ==
  /\ box[n] # Nil /\ box[n].up /\ Consume("mishaps")
  /\ box' = [box EXCEPT ![n].up = FALSE]
  /\ Report(n)
  /\ died' = died \cup {n}
  /\ UNCHANGED <<row, file, lock, act, todo, stream, hist, gaveUp, raced, failed>>

\* restart policy unless-stopped.
DockerRestarts(n) ==
  /\ box[n] # Nil /\ ~box[n].up
  /\ box' = [box EXCEPT ![n] = [conf |-> IF file[n] = Nil THEN @.conf ELSE file[n], up |-> TRUE]]
  /\ UNCHANGED <<row, file, lock, act, todo, events, stream, hist, budget, history>>

-----------------------------------------------------------------------------
(* The backend ends and comes back: its memory is lost, Docker and the rows are not.  The      *)
(* supervisor is started before sync_all, and requests are served after it.                    *)

Restart ==
  /\ Consume("mishaps")
  /\ act' = [a \in Coroutines |-> IF a = Boot THEN [Idle EXCEPT !.at = "list"] ELSE Idle]
  /\ lock' = [n \in Nodes |-> Nil]
  /\ events' = <<>> /\ stream' = TRUE /\ hist' = [n \in Nodes |-> 0]
  /\ todo' = [stop |-> {}, start |-> [n \in Nodes |->
                IF row[n] # Nil /\ row[n].on /\ row[n].port # 0 THEN Copy(row[n]) ELSE Nil]]
  /\ raced' = {} /\ failed' = {}
  /\ UNCHANGED <<row, file, box, gaveUp, died>>

\* sync_all lists the containers; without Docker it returns.
ListSidecarsMutant ==
  /\ act[Boot].at = "list"
  /\ todo' = [todo EXCEPT !.stop = {n \in Nodes : box[n] # Nil /\ row[n] = Nil}]
  /\ At(Boot, "next")
  /\ UNCHANGED <<row, file, box, lock, events, stream, hist, budget, history>>

ListSidecars ==
  /\ act[Boot].at = "list"
  /\ \/ /\ todo' = [todo EXCEPT !.stop = {n \in Nodes : box[n] # Nil /\ todo.start[n] = Nil}]
        /\ At(Boot, "next") /\ UNCHANGED <<budget, failed>>
     \/ /\ Consume("mishaps") /\ Go(Boot, Idle)
        /\ failed' = Nodes /\ UNCHANGED todo
  /\ UNCHANGED <<row, file, box, lock, events, stream, hist, gaveUp, died, raced>>

SyncNext ==
  /\ act[Boot].at = "next"
  /\ IF todo.stop # {}
       THEN \E n \in todo.stop :
              /\ Go(Boot, [Idle EXCEPT !.at = "stop", !.n = n])
              /\ todo' = [todo EXCEPT !.stop = @ \ {n}]
     ELSE IF \E n \in Nodes : todo.start[n] # Nil
       THEN \E n \in {n \in Nodes : todo.start[n] # Nil} :
              /\ Go(Boot, [Idle EXCEPT !.at = "start", !.n = n, !.conf = todo.start[n]])
              /\ todo' = [todo EXCEPT !.start[n] = Nil]
     ELSE Go(Boot, Idle) /\ UNCHANGED todo
  /\ UNCHANGED <<row, file, box, lock, events, stream, hist, budget, history>>

-----------------------------------------------------------------------------
Manager(a) == \/ WriteConfig(a) \/ RemoveForStart(a) \/ RunContainer(a)
              \/ RemoveForStop(a) \/ DeleteConfig(a)
Serve(r) == DropRow(r) \/ AllocatePort(r) \/ TakePort(r)
Supervise == HandleEvent \/ RestartNode \/ Reconnect
Sync == ListSidecars \/ SyncNext

NaiveNext ==
  \/ \E a \in Coroutines : Manager(a) \/ DockerFails(a)
  \/ \E r \in Requests : Serve(r) \/ \E n \in Nodes : \/ CreateNode(r, n) \/ UpdateNode(r, n)
                                                      \/ RestartSidecar(r, n) \/ DeleteNode(r, n)
  \/ \E S \in SUBSET Nodes : DropRows(S)
  \/ Supervise \/ StreamBreaks \/ Sync \/ Restart
  \/ \E n \in Nodes : Forget(n) \/ SidecarDies(n) \/ DockerRestarts(n)

NaiveSpec == NaiveInit /\ [][NaiveNext]_naiveVars

\* Coroutines run on, the supervisor takes the next event, Docker starts again what died.
NaiveFairness ==
  /\ \A a \in Coroutines : WF_naiveVars(Manager(a))
  /\ \A r \in Requests : WF_naiveVars(Serve(r))
  /\ WF_naiveVars(Supervise) /\ WF_naiveVars(Sync)
  /\ \A n \in Nodes : WF_naiveVars(DockerRestarts(n))

NaiveFairSpec == NaiveSpec /\ NaiveFairness
-----------------------------------------------------------------------------
(* Properties. *)

Settled == events = <<>> /\ \A a \in Coroutines : act[a].at = "idle"
WantsSidecar(n) == row[n] # Nil /\ row[n].on /\ row[n].port # 0

(* A node that was changed by one request at a time and for which Docker   *)
(* obeyed has, once nothing is under way, a sidecar if and only if it is   *)
(* enabled, and its process runs on the row as it is now: after any number *)
(* of changes, deaths, restarts by the supervisor, and after a boot has    *)
(* reconciled whatever was left behind.                                    *)
SidecarsFollowRows ==
  Settled => \A n \in Nodes \ (raced \cup failed) :
               IF WantsSidecar(n) THEN box[n] # Nil /\ box[n].conf = Copy(row[n]) ELSE box[n] = Nil

(* Whatever races, a sidecar nobody is working on runs on the file that    *)
(* stands behind it: two restarts never mix one's file with the other's    *)
(* container, and a backend that ended between the two is made good by the *)
(* boot.                                                                   *)
BoxRunsItsFile ==
  act[Boot].at = "idle" =>
    \A n \in Nodes \ failed : lock[n] = Nil /\ box[n] # Nil => box[n].conf = file[n]

(* The restarts the supervisor's own restarts cause come to an end.        *)
ComesToRest == []<>Settled

-----------------------------------------------------------------------------
(* Claims of the code. *)

(* naive_supervisor.py: sidecar.gave_up says that the node crashed too     *)
(* many times.                                                             *)
GivesUpOnCrashes == gaveUp \subseteq died

(* naive_supervisor.py: a disabled node stays down.                        *)
DisabledStaysDown ==
  Settled => \A n \in Nodes \ failed : row[n] # Nil /\ ~row[n].on => box[n] = Nil

(* delete_node: stopping the sidecar before the row is deleted leaves no   *)
(* container without a row.                                                *)
NoOrphans == Settled => \A n \in Nodes \ failed : row[n] = Nil => box[n] = Nil

(* allocate_port: the port is not claimed by another naive node.           *)
PortsDiffer ==
  \A m, n \in Nodes : m # n /\ row[m] # Nil /\ row[n] # Nil /\ row[m].port # 0
                        => row[m].port # row[n].port
=============================================================================
