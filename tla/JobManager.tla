----------------------------- MODULE JobManager -----------------------------
(***************************************************************************)
(* Server tasks (core/jobs.py, the streams of api/server_tasks.py): jobs   *)
(* that run over SSH, their rows in the database, the slot that keeps two  *)
(* of them off one server and protocol, and the log streams of viewers.    *)
(*                                                                         *)
(* Requests, job tasks, drain timers and streams are coroutines of one     *)
(* event loop; a step is the code between two awaits.  The lines of a job  *)
(* are numbered, their text is left out.                                   *)
(***************************************************************************)
EXTENDS Naturals, Sequences

CONSTANTS
  Jobs,      \* jobs requested, each at most once
  Streams,   \* viewers, each opens one stream
  Slots,     \* pairs of server and protocol
  SlotOf,    \* the slot of each job
  MaxLines,  \* bound on the lines a job prints
  Buffer,    \* _BUFFER_LINES
  Capacity,  \* maxsize of a stream's queue
  Overlap,   \* may a job be requested while another one's row is being written?
  CancelAt,  \* where a cancellation may reach a job
  Faults,    \* bound on saves of a result that fail
  Crashes    \* bound on restarts of the backend

ASSUME JobAssumption == SlotOf \in [Jobs -> Slots] /\ Overlap \in BOOLEAN
ASSUME BoundAssumption ==
  /\ MaxLines \in Nat /\ Buffer \in Nat \ {0} /\ Capacity \in Nat \ {0}
  /\ Faults \in Nat /\ Crashes \in Nat
ASSUME CancelAssumption == CancelAt \subseteq {"scheduled", "running", "saving", "saved"}

VARIABLES
  pc,         \* where each job's request, task or drain timer stands
  row,        \* Job.status in the database
  outcome,    \* how the runner ended
  busy,       \* _slot_busy
  ram,        \* jobs with a buffer and a list of subscribers
  finalized,  \* _finalized
  lines,      \* lines printed so far
  buf,        \* _buffers: the last lines of each job
  at,         \* where each stream stands
  of,         \* the job a stream follows
  backlog,    \* the part of a stream's snapshot still to be sent
  queue,      \* lines and sentinels put for a stream
  got,        \* history: the lines sent to the viewer
  lost,       \* history: streams whose full queue cost them a line
  shown,      \* the status reported by the last event of a stream
  left        \* what remains of the bounds

jobVars == <<pc, row, outcome, busy, ram, finalized, lines, buf>>
streamVars == <<at, of, backlog, queue, got, lost, shown>>
vars == <<jobVars, streamVars, left>>

End == 0        \* the sentinel; lines are numbered from 1
NoJob == "none"
ASSUME NoJobAssumption == NoJob \notin Jobs
Final == {"succeeded", "failed", "cancelled"}
Stages == {"new", "refused", "inserting", "inserted", "scheduled", "running", "saving",
           "saved", "draining", "done", "abandoned", "lost"}
Places == {"idle", "empty", "reading", "report", "closed", "left", "cut"}

\* Jobs whose slot must be taken: their task has been made and has not ended.
Live(j) == pc[j] \in {"scheduled", "running", "saving", "saved"}

Init ==
  /\ pc = [j \in Jobs |-> "new"] /\ row = [j \in Jobs |-> "absent"]
  /\ outcome = [j \in Jobs |-> "succeeded"]
  /\ busy = {} /\ ram = {} /\ finalized = {}
  /\ lines = [j \in Jobs |-> 0] /\ buf = [j \in Jobs |-> <<>>]
  /\ at = [s \in Streams |-> "idle"] /\ of = [s \in Streams |-> NoJob]
  /\ backlog = [s \in Streams |-> <<>>] /\ queue = [s \in Streams |-> <<>>]
  /\ got = [s \in Streams |-> <<>>] /\ lost = {}
  /\ shown = [s \in Streams |-> "nothing"]
  /\ left = [fault |-> Faults, crash |-> Crashes]

Goto(j, l) == pc' = [pc EXCEPT ![j] = l]
Spend(k) == left[k] > 0 /\ left' = [left EXCEPT ![k] = @ - 1]

-----------------------------------------------------------------------------
(* start_deploy(), in three steps.                                         *)

\* The slot is looked at first; SlotBusy is answered with 409.
Request(j) ==
  /\ pc[j] = "new"
  /\ Overlap \/ \A k \in Jobs : pc[k] \notin {"inserting", "inserted"}
  /\ Goto(j, IF SlotOf[j] \in busy THEN "refused" ELSE "inserting")
  /\ UNCHANGED <<row, outcome, busy, ram, finalized, lines, buf, streamVars, left>>

Insert(j) ==
  /\ pc[j] = "inserting" /\ Goto(j, "inserted") /\ row' = [row EXCEPT ![j] = "running"]
  /\ UNCHANGED <<outcome, busy, ram, finalized, lines, buf, streamVars, left>>

\* The slot is taken only when the row has been written.
Register(j) ==
  /\ pc[j] = "inserted" /\ Goto(j, "scheduled")
  /\ busy' = busy \cup {SlotOf[j]} /\ ram' = ram \cup {j}
  /\ UNCHANGED <<row, outcome, finalized, lines, buf, streamVars, left>>

-----------------------------------------------------------------------------
(* The task: _run(), _append_line(), _finalize() and its drain timer.      *)

\* A stream is in the job's subscriber list from subscribe() until it ends.
Attached(j) == {s \in Streams : at[s] = "reading" /\ of[s] = j /\ j \in ram}

\* Mutant: the sentinel is given up when the queue is full.
PutEndLossy(q) == IF Len(q) < Capacity THEN Append(q, End) ELSE q

\* _put_sentinel: a full queue loses its oldest line, never the sentinel.
PutEnd(q) == Append(IF Len(q) < Capacity THEN q ELSE Tail(q), End)

Overflowing(j) == {s \in Attached(j) : Len(queue[s]) >= Capacity}

Signal(j) ==
  /\ queue' = [s \in Streams |-> IF s \in Attached(j) THEN PutEnd(queue[s]) ELSE queue[s]]
  /\ lost' = lost \cup Overflowing(j)

Run(j) ==
  /\ pc[j] = "scheduled" /\ Goto(j, "running")
  /\ UNCHANGED <<row, outcome, busy, ram, finalized, lines, buf, streamVars, left>>

\* A line goes to the ring buffer and to every stream that has room for it.
Line(j) ==
  /\ pc[j] = "running" /\ lines[j] < MaxLines
  /\ lines' = [lines EXCEPT ![j] = @ + 1]
  /\ buf' = [buf EXCEPT ![j] = Append(IF Len(@) < Buffer THEN @ ELSE Tail(@), lines'[j])]
  /\ queue' = [s \in Streams |-> IF s \in Attached(j) \ Overflowing(j)
                                 THEN Append(queue[s], lines'[j]) ELSE queue[s]]
  /\ lost' = lost \cup Overflowing(j)
  /\ UNCHANGED <<pc, row, outcome, busy, ram, finalized, at, of, backlog, got, shown, left>>

\* Mutant: the slot is freed as soon as the runner has ended.
FinishFreeing(j) ==
  /\ pc[j] = "running" /\ Goto(j, "saving") /\ busy' = busy \ {SlotOf[j]}
  /\ \E o \in {"succeeded", "failed"} : outcome' = [outcome EXCEPT ![j] = o]
  /\ UNCHANGED <<row, ram, finalized, lines, buf, streamVars, left>>

\* The runner returns or raises.
Finish(j) ==
  /\ pc[j] = "running" /\ Goto(j, "saving")
  /\ \E o \in {"succeeded", "failed"} : outcome' = [outcome EXCEPT ![j] = o]
  /\ UNCHANGED <<row, busy, ram, finalized, lines, buf, streamVars, left>>

\* cancel(): the task ends at its next step.  Only the runner's CancelledError leads
\* to _finalize(): a task that has not begun, or that is in _finalize(), just ends.
Cancel(j) ==
  /\ Live(j) /\ pc[j] \in CancelAt
  /\ IF pc[j] = "running"
       THEN Goto(j, "saving") /\ outcome' = [outcome EXCEPT ![j] = "cancelled"]
       ELSE Goto(j, "abandoned") /\ UNCHANGED outcome
  /\ UNCHANGED <<row, busy, ram, finalized, lines, buf, streamVars, left>>

\* The terminal status is written, if the row is still there.
Save(j) ==
  /\ pc[j] = "saving" /\ Goto(j, "saved")
  /\ row' = [row EXCEPT ![j] = IF @ = "absent" THEN @ ELSE outcome[j]]
  /\ UNCHANGED <<outcome, busy, ram, finalized, lines, buf, streamVars, left>>

SaveFails(j) ==
  /\ pc[j] = "saving" /\ Spend("fault") /\ Goto(j, "abandoned")
  /\ UNCHANGED <<row, outcome, busy, ram, finalized, lines, buf, streamVars>>

\* Mutant: the slot is kept.
FinalizeKeeping(j) ==
  /\ pc[j] = "saved" /\ Goto(j, "draining")
  /\ finalized' = finalized \cup {j} /\ Signal(j)
  /\ UNCHANGED <<row, outcome, busy, ram, lines, buf, at, of, backlog, got, shown, left>>

\* The rest of _finalize(): streams are told, the slot is freed, the drain timer set.
Finalize(j) ==
  /\ pc[j] = "saved" /\ Goto(j, "draining")
  /\ finalized' = finalized \cup {j} /\ Signal(j) /\ busy' = busy \ {SlotOf[j]}
  /\ UNCHANGED <<row, outcome, ram, lines, buf, at, of, backlog, got, shown, left>>

\* 30 s later: a last sentinel, then the buffer and the subscriber list go.
Drain(j) ==
  /\ pc[j] = "draining" /\ Goto(j, "done") /\ Signal(j)
  /\ ram' = ram \ {j} /\ finalized' = finalized \ {j} /\ buf' = [buf EXCEPT ![j] = <<>>]
  /\ UNCHANGED <<row, outcome, busy, lines, at, of, backlog, got, shown, left>>

Task(j) == Insert(j) \/ Register(j) \/ Run(j) \/ Finish(j) \/ Save(j) \/ Finalize(j) \/ Drain(j)

-----------------------------------------------------------------------------
(* subscribe() and the WebSocket that drives it.                           *)

\* A viewer may follow any job whose row is visible.  Without a buffer there is
\* nothing to send; otherwise the snapshot is taken and the queue enlisted at once,
\* with a sentinel of its own when the producer is gone already.
Subscribe(s, j) ==
  /\ at[s] = "idle" /\ row[j] # "absent"
  /\ at' = [at EXCEPT ![s] = IF j \in ram THEN "reading" ELSE "empty"]
  /\ of' = [of EXCEPT ![s] = j]
  /\ backlog' = [backlog EXCEPT ![s] = buf[j]]
  /\ queue' = [queue EXCEPT ![s] = IF j \in finalized THEN PutEnd(<<>>) ELSE <<>>]
  /\ UNCHANGED <<jobVars, got, lost, shown, left>>

\* Mutant: what is in the queue goes first.
SendUnordered(s) ==
  /\ at[s] = "reading"
  /\ IF queue[s] = <<>> \/ (Head(queue[s]) = End /\ backlog[s] # <<>>)
       THEN /\ backlog[s] # <<>> /\ got' = [got EXCEPT ![s] = Append(@, Head(backlog[s]))]
            /\ backlog' = [backlog EXCEPT ![s] = Tail(@)] /\ UNCHANGED <<at, queue>>
       ELSE /\ queue' = [queue EXCEPT ![s] = Tail(@)]
            /\ IF Head(queue[s]) = End
                 THEN at' = [at EXCEPT ![s] = "report"] /\ UNCHANGED got
                 ELSE got' = [got EXCEPT ![s] = Append(@, Head(queue[s]))] /\ UNCHANGED at
            /\ UNCHANGED backlog
  /\ UNCHANGED <<jobVars, of, lost, shown, left>>

\* A line is sent, from the snapshot first; the sentinel ends the stream.
Send(s) ==
  /\ at[s] = "reading"
  /\ IF backlog[s] # <<>>
       THEN /\ got' = [got EXCEPT ![s] = Append(@, Head(backlog[s]))]
            /\ backlog' = [backlog EXCEPT ![s] = Tail(@)] /\ UNCHANGED <<at, queue>>
       ELSE /\ queue[s] # <<>> /\ queue' = [queue EXCEPT ![s] = Tail(@)]
            /\ IF Head(queue[s]) = End
                 THEN at' = [at EXCEPT ![s] = "report"] /\ UNCHANGED got
                 ELSE got' = [got EXCEPT ![s] = Append(@, Head(queue[s]))] /\ UNCHANGED at
            /\ UNCHANGED backlog
  /\ UNCHANGED <<jobVars, of, lost, shown, left>>

\* A viewer that went away is noticed when a line is sent to it.
Disconnect(s) ==
  /\ at[s] = "reading"
  /\ \/ backlog[s] # <<>>
     \/ queue[s] # <<>> /\ Head(queue[s]) # End
  /\ at' = [at EXCEPT ![s] = "left"]
  /\ UNCHANGED <<jobVars, of, backlog, queue, got, lost, shown, left>>

\* The last event carries the status found in the row.
Report(s) ==
  /\ at[s] \in {"report", "empty"} /\ at' = [at EXCEPT ![s] = "closed"]
  /\ shown' = [shown EXCEPT ![s] = IF row[of[s]] = "absent" THEN "unknown" ELSE row[of[s]]]
  /\ UNCHANGED <<jobVars, of, backlog, queue, got, lost, left>>

-----------------------------------------------------------------------------
(* Retention and restart.                                                  *)

\* _trim_once: finished rows go, by age or by number; running ones stay.
Trim(j) ==
  /\ row[j] \in Final /\ row' = [row EXCEPT ![j] = "absent"]
  /\ UNCHANGED <<pc, outcome, busy, ram, finalized, lines, buf, streamVars, left>>

\* Mutant: only the rows of jobs that had begun are healed.
HealBegun(r) == [j \in Jobs |-> IF r[j] = "running" /\ j \in ram THEN "failed" ELSE r[j]]

\* _heal_stale_jobs, run before the first request is served.
Heal(r) == [j \in Jobs |-> IF r[j] = "running" THEN "failed" ELSE r[j]]

Restart ==
  /\ Spend("crash")
  /\ pc' = [j \in Jobs |-> IF pc[j] \in {"new", "refused", "done"} THEN pc[j] ELSE "lost"]
  /\ row' = Heal(row)
  /\ busy' = {} /\ ram' = {} /\ finalized' = {} /\ buf' = [j \in Jobs |-> <<>>]
  /\ at' = [s \in Streams |-> IF at[s] \in {"reading", "report", "empty"} THEN "cut" ELSE at[s]]
  /\ UNCHANGED <<outcome, lines, of, backlog, queue, got, lost, shown>>

Next ==
  \/ \E j \in Jobs : Request(j) \/ Task(j) \/ Line(j) \/ Cancel(j) \/ SaveFails(j) \/ Trim(j)
  \/ \E s \in Streams : Send(s) \/ Disconnect(s) \/ Report(s) \/ \E j \in Jobs : Subscribe(s, j)
  \/ Restart

Spec == Init /\ [][Next]_vars

\* Coroutines that were started go on, a runner ends (SSH has timeouts), the drain
\* timer fires.  Nobody has to request, cancel or watch anything.
Fairness ==
  /\ \A j \in Jobs : WF_vars(Task(j))
  /\ \A s \in Streams : WF_vars(Send(s) \/ Report(s))

FairSpec == Spec /\ Fairness

-----------------------------------------------------------------------------
(* Properties.                                                             *)

TypeOK ==
  /\ pc \in [Jobs -> Stages] /\ row \in [Jobs -> {"absent", "running"} \cup Final]
  /\ outcome \in [Jobs -> Final]
  /\ busy \subseteq Slots /\ ram \subseteq Jobs /\ finalized \subseteq ram
  /\ lines \in [Jobs -> 0 .. MaxLines]
  /\ buf \in [Jobs -> Seq(1 .. MaxLines)] /\ \A j \in Jobs : Len(buf[j]) <= Buffer
  /\ at \in [Streams -> Places] /\ of \in [Streams -> Jobs \cup {NoJob}]
  /\ backlog \in [Streams -> Seq(1 .. MaxLines)] /\ \A s \in Streams : Len(backlog[s]) <= Buffer
  /\ queue \in [Streams -> Seq(0 .. MaxLines)] /\ \A s \in Streams : Len(queue[s]) <= Capacity
  /\ got \in [Streams -> Seq(1 .. MaxLines)]
  /\ lost \subseteq Streams
  /\ shown \in [Streams -> {"nothing", "unknown", "running"} \cup Final]
  /\ left \in [{"fault", "crash"} -> Nat]

\* start_deploy "raises SlotBusy if (server_id, protocol) already has a running job":
\* two jobs never work on one server and protocol, and a slot that is free has no job
\* whose result is still to be written.
SlotExclusive ==
  \A j, k \in Jobs : Live(j) => /\ SlotOf[j] \in busy
                                /\ Live(k) /\ SlotOf[j] = SlotOf[k] => j = k

\* A viewer whose queue never ran full has seen every line from the oldest one in his
\* snapshot to the job's last, once and in order.
NoLineLost ==
  \A s \in Streams : at[s] = "report" /\ s \notin lost =>
    \E first \in 1 .. lines[of[s]] + 1 :
      got[s] = [i \in 1 .. lines[of[s]] + 1 - first |-> first + i - 1]
      /\ (first > 1 => lines[of[s]] > Buffer)

\* A row says running only while its job is under way or was abandoned in this very
\* process: no restart leaves one behind.
RowOwned ==
  \A j \in Jobs : row[j] = "running" => Live(j) \/ pc[j] \in {"inserted", "abandoned"}

\* A stream that followed a job to its end reports how the job ended.
DoneIsFinal ==
  \A s \in Streams : at[s] = "report" => row[of[s]] # "running"

\* Every stream is brought to an end, however slow its viewer reads, unless the runner of
\* its job is cut off before its first step, while it saves, or by a save that fails.
StreamsEnd ==
  \A s \in Streams :
    at[s] = "reading" ~> at[s] # "reading" \/ pc[of[s]] = "abandoned"

\* A job that starts gives its slot back, with the same exception: the slot of a job cut
\* off like that waits for a restart.
SlotsComeBack ==
  \A j \in Jobs : pc[j] = "scheduled" ~> SlotOf[j] \notin busy \/ pc[j] = "abandoned"

\* DELETE of a running task frees its server for the next one: every job ends by giving
\* its slot back.
SlotsFreed == \A j \in Jobs : pc[j] = "scheduled" ~> SlotOf[j] \notin busy
=============================================================================
