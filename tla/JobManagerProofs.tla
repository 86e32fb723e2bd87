-------------------------- MODULE JobManagerProofs --------------------------
(***************************************************************************)
(* Proofs about JobManager and JobStreams: a row says running only while   *)
(* its job is under way or was abandoned, a slot has one job at a time     *)
(* when requests do not overlap, and every viewer gets what LogStream      *)
(* promises: his lines, each once and in order, and then the end.          *)
(***************************************************************************)
EXTENDS JobStreams, TLAPS

\* What the proofs need of TypeOK.
Shape ==
  /\ pc \in [Jobs -> Stages]
  /\ row \in [Jobs -> {"absent", "running"} \cup Final]
  /\ outcome \in [Jobs -> Final]

\* A job whose result is saved has no running row: the step that ends the job, after
\* the one that saves, would otherwise leave the row behind.
Saved == \A j \in Jobs : pc[j] = "saved" => row[j] # "running"

RowInv == Shape /\ RowOwned /\ Saved

Starting(j) == pc[j] \in {"inserting", "inserted"}

\* A request whose row is being written found the slot free and is alone, so the slot
\* is still free when it takes it.
SlotInv ==
  /\ pc \in [Jobs -> Stages]
  /\ SlotExclusive
  /\ \A j \in Jobs : Starting(j) => SlotOf[j] \notin busy
  /\ \A j, k \in Jobs : Starting(j) /\ Starting(k) => j = k

-----------------------------------------------------------------------------

LEMMA RowInit == ASSUME Init PROVE RowInv
  BY DEF Init, RowInv, Shape, RowOwned, Saved, Stages, Final, Live

LEMMA RowStep == ASSUME RowInv, [Next]_vars PROVE RowInv'
<1> USE DEF RowInv, Shape, RowOwned, Saved, Stages, Final, Live, Goto
<1>1. CASE UNCHANGED vars
  BY <1>1 DEF vars, jobVars
<1>2. ASSUME NEW j \in Jobs, Request(j) PROVE RowInv'
  BY <1>2 DEF Request
<1>3. ASSUME NEW j \in Jobs, Insert(j) PROVE RowInv'
  BY <1>3 DEF Insert
<1>4. ASSUME NEW j \in Jobs, Register(j) PROVE RowInv'
  BY <1>4 DEF Register
<1>5. ASSUME NEW j \in Jobs, Run(j) PROVE RowInv'
  BY <1>5 DEF Run
<1>6. ASSUME NEW j \in Jobs, Finish(j) PROVE RowInv'
  BY <1>6 DEF Finish
<1>7. ASSUME NEW j \in Jobs, Save(j) PROVE RowInv'
  BY <1>7 DEF Save
<1>8. ASSUME NEW j \in Jobs, Finalize(j) PROVE RowInv'
  BY <1>8 DEF Finalize
<1>9. ASSUME NEW j \in Jobs, Drain(j) PROVE RowInv'
  BY <1>9 DEF Drain
<1>10. ASSUME NEW j \in Jobs, Line(j) PROVE RowInv'
  BY <1>10 DEF Line
<1>11. ASSUME NEW j \in Jobs, Cancel(j) PROVE RowInv'
  BY <1>11 DEF Cancel
<1>12. ASSUME NEW j \in Jobs, SaveFails(j) PROVE RowInv'
  BY <1>12 DEF SaveFails
<1>13. ASSUME NEW j \in Jobs, Trim(j) PROVE RowInv'
  BY <1>13 DEF Trim
<1>14. ASSUME NEW s \in Streams, Send(s) \/ Disconnect(s) \/ Report(s) PROVE RowInv'
  BY <1>14 DEF Send, Disconnect, Report, jobVars
<1>15. ASSUME NEW s \in Streams, NEW j \in Jobs, Subscribe(s, j) PROVE RowInv'
  BY <1>15 DEF Subscribe, jobVars
<1>16. CASE Restart
  BY <1>16 DEF Restart, Heal
<1> QED
  BY <1>1, <1>2, <1>3, <1>4, <1>5, <1>6, <1>7, <1>8, <1>9, <1>10, <1>11, <1>12, <1>13,
     <1>14, <1>15, <1>16 DEF Next, Task

\* No restart, cancellation or failed save leaves a row running that nobody will
\* change, but the rows of jobs abandoned since the last restart.
THEOREM RowsOwned == Spec => []RowOwned
<1>1. Init => RowInv
  BY RowInit
<1>2. RowInv /\ [Next]_vars => RowInv'
  BY RowStep
<1>3. RowInv => RowOwned
  BY DEF RowInv
<1> QED
  BY <1>1, <1>2, <1>3, PTL DEF Spec

-----------------------------------------------------------------------------

LEMMA SlotInit == ASSUME Init PROVE SlotInv
  BY DEF Init, SlotInv, SlotExclusive, Starting, Stages, Live

LEMMA SlotStep == ASSUME ~Overlap, SlotInv, [Next]_vars PROVE SlotInv'
<1> USE JobAssumption DEF SlotInv, SlotExclusive, Starting, Stages, Live, Goto
<1>1. CASE UNCHANGED vars
  BY <1>1 DEF vars, jobVars
<1>2. ASSUME NEW j \in Jobs, Request(j) PROVE SlotInv'
  BY <1>2 DEF Request
<1>3. ASSUME NEW j \in Jobs, Insert(j) PROVE SlotInv'
  BY <1>3 DEF Insert
<1>4. ASSUME NEW j \in Jobs, Register(j) PROVE SlotInv'
  BY <1>4 DEF Register
<1>5. ASSUME NEW j \in Jobs, Run(j) PROVE SlotInv'
  BY <1>5 DEF Run
<1>6. ASSUME NEW j \in Jobs, Finish(j) PROVE SlotInv'
  BY <1>6 DEF Finish
<1>7. ASSUME NEW j \in Jobs, Save(j) PROVE SlotInv'
  BY <1>7 DEF Save
<1>8. ASSUME NEW j \in Jobs, Finalize(j) PROVE SlotInv'
  BY <1>8 DEF Finalize
<1>9. ASSUME NEW j \in Jobs, Drain(j) PROVE SlotInv'
  BY <1>9 DEF Drain
<1>10. ASSUME NEW j \in Jobs, Line(j) \/ Trim(j) PROVE SlotInv'
  BY <1>10 DEF Line, Trim
<1>11. ASSUME NEW j \in Jobs, Cancel(j) PROVE SlotInv'
  BY <1>11 DEF Cancel
<1>12. ASSUME NEW j \in Jobs, SaveFails(j) PROVE SlotInv'
  BY <1>12 DEF SaveFails
<1>13. ASSUME NEW s \in Streams, Send(s) \/ Disconnect(s) \/ Report(s) PROVE SlotInv'
  BY <1>13 DEF Send, Disconnect, Report, jobVars
<1>14. ASSUME NEW s \in Streams, NEW j \in Jobs, Subscribe(s, j) PROVE SlotInv'
  BY <1>14 DEF Subscribe, jobVars
<1>15. CASE Restart
  BY <1>15 DEF Restart
<1> QED
  BY <1>1, <1>2, <1>3, <1>4, <1>5, <1>6, <1>7, <1>8, <1>9, <1>10, <1>11, <1>12, <1>13,
     <1>14, <1>15 DEF Next, Task

\* When requests do not overlap, two jobs never work on one server and protocol, and
\* the slot of a job is taken until its result has been written: whatever is
\* cancelled, fails to be saved or is cut by a restart.
THEOREM SlotsExclusive == ASSUME ~Overlap PROVE Spec => []SlotExclusive
<1>1. Init => SlotInv
  BY SlotInit
<1>2. SlotInv /\ [Next]_vars => SlotInv'
  BY SlotStep
<1>3. SlotInv => SlotExclusive
  BY DEF SlotInv
<1> QED
  BY <1>1, <1>2, <1>3, PTL DEF Spec
-----------------------------------------------------------------------------
(* The queue of a stream: lines in order, then sentinels.                  *)

\* The first k elements of q are lines in order, none before line d and none after line n.
Rising(d, q, n, k) ==
  /\ \A i \in 1 .. k : q[i] \in d + i - 1 .. n
  /\ \A h, i \in 1 .. k : h <= i => q[h] + i <= q[i] + h

\* A queue q of k lines in order, then sentinels.
Queued(d, q, n, k) ==
  /\ k \in 0 .. Len(q)
  /\ Rising(d, q, n, k)
  /\ \A i \in k + 1 .. Len(q) : q[i] = End

LEMMA RisingCopy ==
  ASSUME NEW d, NEW q, NEW r, NEW n, NEW k, Rising(d, q, n, k), \A i \in 1 .. k : r[i] = q[i]
  PROVE  Rising(d, r, n, k)
  BY DEF Rising

LEMMA RisingMiss ==
  ASSUME NEW d \in Nat \ {0}, NEW q, NEW n \in Nat, NEW k \in Nat, Rising(d, q, n, k)
  PROVE  Rising(d, q, n + 1, k)
  BY DEF Rising

LEMMA RisingMore ==
  ASSUME NEW d \in Nat \ {0}, NEW q, NEW r, NEW n \in Nat, NEW k \in Nat, Rising(d, q, n, k),
         d <= n + 1, \A i \in 1 .. k : r[i] = q[i], r[k + 1] = n + 1
  PROVE  Rising(d, r, n + 1, k + 1)
<1>1. \A i \in 1 .. k : r[i] \in d + i - 1 .. n /\ r[i] \in Nat
  BY DEF Rising
<1>2. \A h, i \in 1 .. k : h <= i => r[h] + i <= r[i] + h
  BY DEF Rising
<1>0. d + k <= n + 1
  <2>1. k # 0 => k \in 1 .. k
    OBVIOUS
  <2>2. k # 0 => r[k] \in d + k - 1 .. n
    BY <1>1, <2>1
  <2> QED
    BY <2>2
<1>3. \A i \in 1 .. k + 1 : r[i] \in d + i - 1 .. n + 1
  BY <1>0, <1>1
<1>4. ASSUME NEW h \in 1 .. k PROVE r[h] + k <= n + h
  <2>1. k \in 1 .. k /\ h <= k
    OBVIOUS
  <2>2. r[h] + k <= r[k] + h /\ r[k] <= n /\ r[h] \in Nat /\ r[k] \in Nat
    BY <1>1, <1>2, <2>1
  <2> QED
    BY <2>2
<1>5. ASSUME NEW h \in 1 .. k + 1, NEW i \in 1 .. k + 1, h <= i PROVE r[h] + i <= r[i] + h
  <2>1. CASE i \in 1 .. k
    BY <1>2, <1>5, <2>1
  <2>2. CASE i = k + 1 /\ h \in 1 .. k
    BY <1>1, <1>4, <2>2
  <2>3. CASE i = k + 1 /\ h = k + 1
    BY <2>3
  <2> QED
    BY <1>5, <2>1, <2>2, <2>3
<1> QED
  BY <1>3, <1>5 DEF Rising

LEMMA RisingTail ==
  ASSUME NEW d \in Nat \ {0}, NEW q, NEW r, NEW n \in Nat, NEW k \in Nat \ {0},
         Rising(d, q, n, k), \A i \in 1 .. k - 1 : r[i] = q[i + 1]
  PROVE  /\ q[1] \in d .. n
         /\ d + k = n + 1 => q[1] = d
         /\ Rising(q[1] + 1, r, n, k - 1)
<1>1. 1 \in 1 .. k /\ k \in 1 .. k
  OBVIOUS
<1>2. q[1] \in d .. n /\ q[1] + k <= q[k] + 1 /\ q[k] <= n /\ q[k] \in Nat
  BY <1>1 DEF Rising
<1>3. \A i \in 1 .. k - 1 : /\ i \in Nat /\ i + 1 \in 1 .. k /\ r[i] = q[i + 1]
  OBVIOUS
<1>4. \A i \in 1 .. k - 1 : q[i + 1] <= n /\ q[i + 1] \in Nat
  BY <1>3 DEF Rising
<1>5. ASSUME NEW i \in 1 .. k - 1 PROVE r[i] \in (q[1] + 1) + i - 1 .. n
  <2>1. q[1] + (i + 1) <= q[i + 1] + 1
    BY <1>1, <1>3 DEF Rising
  <2> QED
    BY <2>1, <1>2, <1>3, <1>4
<1>6. ASSUME NEW h \in 1 .. k - 1, NEW i \in 1 .. k - 1, h <= i PROVE r[h] + i <= r[i] + h
  <2>1. q[h + 1] + (i + 1) <= q[i + 1] + (h + 1)
    BY <1>3, <1>6 DEF Rising
  <2> QED
    BY <1>3, <1>4, <2>1
<1>7. d + k = n + 1 => q[1] = d
  BY <1>2
<1> QED
  BY <1>2, <1>5, <1>6, <1>7 DEF Rising

LEMMA RisingLater ==
  ASSUME NEW d \in Nat \ {0}, NEW e \in Nat \ {0}, NEW q, NEW n \in Nat, NEW k \in Nat,
         Rising(e, q, n, k), d <= e
  PROVE  Rising(d, q, n, k)
  BY DEF Rising

-----------------------------------------------------------------------------

LEMMA QueuedLine ==
  ASSUME NEW d \in Nat \ {0}, NEW q \in Seq(Nat), NEW n \in Nat, d <= n + 1,
         Queued(d, q, n, Len(q))
  PROVE  Queued(d, Append(q, n + 1), n + 1, Len(q) + 1)
<1> DEFINE r == Append(q, n + 1)
<1>1. /\ r \in Seq(Nat) /\ Len(r) = Len(q) + 1 /\ Len(q) \in Nat
      /\ \A i \in 1 .. Len(q) : r[i] = q[i]
      /\ r[Len(q) + 1] = n + 1
  OBVIOUS
<1> HIDE DEF r
<1>2. Rising(d, r, n + 1, Len(q) + 1)
  BY <1>1, RisingMore DEF Queued
<1>3. Len(q) + 1 \in 0 .. Len(r) /\ \A i \in Len(q) + 1 + 1 .. Len(r) : r[i] = End
  BY <1>1
<1>4. Queued(d, r, n + 1, Len(q) + 1)
  BY <1>2, <1>3 DEF Queued
<1> QED
  BY <1>4 DEF r

LEMMA QueuedMiss ==
  ASSUME NEW d \in Nat \ {0}, NEW q \in Seq(Nat), NEW n \in Nat, NEW k \in Nat,
         Queued(d, q, n, k)
  PROVE  Queued(d, q, n + 1, k)
  BY RisingMiss DEF Queued

LEMMA QueuedEnd ==
  ASSUME NEW d \in Nat \ {0}, NEW q \in Seq(Nat), NEW n \in Nat, NEW k \in Nat,
         Len(q) <= Capacity, Queued(d, q, n, k)
  PROVE  /\ PutEnd(q) \in Seq(Nat) /\ Len(PutEnd(q)) \in 1 .. Capacity
         /\ PutEnd(q)[Len(PutEnd(q))] = End
         /\ Len(q) < Capacity => Queued(d, PutEnd(q), n, k)
         /\ \E m \in Nat : Queued(d, PutEnd(q), n, m)
<1>1. Len(q) \in Nat /\ k <= Len(q) /\ Capacity \in Nat \ {0} /\ End \in Nat
  BY BoundAssumption DEF Queued, End
<1>2. Rising(d, q, n, k) /\ \A i \in k + 1 .. Len(q) : q[i] = End
  BY DEF Queued
<1> DEFINE r == PutEnd(q)
<1>3. CASE Len(q) < Capacity
  <2>1. /\ r \in Seq(Nat) /\ Len(r) = Len(q) + 1
        /\ \A i \in 1 .. Len(q) : r[i] = q[i]
        /\ r[Len(q) + 1] = End
    BY <1>1, <1>3 DEF PutEnd
  <2> HIDE DEF r
  <2>2. Rising(d, r, n, k)
    <3>1. \A i \in 1 .. k : r[i] = q[i]
      BY <1>1, <2>1
    <3> QED
      BY <3>1, <1>2, RisingCopy
  <2>3. ASSUME NEW i \in k + 1 .. Len(r) PROVE r[i] = End
    <3>1. i = Len(q) + 1 \/ (i \in k + 1 .. Len(q) /\ i \in 1 .. Len(q))
      BY <1>1, <2>1
    <3> QED
      BY <3>1, <1>2, <2>1
  <2>4. k \in 0 .. Len(r)
    BY <1>1, <2>1
  <2>5. Queued(d, r, n, k)
    BY <2>2, <2>3, <2>4 DEF Queued
  <2>6. Len(r) \in 1 .. Capacity
    BY <1>1, <1>3, <2>1
  <2> QED
    BY <2>1, <2>5, <2>6 DEF r
<1>4. CASE Len(q) = Capacity
  <2>1. q # <<>>
    BY <1>1, <1>4
  <2>2. /\ r \in Seq(Nat) /\ Len(r) = Len(q)
        /\ \A i \in 1 .. Len(q) - 1 : r[i] = q[i + 1]
        /\ r[Len(q)] = End
    BY <1>1, <1>4, <2>1 DEF PutEnd
  <2> HIDE DEF r
  <2>3. ASSUME NEW i \in 1 .. Len(r), k <= i PROVE r[i] = End
    <3>1. i = Len(q) \/ (i + 1 \in k + 1 .. Len(q) /\ i \in 1 .. Len(q) - 1)
      BY <1>1, <2>2, <2>3
    <3> QED
      BY <3>1, <1>2, <2>2
  <2>4. ASSUME k = 0 PROVE \E m \in Nat : Queued(d, r, n, m)
    <3>1. Rising(d, r, n, 0)
      BY DEF Rising
    <3>2. 0 \in 0 .. Len(r) /\ \A i \in 0 + 1 .. Len(r) : i \in 1 .. Len(r) /\ k <= i
      BY <1>1, <2>2, <2>4
    <3>3. Queued(d, r, n, 0)
      BY <3>1, <3>2, <2>3 DEF Queued
    <3> QED
      BY <3>3
  <2>5. ASSUME k # 0 PROVE \E m \in Nat : Queued(d, r, n, m)
    <3>1. \A i \in 1 .. k - 1 : r[i] = q[i + 1]
      BY <1>1, <2>2, <2>5
    <3>2. q[1] \in d .. n /\ Rising(q[1] + 1, r, n, k - 1)
      BY <3>1, <1>2, <2>5, RisingTail
    <3>3. Rising(d, r, n, k - 1)
      BY <3>2, <2>5, RisingLater
    <3>4. /\ k - 1 \in 0 .. Len(r) /\ k - 1 \in Nat
          /\ \A i \in (k - 1) + 1 .. Len(r) : i \in 1 .. Len(r) /\ k <= i
      BY <1>1, <2>2, <2>5
    <3>5. Queued(d, r, n, k - 1)
      BY <3>3, <3>4, <2>3 DEF Queued
    <3> QED
      BY <3>4, <3>5
  <2>6. Len(r) \in 1 .. Capacity /\ ~(Len(q) < Capacity)
    BY <1>1, <1>4, <2>2
  <2> QED
    BY <2>2, <2>4, <2>5, <2>6 DEF r
<1> QED
  BY <1>1, <1>3, <1>4

LEMMA QueuedSend ==
  ASSUME NEW d \in Nat \ {0}, NEW q \in Seq(Nat), NEW n \in Nat, NEW k \in Nat,
         Queued(d, q, n, k), q # <<>>, Head(q) # End
  PROVE  /\ k # 0 /\ Head(q) \in d .. n
         /\ d + k = n + 1 => Head(q) = d
         /\ Queued(Head(q) + 1, Tail(q), n, k - 1)
<1>1. Len(q) \in Nat \ {0} /\ Head(q) = q[1] /\ k <= Len(q)
  BY DEF Queued
<1>2. k # 0
  BY <1>1 DEF Queued
<1> DEFINE r == Tail(q)
<1>3. r \in Seq(Nat) /\ Len(r) = Len(q) - 1 /\ \A i \in 1 .. Len(q) - 1 : r[i] = q[i + 1]
  BY <1>1
<1> HIDE DEF r
<1>4. /\ q[1] \in d .. n
      /\ d + k = n + 1 => q[1] = d
      /\ Rising(q[1] + 1, r, n, k - 1)
  <2>1. Rising(d, q, n, k) /\ \A i \in 1 .. k - 1 : r[i] = q[i + 1]
    BY <1>1, <1>2, <1>3 DEF Queued
  <2> QED
    BY <2>1, <1>2, RisingTail
<1>5. ASSUME NEW i \in (k - 1) + 1 .. Len(r) PROVE r[i] = End
  <2>1. i + 1 \in k + 1 .. Len(q) /\ i \in 1 .. Len(q) - 1
    BY <1>1, <1>2, <1>3
  <2> QED
    BY <2>1, <1>3 DEF Queued
<1>6. k - 1 \in 0 .. Len(r)
  BY <1>1, <1>2, <1>3
<1>7. Queued(q[1] + 1, r, n, k - 1)
  BY <1>4, <1>5, <1>6 DEF Queued
<1> QED
  BY <1>1, <1>2, <1>4, <1>7 DEF r

LEMMA QueuedLast ==
  ASSUME NEW d \in Nat \ {0}, NEW q \in Seq(Nat), NEW n \in Nat, NEW k \in Nat,
         Queued(d, q, n, k), q # <<>>, Head(q) = End
  PROVE  k = 0
<1>1. Len(q) \in Nat \ {0} /\ Head(q) = q[1] /\ k <= Len(q)
  BY DEF Queued
<1>2. k # 0 => q[1] \in d + 1 - 1 .. n
  BY <1>1 DEF Queued, Rising
<1> QED
  BY <1>1, <1>2 DEF End

-----------------------------------------------------------------------------
(* The inductive invariant of jobs and their streams.                      *)

\* Where a job holds its buffer.
Held == {"scheduled", "running", "saving", "saved", "draining", "abandoned"}

\* A job has its buffer from the start of its task to the end of its drain timer, unless
\* it is abandoned, and counts as finalized while the timer runs.
TypeInv ==
  /\ TypeOK
  /\ \A j \in Jobs : /\ j \in ram <=> pc[j] \in Held
                     /\ j \in finalized <=> pc[j] = "draining"
  /\ \A s \in Streams : at[s] = "idle" <=> of[s] = NoJob

\* The job has told its streams of its end.
Over(j) == pc[j] \in {"draining", "done"}

\* What is kept of n lines is the last of them, as many as there is room for.
Kept(b, n) ==
  /\ Len(b) = IF n < Buffer THEN n ELSE Buffer
  /\ \A i \in 1 .. Len(b) : b[i] + Len(b) = n + i

BufferInv ==
  \A j \in Jobs :
    /\ j \in ram => Kept(buf[j], lines[j])
    /\ j \notin ram => buf[j] = <<>>
    /\ pc[j] \in {"new", "refused", "inserting", "inserted", "scheduled"} => lines[j] = 0
    /\ pc[j] \in {"inserted", "scheduled", "running", "saving"} => row[j] = "running"

\* The line due after the snapshot of stream s.
DueNext(s) == Due(s) + Len(backlog[s])

\* The oldest line of stream s.
First(s) == IF got[s] # <<>> THEN got[s][1] ELSE Due(s)

\* What a stream has still to send: the snapshot in order, then the queue, which reaches to
\* the last line printed unless it ran full, and ends with a sentinel when the job is over.
Reads(s) ==
  /\ \A i \in 1 .. Len(backlog[s]) : backlog[s][i] = Due(s) + i - 1
  /\ DueNext(s) <= lines[of[s]] + 1
  /\ \E k \in Nat : /\ Queued(DueNext(s), queue[s], lines[of[s]], k)
                    /\ k < Len(queue[s]) => Over(of[s])
                    /\ s \notin lost => DueNext(s) + k = lines[of[s]] + 1
  /\ Over(of[s]) => queue[s] # <<>> /\ queue[s][Len(queue[s])] = End

\* What a stream has sent that never lost a line.
Sent(s) ==
  s \notin lost => /\ \A i \in 1 .. Len(got[s]) : got[s][i] = First(s) + i - 1
                   /\ First(s) = 1 \/ lines[of[s]] > Buffer

StreamInv(s) ==
  /\ at[s] = "idle" => /\ got[s] = <<>> /\ backlog[s] = <<>> /\ queue[s] = <<>>
                       /\ s \notin lost /\ shown[s] = "nothing"
  /\ at[s] = "reading" => Reads(s) /\ Sent(s)
  /\ at[s] = "report" => /\ Over(of[s]) /\ backlog[s] = <<>> /\ Sent(s)
                         /\ s \notin lost => Due(s) = lines[of[s]] + 1

StreamsInv == TypeInv /\ RowInv /\ BufferInv /\ \A s \in Streams : StreamInv(s)

-----------------------------------------------------------------------------

LEMMA TypeInit == ASSUME Init PROVE TypeInv
  BY JobAssumption, BoundAssumption, NoJobAssumption
     DEF Init, TypeInv, TypeOK, Stages, Final, Places, Held

\* A sequence keeps its bound when it makes room for the element it gets.
LEMMA Room ==
  ASSUME NEW S, NEW q \in Seq(S), NEW x \in S, NEW n \in Nat \ {0}, Len(q) <= n
  PROVE  /\ Append(IF Len(q) < n THEN q ELSE Tail(q), x) \in Seq(S)
         /\ Len(Append(IF Len(q) < n THEN q ELSE Tail(q), x)) <= n
<1>1. CASE Len(q) < n
  BY <1>1
<1>2. CASE ~(Len(q) < n)
  <2>1. Len(q) = n /\ q # <<>>
    BY <1>2
  <2> QED
    BY <1>2, <2>1
<1> QED
  BY <1>1, <1>2

LEMMA HeadAndTail ==
  ASSUME NEW S, NEW q \in Seq(S), q # <<>>
  PROVE  /\ Head(q) \in S /\ Tail(q) \in Seq(S) /\ Head(q) = q[1]
         /\ Len(q) \in Nat \ {0} /\ Len(Tail(q)) = Len(q) - 1
         /\ \A i \in 1 .. Len(q) - 1 : Tail(q)[i] = q[i + 1]
  OBVIOUS

LEMMA LastAppended ==
  ASSUME NEW q \in Seq(Nat), NEW x \in Nat
  PROVE  /\ Append(q, x) # <<>> /\ Append(q, x)[Len(Append(q, x))] = x
         /\ Len(Append(q, x)) = Len(q) + 1
  OBVIOUS

LEMMA LaterSeq == ASSUME NEW S, NEW T, S \subseteq T, NEW q \in Seq(S) PROVE q \in Seq(T)
  OBVIOUS

\* The first clauses of TypeOK, which say nothing of lines and streams.
LEMMA TypeJob ==
  ASSUME TypeInv, NEW j \in Jobs, Request(j) \/ Insert(j) \/ Register(j) \/ Run(j) \/ Finish(j)
                                  \/ Cancel(j) \/ Save(j) \/ SaveFails(j) \/ Trim(j)
  PROVE  TypeInv'
<1> USE JobAssumption DEF TypeInv, TypeOK, Stages, Final, Held, Goto, streamVars
<1>1. CASE Request(j)
  BY <1>1 DEF Request
<1>2. CASE Insert(j)
  BY <1>2 DEF Insert
<1>3. CASE Register(j)
  BY <1>3 DEF Register
<1>4. CASE Run(j)
  BY <1>4 DEF Run
<1>5. CASE Finish(j)
  BY <1>5 DEF Finish
<1>6. CASE Cancel(j)
  <2>1. CASE pc[j] = "running"
    <3>1. pc' = [pc EXCEPT ![j] = "saving"] /\ outcome' = [outcome EXCEPT ![j] = "cancelled"]
      BY <1>6, <2>1 DEF Cancel
    <3> QED
      BY <1>6, <2>1, <3>1 DEF Cancel
  <2>2. CASE pc[j] # "running"
    <3>1. pc' = [pc EXCEPT ![j] = "abandoned"] /\ UNCHANGED outcome /\ Live(j)
      BY <1>6, <2>2 DEF Cancel
    <3> QED
      BY <1>6, <2>2, <3>1 DEF Cancel, Live
  <2> QED
    BY <2>1, <2>2
<1>7. CASE Save(j)
  BY <1>7 DEF Save
<1>8. CASE SaveFails(j)
  BY <1>8 DEF SaveFails, Spend
<1>9. CASE Trim(j)
  BY <1>9 DEF Trim
<1> QED
  BY <1>1, <1>2, <1>3, <1>4, <1>5, <1>6, <1>7, <1>8, <1>9

\* A sentinel for every stream of job j leaves the queues within their bounds.
LEMMA TypeSignal ==
  ASSUME TypeInv, NEW j \in Jobs, Signal(j)
  PROVE  /\ queue' \in [Streams -> Seq(0 .. MaxLines)]
         /\ \A s \in Streams : Len(queue'[s]) <= Capacity
         /\ lost' \subseteq Streams
<1> SUFFICES ASSUME NEW s \in Streams
             PROVE  PutEnd(queue[s]) \in Seq(0 .. MaxLines) /\ Len(PutEnd(queue[s])) <= Capacity
  BY DEF Signal, TypeInv, TypeOK, Overflowing, Attached
<1>1. queue[s] \in Seq(0 .. MaxLines) /\ Len(queue[s]) <= Capacity /\ End \in 0 .. MaxLines
  BY BoundAssumption DEF End, TypeInv, TypeOK
<1> QED
  BY <1>1, Room, BoundAssumption DEF PutEnd

LEMMA TypeLine ==
  ASSUME TypeInv, NEW j \in Jobs, Line(j) \/ Finalize(j) \/ Drain(j)
  PROVE  TypeInv'
<1>1. CASE Line(j)
  <2> DEFINE n == lines[j] + 1
  <2>1. lines' = [lines EXCEPT ![j] = n] /\ n \in 1 .. MaxLines /\ lines'[j] = n
    BY <1>1, BoundAssumption DEF Line, TypeInv, TypeOK
  <2>2. /\ buf' \in [Jobs -> Seq(1 .. MaxLines)]
        /\ \A k \in Jobs : Len(buf'[k]) <= Buffer
    <3> DEFINE b == Append(IF Len(buf[j]) < Buffer THEN buf[j] ELSE Tail(buf[j]), n)
    <3>1. b \in Seq(1 .. MaxLines) /\ Len(b) <= Buffer
      BY <2>1, Room, BoundAssumption DEF TypeInv, TypeOK
    <3>2. buf' = [buf EXCEPT ![j] = b]
      BY <1>1, <2>1 DEF Line
    <3> HIDE DEF b
    <3> QED
      BY <3>1, <3>2 DEF TypeInv, TypeOK
  <2>3. /\ queue' \in [Streams -> Seq(0 .. MaxLines)]
        /\ \A s \in Streams : Len(queue'[s]) <= Capacity
    <3> SUFFICES ASSUME NEW s \in Streams, s \in Attached(j) \ Overflowing(j)
                 PROVE  /\ Append(queue[s], n) \in Seq(0 .. MaxLines)
                        /\ Len(Append(queue[s], n)) <= Capacity
      BY <1>1, <2>1 DEF Line, TypeInv, TypeOK
    <3>1. queue[s] \in Seq(0 .. MaxLines) /\ Len(queue[s]) < Capacity
      BY BoundAssumption DEF Overflowing, TypeInv, TypeOK
    <3> QED
      BY <2>1, <3>1, BoundAssumption
  <2>4. lost' \subseteq Streams
    BY <1>1 DEF Line, Overflowing, Attached, TypeInv, TypeOK
  <2> QED
    BY <1>1, <2>1, <2>2, <2>3, <2>4 DEF Line, TypeInv, TypeOK
<1>2. CASE Finalize(j)
  BY <1>2, TypeSignal DEF Finalize, Goto, TypeInv, TypeOK, Stages, Held
<1>3. CASE Drain(j)
  <2>1. buf' \in [Jobs -> Seq(1 .. MaxLines)] /\ \A k \in Jobs : Len(buf'[k]) <= Buffer
    BY <1>3, BoundAssumption DEF Drain, TypeInv, TypeOK
  <2> QED
    BY <1>3, <2>1, TypeSignal DEF Drain, Goto, TypeInv, TypeOK, Stages, Held
<1> QED
  BY <1>1, <1>2, <1>3

LEMMA TypeStream ==
  ASSUME TypeInv, NEW s \in Streams,
         Send(s) \/ Disconnect(s) \/ Report(s) \/ \E j \in Jobs : Subscribe(s, j)
  PROVE  TypeInv'
<1>1. CASE Send(s)
  <2>1. CASE backlog[s] # <<>>
    <3>1. Head(backlog[s]) \in 1 .. MaxLines /\ Tail(backlog[s]) \in Seq(1 .. MaxLines)
          /\ Len(Tail(backlog[s])) <= Buffer
      BY <2>1, BoundAssumption DEF TypeInv, TypeOK
    <3>2. Append(got[s], Head(backlog[s])) \in Seq(1 .. MaxLines)
      BY <3>1 DEF TypeInv, TypeOK
    <3> QED
      BY <1>1, <2>1, <3>1, <3>2 DEF Send, TypeInv, TypeOK, jobVars
  <2>2. CASE backlog[s] = <<>>
    <3>1. Head(queue[s]) \in 0 .. MaxLines /\ Tail(queue[s]) \in Seq(0 .. MaxLines)
          /\ Len(Tail(queue[s])) <= Capacity
      <4>1. queue[s] \in Seq(0 .. MaxLines) /\ queue[s] # <<>> /\ Len(queue[s]) <= Capacity
        BY <1>1, <2>2 DEF Send, TypeInv, TypeOK
      <4>2. Head(queue[s]) \in 0 .. MaxLines
        BY <4>1, HeadAndTail
      <4>3. Tail(queue[s]) \in Seq(0 .. MaxLines)
        BY <4>1, HeadAndTail
      <4>4. Len(Tail(queue[s])) <= Capacity
        BY <4>1, HeadAndTail, BoundAssumption
      <4> QED
        BY <4>2, <4>3, <4>4
    <3>2. Head(queue[s]) # End => Append(got[s], Head(queue[s])) \in Seq(1 .. MaxLines)
      BY <3>1 DEF TypeInv, TypeOK, End
    <3> QED
      BY <1>1, <2>2, <3>1, <3>2 DEF Send, TypeInv, TypeOK, jobVars, Places
  <2> QED
    BY <2>1, <2>2
<1>2. CASE Disconnect(s)
  BY <1>2 DEF Disconnect, TypeInv, TypeOK, jobVars, Places
<1>3. CASE Report(s)
  <2>1. of[s] \in Jobs
    BY <1>3 DEF Report, TypeInv, TypeOK
  <2> QED
    BY <1>3, <2>1 DEF Report, TypeInv, TypeOK, jobVars, Places
<1>4. ASSUME NEW j \in Jobs, Subscribe(s, j) PROVE TypeInv'
  <2>1. PutEnd(<<>>) \in Seq(0 .. MaxLines) /\ Len(PutEnd(<<>>)) <= Capacity
    BY BoundAssumption DEF PutEnd, End
  <2>2. queue' \in [Streams -> Seq(0 .. MaxLines)] /\ \A r \in Streams : Len(queue'[r]) <= Capacity
    <3> DEFINE q == IF j \in finalized THEN PutEnd(<<>>) ELSE <<>>
    <3>1. q \in Seq(0 .. MaxLines) /\ Len(q) <= Capacity
      <4>1. <<>> \in Seq(0 .. MaxLines) /\ Len(<<>>) = 0
        OBVIOUS
      <4>2. CASE j \in finalized
        BY <2>1, <4>2
      <4>3. CASE j \notin finalized
        BY <4>1, <4>3, BoundAssumption
      <4> QED
        BY <4>2, <4>3
    <3>2. queue' = [queue EXCEPT ![s] = q]
      BY <1>4 DEF Subscribe
    <3> HIDE DEF q
    <3> QED
      BY <3>1, <3>2 DEF TypeInv, TypeOK
  <2>3. /\ backlog' \in [Streams -> Seq(1 .. MaxLines)]
        /\ \A r \in Streams : Len(backlog'[r]) <= Buffer
    BY <1>4 DEF Subscribe, TypeInv, TypeOK
  <2> QED
    BY <1>4, <2>2, <2>3, NoJobAssumption DEF Subscribe, TypeInv, TypeOK, jobVars, Places
<1> QED
  BY <1>1, <1>2, <1>3, <1>4

LEMMA TypeStep == ASSUME TypeInv, [Next]_vars PROVE TypeInv'
<1>1. CASE UNCHANGED vars
  BY <1>1 DEF vars, jobVars, streamVars, TypeInv, TypeOK
<1>2. CASE Restart
  <2>1. buf' \in [Jobs -> Seq(1 .. MaxLines)] /\ \A k \in Jobs : Len(buf'[k]) <= Buffer
    BY <1>2, BoundAssumption DEF Restart
  <2> QED
    BY <1>2, <2>1 DEF Restart, Heal, Spend, TypeInv, TypeOK, Stages, Final, Places, Held
<1> QED
  BY <1>1, <1>2, TypeJob, TypeLine, TypeStream DEF Next, Task

LEMMA LineNumbers ==
  ASSUME TypeInv
  PROVE  /\ \A j \in Jobs : buf[j] \in Seq(Nat) /\ lines[j] \in Nat
         /\ \A s \in Streams : /\ backlog[s] \in Seq(Nat) /\ queue[s] \in Seq(Nat)
                              /\ got[s] \in Seq(Nat) /\ Len(queue[s]) <= Capacity
<1>1. 0 .. MaxLines \subseteq Nat /\ 1 .. MaxLines \subseteq Nat
  OBVIOUS
<1> QED
  BY <1>1, LaterSeq DEF TypeInv, TypeOK

LEMMA DueIsLine ==
  ASSUME TypeInv, NEW s \in Streams
  PROVE  Due(s) \in Nat \ {0} /\ DueNext(s) \in Nat \ {0} /\ Len(backlog[s]) \in Nat
<1>1. got[s] \in Seq(Nat) /\ backlog[s] \in Seq(1 .. MaxLines)
  BY LineNumbers DEF TypeInv, TypeOK
<1>2. got[s] # <<>> => got[s][Len(got[s])] \in Nat
  BY <1>1
<1>3. backlog[s] # <<>> => Head(backlog[s]) \in 1 .. MaxLines
  BY <1>1, HeadAndTail
<1>4. Due(s) \in Nat \ {0}
  BY <1>2, <1>3 DEF Due
<1> QED
  BY <1>1, <1>4 DEF DueNext

-----------------------------------------------------------------------------
(* The ring buffers.                                                       *)

LEMMA KeptLine ==
  ASSUME NEW b \in Seq(Nat), NEW n \in Nat, Kept(b, n)
  PROVE  Kept(Append(IF Len(b) < Buffer THEN b ELSE Tail(b), n + 1), n + 1)
<1>1. Buffer \in Nat \ {0} /\ Len(b) \in Nat
  BY BoundAssumption
<1>2. CASE Len(b) < Buffer
  <2> DEFINE c == Append(b, n + 1)
  <2>1. Len(c) = Len(b) + 1 /\ \A i \in 1 .. Len(b) : c[i] = b[i]
    OBVIOUS
  <2>2. c[Len(b) + 1] = n + 1
    OBVIOUS
  <2> HIDE DEF c
  <2>3. Len(b) = n /\ n < Buffer
    BY <1>1, <1>2 DEF Kept
  <2>4. ASSUME NEW i \in 1 .. Len(c) PROVE c[i] + Len(c) = n + 1 + i
    <3>1. CASE i = n + 1
      BY <1>1, <2>1, <2>2, <2>3, <3>1
    <3>2. CASE i \in 1 .. Len(b)
      BY <1>1, <2>1, <2>3, <3>2 DEF Kept
    <3> QED
      BY <1>1, <2>1, <2>3, <3>1, <3>2
  <2>5. Kept(c, n + 1)
    BY <1>1, <2>1, <2>3, <2>4 DEF Kept
  <2> QED
    BY <1>2, <2>5 DEF c
<1>3. CASE ~(Len(b) < Buffer)
  <2>1. Len(b) = Buffer /\ Buffer <= n /\ b # <<>>
    BY <1>1, <1>3 DEF Kept
  <2> DEFINE t == Tail(b)
             c == Append(t, n + 1)
  <2>2. t \in Seq(Nat) /\ Len(t) = Buffer - 1 /\ \A i \in 1 .. Buffer - 1 : t[i] = b[i + 1]
    BY <2>1, HeadAndTail
  <2> HIDE DEF t
  <2>3. Len(c) = Buffer /\ \A i \in 1 .. Buffer - 1 : c[i] = t[i]
    BY <1>1, <2>2
  <2>4. c[Buffer] = n + 1
    BY <1>1, <2>2
  <2> HIDE DEF c
  <2>5. ASSUME NEW i \in 1 .. Buffer PROVE c[i] + Buffer = n + 1 + i
    <3>1. CASE i = Buffer
      BY <1>1, <2>4, <3>1
    <3>2. CASE i \in 1 .. Buffer - 1
      <4>1. i + 1 \in 1 .. Len(b) /\ i \in Nat
        BY <1>1, <2>1, <3>2
      <4>2. b[i + 1] + Len(b) = n + (i + 1)
        BY <4>1 DEF Kept
      <4> QED
        BY <1>1, <2>1, <2>2, <2>3, <3>2, <4>1, <4>2
    <3> QED
      BY <1>1, <3>1, <3>2
  <2>6. Kept(c, n + 1)
    BY <1>1, <2>1, <2>3, <2>5 DEF Kept
  <2> QED
    BY <1>3, <2>6 DEF c, t
<1> QED
  BY <1>2, <1>3

LEMMA BufferStep ==
  ASSUME TypeInv, RowInv, BufferInv, [Next]_vars
  PROVE  BufferInv'
<1> USE DEF TypeInv, TypeOK, BufferInv, Held, Stages, Goto
<1>1. CASE UNCHANGED vars \/ \E s \in Streams : \/ Send(s) \/ Disconnect(s) \/ Report(s)
                                                \/ \E j \in Jobs : Subscribe(s, j)
  <2>1. UNCHANGED jobVars
    BY <1>1 DEF vars, Send, Disconnect, Report, Subscribe
  <2> QED
    BY <2>1 DEF jobVars
<1>2. ASSUME NEW j \in Jobs, Request(j) \/ Insert(j) \/ Register(j) \/ Run(j) \/ Finish(j)
                             \/ Cancel(j) \/ Save(j) \/ SaveFails(j) \/ Trim(j) \/ Finalize(j)
      PROVE  BufferInv'
  <2>1. CASE Request(j)
    BY <2>1 DEF Request
  <2>2. CASE Insert(j)
    BY <2>2 DEF Insert
  <2>3. CASE Register(j)
    <3>1. Kept(<<>>, 0)
      BY BoundAssumption DEF Kept
    <3>2. buf[j] = <<>> /\ lines[j] = 0
      BY <2>3 DEF Register
    <3> QED
      BY <2>3, <3>1, <3>2 DEF Register
  <2>4. CASE Run(j)
    BY <2>4 DEF Run
  <2>5. CASE Finish(j)
    BY <2>5 DEF Finish
  <2>6. CASE Cancel(j)
    <3>1. \/ pc' = [pc EXCEPT ![j] = "saving"] /\ pc[j] = "running"
          \/ pc' = [pc EXCEPT ![j] = "abandoned"] /\ Live(j)
      BY <2>6 DEF Cancel
    <3> QED
      BY <2>6, <3>1 DEF Cancel, Live
  <2>7. CASE Save(j)
    BY <2>7 DEF Save
  <2>8. CASE SaveFails(j)
    BY <2>8 DEF SaveFails
  <2>9. CASE Trim(j)
    BY <2>9 DEF Trim, Final
  <2>10. CASE Finalize(j)
    BY <2>10 DEF Finalize
  <2> QED
    BY <1>2, <2>1, <2>2, <2>3, <2>4, <2>5, <2>6, <2>7, <2>8, <2>9, <2>10
<1>3. ASSUME NEW j \in Jobs, Line(j) PROVE BufferInv'
  <2> DEFINE b == Append(IF Len(buf[j]) < Buffer THEN buf[j] ELSE Tail(buf[j]), lines[j] + 1)
  <2>1. buf' = [buf EXCEPT ![j] = b] /\ lines' = [lines EXCEPT ![j] = lines[j] + 1]
    BY <1>3 DEF Line
  <2>2. buf[j] \in Seq(Nat) /\ lines[j] \in Nat /\ j \in ram
    BY <1>3, LineNumbers DEF Line
  <2>3. Kept(b, lines[j] + 1)
    BY <2>2, KeptLine
  <2> HIDE DEF b
  <2> QED
    BY <1>3, <2>1, <2>2, <2>3 DEF Line
<1>4. ASSUME NEW j \in Jobs, Drain(j) PROVE BufferInv'
  BY <1>4 DEF Drain
<1>5. CASE Restart
  BY <1>5 DEF Restart
<1> QED
  BY <1>1, <1>2, <1>3, <1>4, <1>5 DEF Next, Task

-----------------------------------------------------------------------------
(* What a line or a sentinel does to a stream.                             *)

\* A stream whose own state is left alone, by a step that ends no log and prints nothing.
LEMMA StreamFrame ==
  ASSUME NEW s \in Streams, StreamInv(s), UNCHANGED lines,
         at'[s] = at[s], of'[s] = of[s], backlog'[s] = backlog[s],
         queue'[s] = queue[s], got'[s] = got[s],
         shown'[s] = shown[s], s \in lost' <=> s \in lost,
         at[s] \in {"reading", "report"} => (Over(of[s])' <=> Over(of[s]))
  PROVE  StreamInv(s)'
<1>1. Due(s)' = Due(s)
  BY DEF Due
<1>2. DueNext(s)' = DueNext(s) /\ First(s)' = First(s)
  BY <1>1 DEF DueNext, First
<1>3. Sent(s) => Sent(s)'
  BY <1>2 DEF Sent
<1>4. at[s] = "reading" /\ Reads(s) => Reads(s)'
  BY <1>1, <1>2 DEF Reads
<1> QED
  BY <1>1, <1>3, <1>4 DEF StreamInv

LEMMA StreamSignal ==
  ASSUME TypeInv, NEW s \in Streams, StreamInv(s), NEW j \in Jobs, Signal(j),
         UNCHANGED <<at, of, lines, backlog, got, shown>>,
         j \in ram, \A i \in Jobs : i # j => pc'[i] = pc[i], Over(j)'
  PROVE  StreamInv(s)'
<1>1. CASE s \in Attached(j)
  <2>1. at[s] = "reading" /\ of[s] = j
    BY <1>1 DEF Attached
  <2>2. /\ queue'[s] = PutEnd(queue[s])
        /\ s \in lost' <=> s \in lost \/ Len(queue[s]) >= Capacity
    BY <1>1 DEF Signal, Overflowing
  <2>3. Due(s)' = Due(s) /\ DueNext(s)' = DueNext(s) /\ First(s)' = First(s)
    BY DEF Due, DueNext, First
  <2>4. Sent(s)'
    BY <2>1, <2>2, <2>3 DEF Sent, StreamInv
  <2>5. /\ DueNext(s) \in Nat \ {0} /\ lines[j] \in Nat
        /\ queue[s] \in Seq(Nat) /\ Len(queue[s]) <= Capacity
    BY DueIsLine, LineNumbers
  <2>6. PICK k \in Nat : /\ Queued(DueNext(s), queue[s], lines[j], k)
                         /\ s \notin lost => DueNext(s) + k = lines[j] + 1
    BY <2>1 DEF Reads, StreamInv
  <2> DEFINE q == PutEnd(queue[s])
  <2>7. /\ q \in Seq(Nat) /\ Len(q) \in 1 .. Capacity /\ q[Len(q)] = End
        /\ Len(queue[s]) < Capacity => Queued(DueNext(s), q, lines[j], k)
        /\ \E m \in Nat : Queued(DueNext(s), q, lines[j], m)
    BY <2>5, <2>6, QueuedEnd
  <2> HIDE DEF q
  <2>8. \E m \in Nat : /\ Queued(DueNext(s), q, lines[j], m)
                       /\ s \notin lost' => DueNext(s) + m = lines[j] + 1
    <3>1. CASE Len(queue[s]) < Capacity
      BY <2>2, <2>6, <2>7, <3>1
    <3>2. CASE ~(Len(queue[s]) < Capacity)
      BY <2>2, <2>5, <2>7, <3>2, BoundAssumption
    <3> QED
      BY <3>1, <3>2
  <2>9. Reads(s)'
    <3>1. /\ q # <<>> /\ q[Len(q)] = End
          /\ queue'[s] = q
      BY <2>2, <2>7 DEF q
    <3> QED
      BY <2>1, <2>3, <2>8, <3>1 DEF Reads, StreamInv
  <2> QED
    BY <2>1, <2>4, <2>9 DEF StreamInv
<1>2. CASE s \notin Attached(j)
  <2>1. queue'[s] = queue[s] /\ (s \in lost' <=> s \in lost)
    BY <1>2 DEF Signal, Overflowing
  <2>2. ASSUME at[s] \in {"reading", "report"} PROVE Over(of[s])' <=> Over(of[s])
    <3>1. at[s] = "reading" => of[s] # j
      BY <1>2 DEF Attached
    <3>2. of[s] \in Jobs
      BY <2>2, NoJobAssumption DEF TypeInv, TypeOK
    <3>3. at[s] = "report" => Over(of[s])
      BY DEF StreamInv
    <3> QED
      BY <2>2, <3>1, <3>2, <3>3 DEF Over
  <2> QED
    BY <2>1, <2>2, StreamFrame
<1> QED
  BY <1>1, <1>2

LEMMA StreamLine ==
  ASSUME TypeInv, NEW s \in Streams, StreamInv(s), NEW j \in Jobs, Line(j)
  PROVE  StreamInv(s)'
<1>1. /\ pc[j] = "running" /\ j \in ram /\ lines'[j] = lines[j] + 1 /\ lines[j] \in Nat
      /\ \A i \in Jobs : i # j => lines'[i] = lines[i]
      /\ UNCHANGED <<pc, at, of, backlog, got, shown>>
  BY LineNumbers DEF Line, TypeInv, TypeOK, Held
<1>2. Due(s)' = Due(s) /\ DueNext(s)' = DueNext(s) /\ First(s)' = First(s)
  BY <1>1 DEF Due, DueNext, First
<1>3. CASE s \in Attached(j)
  <2>1. at[s] = "reading" /\ of[s] = j /\ ~Over(j)
    BY <1>1, <1>3 DEF Attached, Over
  <2>2. /\ DueNext(s) \in Nat \ {0} /\ queue[s] \in Seq(Nat) /\ Len(queue[s]) \in Nat
        /\ DueNext(s) <= lines[j] + 1
    BY <2>1, DueIsLine, LineNumbers DEF StreamInv, Reads
  <2>3. /\ Queued(DueNext(s), queue[s], lines[j], Len(queue[s]))
        /\ s \notin lost => DueNext(s) + Len(queue[s]) = lines[j] + 1
    <3>1. PICK k \in Nat : /\ Queued(DueNext(s), queue[s], lines[j], k)
                           /\ ~(k < Len(queue[s]))
                           /\ s \notin lost => DueNext(s) + k = lines[j] + 1
      BY <2>1 DEF Reads, StreamInv
    <3>2. k = Len(queue[s])
      BY <2>2, <3>1 DEF Queued
    <3> QED
      BY <3>1, <3>2
  <2>4. CASE Len(queue[s]) < Capacity
    <3> DEFINE q == Append(queue[s], lines[j] + 1)
    <3>1. queue'[s] = q /\ (s \in lost' <=> s \in lost)
      BY <1>1, <1>3, <2>2, <2>4, BoundAssumption DEF Line, Overflowing
    <3>2. Queued(DueNext(s), q, lines[j] + 1, Len(queue[s]) + 1)
      BY <1>1, <2>2, <2>3, QueuedLine
    <3>3. Len(q) = Len(queue[s]) + 1
      BY <2>2
    <3> HIDE DEF q
    <3>4. Reads(s)'
      <4>1. s \notin lost => DueNext(s) + (Len(queue[s]) + 1) = (lines[j] + 1) + 1
        BY <1>1, <2>2, <2>3
      <4>2. DueNext(s) <= (lines[j] + 1) + 1 /\ ~(Len(queue[s]) + 1 < Len(q))
        BY <1>1, <2>2, <3>3
      <4>3. ~Over(j)'
        BY <1>1, <2>1 DEF Over
      <4>4. \E k \in Nat : /\ Queued(DueNext(s), q, lines[j] + 1, k)
                           /\ ~(k < Len(q))
                           /\ s \notin lost => DueNext(s) + k = (lines[j] + 1) + 1
        BY <2>2, <3>2, <4>1, <4>2
      <4> QED
        BY <1>1, <1>2, <2>1, <3>1, <4>2, <4>3, <4>4 DEF Reads, StreamInv
    <3>5. Sent(s)'
      BY <1>1, <1>2, <2>1, <3>1, BoundAssumption DEF Sent, StreamInv
    <3> QED
      BY <1>1, <2>1, <3>4, <3>5 DEF StreamInv
  <2>5. CASE ~(Len(queue[s]) < Capacity)
    <3>1. queue'[s] = queue[s] /\ s \in lost'
      BY <1>1, <1>3, <2>2, <2>5, BoundAssumption DEF Line, Overflowing, TypeInv, TypeOK
    <3>2. Queued(DueNext(s), queue[s], lines[j] + 1, Len(queue[s]))
      BY <1>1, <2>2, <2>3, QueuedMiss
    <3>3. Reads(s)'
      <4>1. DueNext(s) <= (lines[j] + 1) + 1
        BY <1>1, <2>2
      <4>2. ~Over(j)'
        BY <1>1, <2>1 DEF Over
      <4> QED
        BY <1>1, <1>2, <2>1, <2>2, <3>1, <3>2, <4>1, <4>2 DEF Reads, StreamInv
    <3> QED
      BY <1>1, <2>1, <3>1, <3>3 DEF StreamInv, Sent
  <2> QED
    BY <2>4, <2>5
<1>4. CASE s \notin Attached(j)
  <2>1. queue'[s] = queue[s] /\ (s \in lost' <=> s \in lost)
    BY <1>4 DEF Line, Overflowing, TypeInv, TypeOK
  <2>2. at[s] = "reading" => of[s] \in Jobs /\ of[s] # j
    BY <1>1, <1>4, NoJobAssumption DEF Attached, TypeInv, TypeOK
  <2>3. at[s] = "report" => of[s] \in Jobs /\ of[s] # j
    BY <1>1, NoJobAssumption DEF StreamInv, Over, TypeInv, TypeOK
  <2>4. at[s] \in {"reading", "report"} => /\ lines'[of[s]] = lines[of[s]]
                                           /\ Over(of[s])' <=> Over(of[s])
    BY <1>1, <2>2, <2>3 DEF Over
  <2>5. at[s] = "reading" => Reads(s)'
    BY <1>1, <1>2, <2>1, <2>4 DEF StreamInv, Reads
  <2>6. at[s] \in {"reading", "report"} => Sent(s)'
    BY <1>1, <1>2, <2>1, <2>4 DEF StreamInv, Sent
  <2> QED
    BY <1>1, <1>2, <2>1, <2>4, <2>5, <2>6 DEF StreamInv
<1> QED
  BY <1>3, <1>4

-----------------------------------------------------------------------------

\* The next line of the snapshot is the one due; it leaves the rest to send as it was.
LEMMA SendBacklog ==
  ASSUME TypeInv, NEW s \in Streams, StreamInv(s), Send(s), backlog[s] # <<>>
  PROVE  /\ at'[s] = "reading" /\ queue'[s] = queue[s]
         /\ got'[s] = Append(got[s], Due(s)) /\ Due(s) <= lines[of[s]]
         /\ Due(s)' = Due(s) + 1 /\ DueNext(s)' = DueNext(s)
         /\ backlog'[s] = Tail(backlog[s])
<1>1. /\ at[s] = "reading" /\ Reads(s)
      /\ got' = [got EXCEPT ![s] = Append(got[s], Head(backlog[s]))]
      /\ backlog' = [backlog EXCEPT ![s] = Tail(backlog[s])]
      /\ UNCHANGED <<at, queue>>
  BY DEF Send, StreamInv
<1>2. /\ got'[s] = Append(got[s], Head(backlog[s])) /\ backlog'[s] = Tail(backlog[s])
      /\ backlog[s] \in Seq(Nat) /\ got[s] \in Seq(Nat) /\ of[s] \in Jobs
      /\ lines[of[s]] \in Nat
  BY <1>1, LineNumbers, NoJobAssumption DEF TypeInv, TypeOK
<1>3. /\ Due(s) \in Nat \ {0} /\ DueNext(s) = Due(s) + Len(backlog[s])
      /\ DueNext(s) <= lines[of[s]] + 1
  BY <1>1, DueIsLine DEF Reads, DueNext
<1>4. Len(backlog[s]) \in Nat \ {0} /\ Len(Tail(backlog[s])) = Len(backlog[s]) - 1
  BY <1>2, HeadAndTail
<1>5. Head(backlog[s]) = Due(s)
  <2>1. Head(backlog[s]) = backlog[s][1] /\ 1 \in 1 .. Len(backlog[s])
    BY <1>2, <1>4, HeadAndTail
  <2>2. backlog[s][1] = Due(s) + 1 - 1
    BY <1>1, <2>1 DEF Reads
  <2> QED
    BY <1>3, <2>1, <2>2
<1>6. /\ got'[s] # <<>> /\ got'[s][Len(got'[s])] = Due(s)
      /\ got'[s] = Append(got[s], Due(s))
  <2>1. got[s] \in Seq(Nat) /\ Due(s) \in Nat
    BY <1>2, <1>3
  <2>2. /\ Append(got[s], Due(s)) # <<>>
        /\ Append(got[s], Due(s))[Len(Append(got[s], Due(s)))] = Due(s)
    BY <2>1, LastAppended
  <2> QED
    BY <1>2, <1>5, <2>2
<1>7. Due(s)' = Due(s) + 1
  BY <1>6 DEF Due
<1>8. DueNext(s)' = DueNext(s)
  BY <1>2, <1>3, <1>4, <1>7 DEF DueNext
<1>9. Due(s) <= lines[of[s]]
  BY <1>2, <1>3, <1>4
<1> QED
  BY <1>1, <1>2, <1>5, <1>7, <1>8, <1>9

\* A line of the queue is one still due, the one due unless the queue ran full.
LEMMA SendQueue ==
  ASSUME TypeInv, NEW s \in Streams, StreamInv(s), Send(s), backlog[s] = <<>>,
         Head(queue[s]) # End
  PROVE  /\ at'[s] = "reading" /\ queue'[s] = Tail(queue[s]) /\ queue[s] # <<>>
         /\ Head(queue[s]) \in Due(s) .. lines[of[s]]
         /\ s \notin lost => Head(queue[s]) = Due(s)
         /\ got'[s] = Append(got[s], Head(queue[s]))
         /\ Due(s)' = Head(queue[s]) + 1 /\ DueNext(s)' = Head(queue[s]) + 1
         /\ backlog'[s] = <<>>
         /\ \E k \in Nat : /\ Queued(DueNext(s)', queue'[s], lines[of[s]], k)
                           /\ k < Len(queue'[s]) => Over(of[s])
                           /\ s \notin lost => DueNext(s)' + k = lines[of[s]] + 1
<1>1. /\ at[s] = "reading" /\ Reads(s) /\ queue[s] # <<>>
      /\ got' = [got EXCEPT ![s] = Append(got[s], Head(queue[s]))]
      /\ queue' = [queue EXCEPT ![s] = Tail(queue[s])]
      /\ UNCHANGED <<at, backlog>>
  BY DEF Send, StreamInv
<1>2. /\ got'[s] = Append(got[s], Head(queue[s])) /\ queue'[s] = Tail(queue[s])
      /\ queue[s] \in Seq(Nat) /\ got[s] \in Seq(Nat) /\ of[s] \in Jobs
      /\ lines[of[s]] \in Nat
  BY <1>1, LineNumbers, NoJobAssumption DEF TypeInv, TypeOK
<1>3. Due(s) \in Nat \ {0} /\ DueNext(s) = Due(s)
  BY DueIsLine DEF DueNext
<1>4. /\ Len(queue[s]) \in Nat \ {0} /\ Len(Tail(queue[s])) = Len(queue[s]) - 1
      /\ Head(queue[s]) \in Nat
  BY <1>1, <1>2, HeadAndTail
<1>5. PICK k \in Nat : /\ Queued(Due(s), queue[s], lines[of[s]], k)
                       /\ k < Len(queue[s]) => Over(of[s])
                       /\ s \notin lost => Due(s) + k = lines[of[s]] + 1
  BY <1>1, <1>3 DEF Reads
<1>6. /\ k # 0 /\ Head(queue[s]) \in Due(s) .. lines[of[s]]
      /\ Due(s) + k = lines[of[s]] + 1 => Head(queue[s]) = Due(s)
      /\ Queued(Head(queue[s]) + 1, Tail(queue[s]), lines[of[s]], k - 1)
  BY <1>1, <1>2, <1>3, <1>5, QueuedSend
<1>7. got'[s] # <<>> /\ got'[s][Len(got'[s])] = Head(queue[s])
  <2>1. got[s] \in Seq(Nat) /\ Head(queue[s]) \in Nat
    BY <1>2, <1>4
  <2> DEFINE h == Head(queue[s])
  <2> HIDE DEF h
  <2>2. Append(got[s], h) # <<>> /\ Append(got[s], h)[Len(Append(got[s], h))] = h
    BY <2>1, LastAppended DEF h
  <2> QED
    BY <1>2, <2>2 DEF h
<1>8. Due(s)' = Head(queue[s]) + 1
  BY <1>7 DEF Due
<1>9. DueNext(s)' = Head(queue[s]) + 1
  BY <1>1, <1>4, <1>8 DEF DueNext
<1>10. /\ k - 1 \in Nat
       /\ Queued(DueNext(s)', queue'[s], lines[of[s]], k - 1)
       /\ k - 1 < Len(queue'[s]) => Over(of[s])
       /\ s \notin lost => DueNext(s)' + (k - 1) = lines[of[s]] + 1
  BY <1>2, <1>3, <1>4, <1>5, <1>6, <1>9
<1> QED
  BY <1>1, <1>2, <1>5, <1>6, <1>8, <1>9, <1>10

\* The sentinel comes when the job is over and, unless the queue ran full, all is sent.
LEMMA SendEnd ==
  ASSUME TypeInv, NEW s \in Streams, StreamInv(s), Send(s), backlog[s] = <<>>,
         Head(queue[s]) = End
  PROVE  /\ at'[s] = "report" /\ Over(of[s]) /\ got'[s] = got[s] /\ backlog'[s] = <<>>
         /\ s \notin lost => Due(s) = lines[of[s]] + 1
<1>1. /\ at[s] = "reading" /\ Reads(s) /\ queue[s] # <<>>
      /\ at' = [at EXCEPT ![s] = "report"] /\ UNCHANGED <<got, backlog>>
  BY DEF Send, StreamInv
<1>2. /\ queue[s] \in Seq(Nat) /\ of[s] \in Jobs /\ lines[of[s]] \in Nat
      /\ Due(s) \in Nat \ {0} /\ DueNext(s) = Due(s) /\ Len(queue[s]) \in Nat \ {0}
  <2>1. of[s] \in Jobs
    BY <1>1, NoJobAssumption DEF TypeInv, TypeOK
  <2>2. Due(s) \in Nat \ {0} /\ DueNext(s) = Due(s)
    BY DueIsLine DEF DueNext
  <2>3. queue[s] \in Seq(Nat) /\ lines[of[s]] \in Nat
    BY <2>1, LineNumbers
  <2> QED
    BY <1>1, <2>1, <2>2, <2>3, HeadAndTail
<1>3. PICK k \in Nat : /\ Queued(Due(s), queue[s], lines[of[s]], k)
                       /\ k < Len(queue[s]) => Over(of[s])
                       /\ s \notin lost => Due(s) + k = lines[of[s]] + 1
  BY <1>1, <1>2 DEF Reads
<1>4. k = 0
  BY <1>1, <1>2, <1>3, QueuedLast
<1>5. at'[s] = "report"
  BY <1>1 DEF TypeInv, TypeOK
<1> QED
  BY <1>1, <1>2, <1>3, <1>4, <1>5

LEMMA SentMore ==
  ASSUME TypeInv, NEW s \in Streams, Sent(s), got'[s] = Append(got[s], Due(s)),
         s \in lost' <=> s \in lost, UNCHANGED <<of, lines>>
  PROVE  Sent(s)'
<1>1. got[s] \in Seq(Nat) /\ Due(s) \in Nat \ {0} /\ Len(got[s]) \in Nat
  BY LineNumbers, DueIsLine
<1> DEFINE g == Append(got[s], Due(s))
<1>2. /\ g # <<>> /\ Len(g) = Len(got[s]) + 1 /\ g[Len(got[s]) + 1] = Due(s)
      /\ \A i \in 1 .. Len(got[s]) : g[i] = got[s][i]
  BY <1>1
<1>3. got'[s] = g
  OBVIOUS
<1> HIDE DEF g
<1>4. First(s)' = First(s)
  <2>1. CASE got[s] = <<>>
    BY <1>2, <1>3, <2>1 DEF First
  <2>2. CASE got[s] # <<>>
    BY <1>1, <1>2, <1>3, <2>2 DEF First
  <2> QED
    BY <2>1, <2>2
<1>5. ASSUME s \notin lost, NEW i \in 1 .. Len(g) PROVE g[i] = First(s) + i - 1
  <2>1. CASE i \in 1 .. Len(got[s])
    BY <1>2, <1>5, <2>1 DEF Sent
  <2>2. CASE i = Len(got[s]) + 1 /\ got[s] = <<>>
    BY <1>1, <1>2, <2>2 DEF First
  <2>3. CASE i = Len(got[s]) + 1 /\ got[s] # <<>>
    <3>1. /\ Len(got[s]) \in 1 .. Len(got[s]) /\ Due(s) = got[s][Len(got[s])] + 1
          /\ got[s][1] \in Nat /\ First(s) = got[s][1]
      BY <1>1, <2>3 DEF Due, First
    <3>2. got[s][Len(got[s])] = First(s) + Len(got[s]) - 1
      BY <1>5, <3>1 DEF Sent
    <3> QED
      BY <1>1, <1>2, <2>3, <3>1, <3>2
  <2> QED
    BY <1>1, <1>2, <2>1, <2>2, <2>3
<1>6. s \notin lost => First(s) = 1 \/ lines[of[s]] > Buffer
  BY DEF Sent
<1> QED
  BY <1>3, <1>4, <1>5, <1>6 DEF Sent

LEMMA StreamSend ==
  ASSUME TypeInv, NEW s \in Streams, StreamInv(s), Send(s)
  PROVE  StreamInv(s)'
<1>1. at[s] = "reading" /\ Reads(s) /\ Sent(s) /\ UNCHANGED <<jobVars, of, lost, shown>>
  BY DEF Send, StreamInv
<1>2. /\ UNCHANGED <<pc, lines>> /\ of[s] \in Jobs /\ lines[of[s]] \in Nat
      /\ (Over(of[s])' <=> Over(of[s]))
  BY <1>1, LineNumbers, NoJobAssumption DEF jobVars, Over, TypeInv, TypeOK
<1>3. CASE backlog[s] # <<>>
  <2>1. /\ at'[s] = "reading" /\ queue'[s] = queue[s]
        /\ got'[s] = Append(got[s], Due(s))
        /\ Due(s)' = Due(s) + 1 /\ DueNext(s)' = DueNext(s)
        /\ backlog'[s] = Tail(backlog[s])
    BY <1>3, SendBacklog
  <2>2. Sent(s)'
    BY <1>1, <1>2, <2>1, SentMore
  <2>3. \A i \in 1 .. Len(backlog'[s]) : backlog'[s][i] = Due(s)' + i - 1
    <3> SUFFICES ASSUME NEW i \in 1 .. Len(Tail(backlog[s]))
                 PROVE  Tail(backlog[s])[i] = Due(s) + 1 + i - 1
      BY <2>1
    <3>1. /\ Tail(backlog[s])[i] = backlog[s][i + 1] /\ i + 1 \in 1 .. Len(backlog[s])
          /\ i \in Nat /\ Due(s) \in Nat
      BY <1>3, LineNumbers, HeadAndTail, DueIsLine
    <3> QED
      BY <1>1, <3>1 DEF Reads
  <2>4. Reads(s)'
    BY <1>1, <1>2, <2>1, <2>3 DEF Reads
  <2> QED
    BY <1>1, <2>1, <2>2, <2>4 DEF StreamInv
<1>4. CASE backlog[s] = <<>> /\ Head(queue[s]) # End
  <2>1. /\ at'[s] = "reading" /\ queue'[s] = Tail(queue[s]) /\ queue[s] # <<>>
        /\ Head(queue[s]) \in Due(s) .. lines[of[s]]
        /\ s \notin lost => Head(queue[s]) = Due(s)
        /\ got'[s] = Append(got[s], Head(queue[s]))
        /\ DueNext(s)' = Head(queue[s]) + 1
        /\ backlog'[s] = <<>>
        /\ \E k \in Nat : /\ Queued(DueNext(s)', queue'[s], lines[of[s]], k)
                          /\ k < Len(queue'[s]) => Over(of[s])
                          /\ s \notin lost => DueNext(s)' + k = lines[of[s]] + 1
    BY <1>4, SendQueue
  <2>2. Sent(s)'
    <3>1. CASE s \in lost
      BY <1>1, <3>1 DEF Sent
    <3>2. CASE s \notin lost
      BY <1>1, <1>2, <2>1, <3>2, SentMore
    <3> QED
      BY <3>1, <3>2
  <2>3. Over(of[s]) => queue'[s] # <<>> /\ queue'[s][Len(queue'[s])] = End
    <3> SUFFICES ASSUME Over(of[s])
                 PROVE  /\ Tail(queue[s]) # <<>>
                        /\ Tail(queue[s])[Len(Tail(queue[s]))] = End
      BY <2>1
    <3>1. queue[s][Len(queue[s])] = End
      BY <1>1 DEF Reads
    <3>2. /\ Head(queue[s]) = queue[s][1] /\ Len(queue[s]) \in Nat \ {0}
          /\ Tail(queue[s]) \in Seq(Nat) /\ Len(Tail(queue[s])) = Len(queue[s]) - 1
          /\ \A i \in 1 .. Len(queue[s]) - 1 : Tail(queue[s])[i] = queue[s][i + 1]
      BY <2>1, LineNumbers, HeadAndTail
    <3>3. Len(queue[s]) # 1
      BY <1>4, <3>1, <3>2
    <3>4. Len(queue[s]) - 1 \in 1 .. Len(queue[s]) - 1 /\ (Len(queue[s]) - 1) + 1 = Len(queue[s])
      <4>1. ASSUME NEW n \in Nat \ {0}, n # 1 PROVE n - 1 \in 1 .. n - 1 /\ (n - 1) + 1 = n
        BY <4>1
      <4> QED
        BY <3>2, <3>3, <4>1
    <3>5. Tail(queue[s])[Len(queue[s]) - 1] = End
      BY <3>1, <3>2, <3>4
    <3>6. Len(Tail(queue[s])) # 0
      <4>1. ASSUME NEW n \in Nat \ {0}, n # 1 PROVE n - 1 # 0
        BY <4>1
      <4> QED
        BY <3>2, <3>3, <4>1
    <3>7. Tail(queue[s]) # <<>>
      <4>1. Len(<<>>) = 0
        OBVIOUS
      <4> DEFINE t == Tail(queue[s])
      <4> HIDE DEF t
      <4>2. Len(t) # 0
        BY <3>6 DEF t
      <4>3. t # <<>>
        BY <4>1, <4>2
      <4> QED
        BY <4>3 DEF t
    <3> QED
      BY <3>2, <3>5, <3>7
  <2>4. Reads(s)'
    <3>1. DueNext(s)' <= lines[of[s]] + 1
      BY <1>2, <2>1, DueIsLine
    <3>2. \A i \in 1 .. Len(backlog'[s]) : backlog'[s][i] = Due(s)' + i - 1
      BY <2>1
    <3> QED
      BY <1>1, <1>2, <2>1, <2>3, <3>1, <3>2 DEF Reads
  <2> QED
    BY <1>1, <2>1, <2>2, <2>4 DEF StreamInv
<1>5. CASE backlog[s] = <<>> /\ Head(queue[s]) = End
  <2>1. /\ at'[s] = "report" /\ Over(of[s]) /\ got'[s] = got[s] /\ backlog'[s] = <<>>
        /\ s \notin lost => Due(s) = lines[of[s]] + 1
    BY <1>5, SendEnd
  <2>2. Due(s)' = Due(s) /\ First(s)' = First(s)
    BY <1>5, <2>1 DEF Due, First
  <2>3. Sent(s)'
    BY <1>1, <1>2, <2>1, <2>2 DEF Sent
  <2> QED
    BY <1>1, <1>2, <2>1, <2>2, <2>3 DEF StreamInv
<1> QED
  BY <1>3, <1>4, <1>5

LEMMA StreamSubscribe ==
  ASSUME TypeInv, BufferInv, NEW s \in Streams, StreamInv(s), NEW j \in Jobs, Subscribe(s, j)
  PROVE  /\ of'[s] = j /\ backlog'[s] = buf[j] /\ got'[s] = <<>> /\ s \notin lost'
         /\ at'[s] = (IF j \in ram THEN "reading" ELSE "empty")
         /\ DueNext(s)' \in Nat
         /\ j \notin ram => Due(s)' = 1
         /\ j \in ram => /\ DueNext(s)' = lines[j] + 1
                         /\ Due(s)' = IF lines[j] > Buffer THEN lines[j] - Buffer + 1 ELSE 1
         /\ StreamInv(s)'
<1>1. /\ at[s] = "idle" /\ got[s] = <<>> /\ s \notin lost
      /\ of'[s] = j /\ backlog'[s] = buf[j] /\ got'[s] = <<>> /\ s \notin lost'
      /\ at'[s] = (IF j \in ram THEN "reading" ELSE "empty")
      /\ queue'[s] = (IF j \in finalized THEN PutEnd(<<>>) ELSE <<>>)
      /\ UNCHANGED <<pc, lines, ram>>
  BY DEF Subscribe, StreamInv, TypeInv, TypeOK, jobVars
<1>2. buf[j] \in Seq(Nat) /\ lines[j] \in Nat /\ Len(buf[j]) \in Nat /\ Buffer \in Nat \ {0}
  BY LineNumbers, BoundAssumption
<1>3. Due(s)' = IF buf[j] # <<>> THEN Head(buf[j]) ELSE 1
  BY <1>1 DEF Due
<1>4. CASE j \notin ram
  <2>1. buf[j] = <<>>
    BY <1>4 DEF BufferInv
  <2>2. DueNext(s)' \in Nat
    BY <1>1, <1>3, <2>1 DEF DueNext
  <2>3. Due(s)' = 1
    BY <1>3, <2>1
  <2> QED
    BY <1>1, <1>4, <2>2, <2>3 DEF StreamInv
<1>5. CASE j \in ram
  <2>1. /\ Len(buf[j]) = IF lines[j] < Buffer THEN lines[j] ELSE Buffer
        /\ \A i \in 1 .. Len(buf[j]) : buf[j][i] + Len(buf[j]) = lines[j] + i
    BY <1>5 DEF BufferInv, Kept
  <2> DEFINE d == IF lines[j] > Buffer THEN lines[j] - Buffer + 1 ELSE 1
  <2>2. d + Len(buf[j]) = lines[j] + 1 /\ d \in Nat \ {0}
    BY <1>2, <2>1
  <2>3. Due(s)' = d
    <3>1. CASE buf[j] = <<>>
      BY <1>2, <1>3, <2>1, <3>1
    <3>2. CASE buf[j] # <<>>
      <4>1. Head(buf[j]) = buf[j][1] /\ buf[j][1] \in Nat /\ 1 \in 1 .. Len(buf[j])
        BY <1>2, <3>2, HeadAndTail
      <4>2. buf[j][1] + Len(buf[j]) = lines[j] + 1
        BY <2>1, <4>1
      <4> QED
        BY <1>2, <1>3, <2>2, <3>2, <4>1, <4>2
    <3> QED
      BY <3>1, <3>2
  <2>4. \A i \in 1 .. Len(buf[j]) : buf[j][i] = d + i - 1
    <3> SUFFICES ASSUME NEW i \in 1 .. Len(buf[j]) PROVE buf[j][i] = d + i - 1
      OBVIOUS
    <3>1. buf[j][i] \in Nat /\ i \in Nat /\ buf[j][i] + Len(buf[j]) = lines[j] + i
      BY <1>2, <2>1
    <3> HIDE DEF d
    <3>2. d \in Nat /\ d + Len(buf[j]) = lines[j] + 1
      BY <2>2
    <3> DEFINE x == buf[j][i]
               l == Len(buf[j])
    <3>3. x \in Nat /\ l \in Nat /\ x + l = lines[j] + i /\ d + l = lines[j] + 1
      BY <1>2, <3>1, <3>2
    <3> HIDE DEF x, l
    <3>4. x = d + i - 1
      BY <1>2, <3>1, <3>2, <3>3
    <3> QED
      BY <3>4 DEF x
  <2>5. d = 1 \/ lines[j] > Buffer
    OBVIOUS
  <2> HIDE DEF d
  <2>6. DueNext(s)' = lines[j] + 1
    BY <1>1, <2>2, <2>3 DEF DueNext
  <2>7. Sent(s)'
    BY <1>1, <2>3, <2>5 DEF Sent, First
  <2> DEFINE q == IF j \in finalized THEN PutEnd(<<>>) ELSE <<>>
  <2>8. /\ Queued(lines[j] + 1, q, lines[j], 0)
        /\ 0 < Len(q) => Over(j)'
        /\ Over(j)' => q # <<>> /\ q[Len(q)] = End
    <3>1. Rising(lines[j] + 1, q, lines[j], 0)
      BY DEF Rising
    <3>2. CASE j \in finalized
      <4>1. q = <<End>> /\ Over(j)'
        BY <1>1, <3>2, BoundAssumption DEF PutEnd, Over, TypeInv
      <4>2. Len(<<End>>) = 1 /\ <<End>>[1] = End /\ <<End>> # <<>>
        OBVIOUS
      <4> HIDE DEF q
      <4>3. Len(q) = 1 /\ q[1] = End /\ q # <<>>
        BY <4>1, <4>2
      <4> QED
        BY <3>1, <4>1, <4>3 DEF Queued
    <3>3. CASE j \notin finalized
      <4>1. q = <<>> /\ ~Over(j)'
        BY <1>1, <1>5, <3>3 DEF Over, TypeInv, Held
      <4>2. Len(q) = 0
        BY <4>1
      <4> HIDE DEF q
      <4> QED
        BY <3>1, <4>1, <4>2 DEF Queued
    <3> QED
      BY <3>2, <3>3
  <2>9. queue'[s] = q
    BY <1>1
  <2> HIDE DEF q
  <2>10. \E k \in Nat : /\ Queued(DueNext(s)', q, lines'[j], k)
                        /\ k < Len(q) => Over(j)'
                        /\ s \notin lost' => DueNext(s)' + k = lines'[j] + 1
    BY <1>1, <1>2, <2>6, <2>8
  <2>11. Reads(s)'
    BY <1>1, <1>2, <2>3, <2>4, <2>6, <2>8, <2>9, <2>10 DEF Reads
  <2> QED
    BY <1>1, <1>2, <1>5, <2>3, <2>6, <2>7, <2>11 DEF StreamInv, d
<1> QED
  BY <1>4, <1>5

-----------------------------------------------------------------------------

\* A step of stream s is no business of another one.
LEMMA OtherStream ==
  ASSUME TypeInv, NEW s \in Streams, NEW r \in Streams, r # s, StreamInv(r),
         Send(s) \/ Disconnect(s) \/ Report(s) \/ \E j \in Jobs : Subscribe(s, j)
  PROVE  StreamInv(r)'
<1>1. UNCHANGED <<pc, lines, lost>>
  BY DEF Send, Disconnect, Report, Subscribe, jobVars
<1>2. /\ at'[r] = at[r] /\ of'[r] = of[r] /\ backlog'[r] = backlog[r]
      /\ queue'[r] = queue[r] /\ got'[r] = got[r] /\ shown'[r] = shown[r]
  BY DEF Send, Disconnect, Report, Subscribe, TypeInv, TypeOK
<1>3. Over(of[r])' <=> Over(of[r])
  BY <1>1, <1>2 DEF Over
<1> QED
  BY <1>1, <1>2, <1>3, StreamFrame

LEMMA JobFrame ==
  ASSUME TypeInv, NEW s \in Streams, StreamInv(s), NEW j \in Jobs,
         Request(j) \/ Insert(j) \/ Register(j) \/ Run(j) \/ Finish(j)
         \/ Cancel(j) \/ Save(j) \/ SaveFails(j) \/ Trim(j)
  PROVE  StreamInv(s)'
<1>1. UNCHANGED <<at, of, backlog, queue, got, lost, shown, lines>>
  BY DEF Request, Insert, Register, Run, Finish, Cancel, Save, SaveFails, Trim, streamVars
<1>2. \A i \in Jobs : Over(i)' <=> Over(i)
  <2> USE DEF TypeInv, TypeOK, Over, Goto
  <2>1. CASE Request(j)
    BY <2>1 DEF Request
  <2>2. CASE Cancel(j)
    <3>1. /\ pc' = [pc EXCEPT ![j] = "saving"] \/ pc' = [pc EXCEPT ![j] = "abandoned"]
          /\ Live(j)
      BY <2>2 DEF Cancel
    <3> QED
      BY <3>1 DEF Live
  <2>3. CASE Insert(j) \/ Register(j) \/ Run(j) \/ Finish(j) \/ Save(j) \/ SaveFails(j) \/ Trim(j)
    BY <2>3 DEF Insert, Register, Run, Finish, Save, SaveFails, Trim
  <2> QED
    BY <2>1, <2>2, <2>3
<1>3. at[s] \in {"reading", "report"} => of[s] \in Jobs
  BY NoJobAssumption DEF TypeInv, TypeOK
<1> QED
  BY <1>1, <1>2, <1>3, StreamFrame

LEMMA StreamStep ==
  ASSUME StreamsInv, NEW s \in Streams, [Next]_vars
  PROVE  StreamInv(s)'
<1> USE DEF StreamsInv
<1>1. CASE UNCHANGED vars
  <2>1. UNCHANGED <<at, of, backlog, queue, got, lost, shown, lines, pc>>
    BY <1>1 DEF vars, jobVars, streamVars
  <2> QED
    BY <2>1, StreamFrame DEF Over
<1>2. ASSUME NEW j \in Jobs, Request(j) \/ Insert(j) \/ Register(j) \/ Run(j) \/ Finish(j)
                             \/ Cancel(j) \/ Save(j) \/ SaveFails(j) \/ Trim(j)
      PROVE  StreamInv(s)'
  BY <1>2, JobFrame
<1>3. ASSUME NEW j \in Jobs, Finalize(j) \/ Drain(j) PROVE StreamInv(s)'
  <2>1. /\ Signal(j) /\ UNCHANGED <<at, of, lines, backlog, got, shown>> /\ j \in ram
        /\ \A i \in Jobs : i # j => pc'[i] = pc[i]
        /\ Over(j)'
    BY <1>3 DEF Finalize, Drain, Goto, Over, TypeInv, TypeOK, Held
  <2> QED
    BY <2>1, StreamSignal
<1>4. ASSUME NEW j \in Jobs, Line(j) PROVE StreamInv(s)'
  BY <1>4, StreamLine
<1>5. ASSUME NEW r \in Streams, r # s, Send(r) \/ Disconnect(r) \/ Report(r)
                                       \/ \E j \in Jobs : Subscribe(r, j)
      PROVE  StreamInv(s)'
  BY <1>5, OtherStream
<1>6. CASE Send(s)
  BY <1>6, StreamSend
<1>7. CASE Disconnect(s) \/ Report(s)
  BY <1>7 DEF Disconnect, Report, StreamInv, TypeInv, TypeOK
<1>8. ASSUME NEW j \in Jobs, Subscribe(s, j) PROVE StreamInv(s)'
  BY <1>8, StreamSubscribe
<1>9. CASE Restart
  BY <1>9 DEF Restart, StreamInv, TypeInv, TypeOK
<1> QED
  BY <1>1, <1>2, <1>3, <1>4, <1>5, <1>6, <1>7, <1>8, <1>9 DEF Next, Task

LEMMA StreamsInit == ASSUME Init PROVE StreamsInv
<1>1. TypeInv /\ RowInv
  BY TypeInit, RowInit
<1>2. BufferInv
  BY DEF Init, BufferInv
<1>3. \A s \in Streams : StreamInv(s)
  BY DEF Init, StreamInv
<1> QED
  BY <1>1, <1>2, <1>3 DEF StreamsInv

LEMMA StreamsStep == ASSUME StreamsInv, [Next]_vars PROVE StreamsInv'
<1>1. TypeInv' /\ RowInv' /\ BufferInv'
  BY TypeStep, RowStep, BufferStep DEF StreamsInv
<1>2. ASSUME NEW s \in Streams PROVE StreamInv(s)'
  BY StreamStep
<1> QED
  BY <1>1, <1>2 DEF StreamsInv

LEMMA StreamsAlways == Spec => []StreamsInv
<1>1. Init => StreamsInv
  BY StreamsInit
<1>2. StreamsInv /\ [Next]_vars => StreamsInv'
  BY StreamsStep
<1> QED
  BY <1>1, <1>2, PTL DEF Spec

\* The state of jobs and streams stays within its types and bounds: no buffer keeps more
\* than its number of lines and no queue holds more than its size, sentinels included.
THEOREM JobsTyped == Spec => []TypeOK
<1>1. StreamsInv => TypeOK
  BY DEF StreamsInv, TypeInv
<1> QED
  BY <1>1, StreamsAlways, PTL

\* Whatever lines, sentinels, timers, viewers and restarts do in between, a viewer whose
\* queue never ran full has seen every line from the oldest one in his snapshot to the
\* last one of the job when he is told that it is over.
THEOREM LinesKept == Spec => []NoLineLost
<1>1. StreamsInv => NoLineLost
  <2> SUFFICES ASSUME StreamsInv, NEW s \in Streams, at[s] = "report", s \notin lost
               PROVE  \E first \in 1 .. lines[of[s]] + 1 :
                        /\ got[s] = [i \in 1 .. lines[of[s]] + 1 - first |-> first + i - 1]
                        /\ first > 1 => lines[of[s]] > Buffer
    BY DEF NoLineLost
  <2>1. /\ \A i \in 1 .. Len(got[s]) : got[s][i] = First(s) + i - 1
        /\ First(s) = 1 \/ lines[of[s]] > Buffer
        /\ Due(s) = lines[of[s]] + 1 /\ backlog[s] = <<>>
    BY DEF StreamsInv, StreamInv, Sent
  <2>2. got[s] \in Seq(Nat) /\ Len(got[s]) \in Nat /\ Due(s) \in Nat \ {0} /\ lines[of[s]] \in Nat
    <3>1. of[s] \in Jobs
      BY NoJobAssumption DEF StreamsInv, TypeInv, TypeOK
    <3> QED
      BY <3>1, LineNumbers, DueIsLine DEF StreamsInv
  <2>3. First(s) \in 1 .. lines[of[s]] + 1 /\ Len(got[s]) = lines[of[s]] + 1 - First(s)
    <3>1. CASE got[s] = <<>>
      BY <2>1, <2>2, <3>1 DEF First
    <3>2. CASE got[s] # <<>>
      <4>1. /\ Len(got[s]) \in 1 .. Len(got[s]) /\ Due(s) = got[s][Len(got[s])] + 1
            /\ First(s) = got[s][1]
        BY <2>2, <3>2 DEF Due, First
      <4>2. got[s][Len(got[s])] = First(s) + Len(got[s]) - 1
        BY <2>1, <4>1
      <4>3. got[s][1] \in 1 .. MaxLines
        <5>1. got[s] \in Seq(1 .. MaxLines)
          BY DEF StreamsInv, TypeInv, TypeOK
        <5> QED
          BY <3>2, <5>1, HeadAndTail
      <4>4. First(s) \in Nat \ {0}
        BY <4>1, <4>3
      <4> QED
        <5> DEFINE f == First(s)
                   l == Len(got[s])
                   n == lines[of[s]]
        <5>1. f \in Nat \ {0} /\ l \in Nat \ {0} /\ n \in Nat
          BY <2>2, <3>2, <4>1, <4>4
        <5>2. (f + l - 1) + 1 = n + 1
          BY <2>1, <4>1, <4>2
        <5> HIDE DEF f, l, n
        <5>3. f \in 1 .. n + 1 /\ l = n + 1 - f
          BY <5>1, <5>2
        <5> QED
          BY <5>3 DEF f, l, n
    <3> QED
      BY <3>1, <3>2
  <2>4. got[s] = [i \in 1 .. lines[of[s]] + 1 - First(s) |-> First(s) + i - 1]
    <3>1. got[s] = [i \in 1 .. Len(got[s]) |-> got[s][i]]
      BY <2>2
    <3> QED
      BY <2>1, <2>3, <3>1
  <2>5. First(s) > 1 => lines[of[s]] > Buffer
    BY <2>1, <2>3
  <2> QED
    BY <2>3, <2>4, <2>5
<1> QED
  BY <1>1, StreamsAlways, PTL

\* A viewer is only told that a job is over when its result has been written: the row says
\* running no more.
THEOREM EndIsFinal == Spec => []DoneIsFinal
<1>1. StreamsInv => DoneIsFinal
  <2> SUFFICES ASSUME StreamsInv, NEW s \in Streams, at[s] = "report" PROVE row[of[s]] # "running"
    BY DEF DoneIsFinal
  <2>1. of[s] \in Jobs /\ Over(of[s])
    BY NoJobAssumption DEF StreamsInv, StreamInv, TypeInv, TypeOK
  <2> QED
    BY <2>1 DEF StreamsInv, RowInv, RowOwned, Live, Over
<1> QED
  BY <1>1, StreamsAlways, PTL

\* Whatever fills the queues, a stream of a job that is over still has a sentinel to read:
\* no viewer can be left to wait for an end that was thrown away (_put_sentinel).
SentinelAhead ==
  \A s \in Streams : at[s] = "reading" /\ Over(of[s]) =>
    queue[s] # <<>> /\ queue[s][Len(queue[s])] = End

\* The end of a log is never dropped from a queue, for any size of queue.
THEOREM SentinelsKept == Spec => []SentinelAhead
<1>1. StreamsInv => SentinelAhead
  BY DEF StreamsInv, StreamInv, Reads, SentinelAhead
<1> QED
  BY <1>1, StreamsAlways, PTL

-----------------------------------------------------------------------------
(* JobManager implements LogStream.                                        *)

\* A job is followed only from the time its row is seen.
FollowInv ==
  /\ \A j \in Jobs : pc[j] \in {"new", "refused", "inserting"} => row[j] = "absent"
  /\ \A s \in Streams : Followed(s) => pc[of[s]] \notin {"new", "refused", "inserting"}

LEMMA FollowInit == ASSUME Init PROVE FollowInv
  BY DEF Init, FollowInv, Followed

LEMMA FollowStep == ASSUME TypeInv, FollowInv, [Next]_vars PROVE FollowInv'
<1> USE NoJobAssumption DEF FollowInv, Followed, TypeInv, TypeOK, Goto, Stages
<1>1. CASE UNCHANGED vars
  BY <1>1 DEF vars, jobVars, streamVars
<1>2. ASSUME NEW j \in Jobs, Request(j) \/ Insert(j) \/ Register(j) \/ Run(j) \/ Finish(j)
      PROVE  FollowInv'
  <2>1. CASE Request(j)
    <3>1. /\ pc[j] = "new" /\ UNCHANGED <<row, of>>
          /\ pc' = [pc EXCEPT ![j] = "refused"] \/ pc' = [pc EXCEPT ![j] = "inserting"]
      BY <2>1 DEF Request, streamVars
    <3> QED
      BY <3>1
  <2>2. CASE Insert(j)
    BY <2>2 DEF Insert, streamVars
  <2>3. CASE Register(j) \/ Run(j) \/ Finish(j)
    BY <2>3 DEF Register, Run, Finish, streamVars
  <2> QED
    BY <1>2, <2>1, <2>2, <2>3
<1>3. ASSUME NEW j \in Jobs, Cancel(j) PROVE FollowInv'
  <2>1. /\ pc' = [pc EXCEPT ![j] = "saving"] \/ pc' = [pc EXCEPT ![j] = "abandoned"]
        /\ Live(j) /\ UNCHANGED <<row, of>>
    BY <1>3 DEF Cancel, streamVars
  <2> QED
    BY <2>1 DEF Live
<1>4. ASSUME NEW j \in Jobs, Save(j) \/ SaveFails(j) \/ Finalize(j) \/ Drain(j) \/ Line(j)
                             \/ Trim(j)
      PROVE  FollowInv'
  <2>1. CASE Save(j)
    <3>1. /\ pc[j] = "saving" /\ pc' = [pc EXCEPT ![j] = "saved"] /\ UNCHANGED of
          /\ \A i \in Jobs : i # j => row'[i] = row[i]
      BY <2>1 DEF Save, streamVars
    <3> QED
      BY <3>1
  <2>2. CASE SaveFails(j) \/ Finalize(j) \/ Drain(j) \/ Line(j) \/ Trim(j)
    BY <2>2 DEF SaveFails, Finalize, Drain, Line, Trim, streamVars, Final
  <2> QED
    BY <1>4, <2>1, <2>2
<1>5. ASSUME NEW s \in Streams, Send(s) \/ Disconnect(s) \/ Report(s) PROVE FollowInv'
  BY <1>5 DEF Send, Disconnect, Report, jobVars
<1>6. ASSUME NEW s \in Streams, NEW j \in Jobs, Subscribe(s, j) PROVE FollowInv'
  <2>1. /\ of' = [of EXCEPT ![s] = j] /\ UNCHANGED <<pc, row>>
        /\ pc[j] \notin {"new", "refused", "inserting"}
    BY <1>6 DEF Subscribe, jobVars
  <2> QED
    BY <2>1
<1>7. CASE Restart
  BY <1>7 DEF Restart, Heal
<1> QED
  BY <1>1, <1>2, <1>3, <1>4, <1>5, <1>6, <1>7 DEF Next, Task

\* A step that leaves all that a viewer is promised as it was.
LEMMA SameView ==
  ASSUME NEW s \in Streams, at'[s] = at[s], of'[s] = of[s], backlog'[s] = backlog[s],
         got'[s] = got[s], shown'[s] = shown[s], (s \in lost') = (s \in lost),
         Followed(s) => lines'[of[s]] = lines[of[s]] /\ row'[of[s]] = row[of[s]]
  PROVE  UNCHANGED Viewer(s)!vars
<1>1. Due(s)' = Due(s)
  BY DEF Due
<1> QED
  BY <1>1 DEF Viewer!vars, Phase, Followed

LEMMA ViewStep ==
  ASSUME StreamsInv, FollowInv, NEW s \in Streams, [Next]_vars
  PROVE  [Viewer(s)!Next]_(Viewer(s)!vars)
<1> USE DEF StreamsInv
<1>0. Followed(s) => /\ of[s] \in Jobs /\ at[s] # "idle" /\ lines[of[s]] \in Nat
  BY LineNumbers, NoJobAssumption DEF Followed, TypeInv, TypeOK
<1>1. CASE UNCHANGED vars
  <2>1. UNCHANGED <<at, of, backlog, queue, got, lost, shown, lines, row>>
    BY <1>1 DEF vars, jobVars, streamVars
  <2> QED
    BY <2>1, SameView
<1>2. ASSUME NEW j \in Jobs, Request(j) \/ Register(j) \/ Run(j) \/ Finish(j) \/ Cancel(j)
                             \/ SaveFails(j)
      PROVE  UNCHANGED Viewer(s)!vars
  <2>1. UNCHANGED <<at, of, backlog, got, lost, shown, lines, row>>
    BY <1>2 DEF Request, Register, Run, Finish, Cancel, SaveFails, streamVars
  <2> QED
    BY <2>1, SameView
<1>3. ASSUME NEW j \in Jobs, Insert(j) PROVE UNCHANGED Viewer(s)!vars
  <2>1. /\ UNCHANGED <<at, of, backlog, got, lost, shown, lines>>
        /\ pc[j] = "inserting" /\ row' = [row EXCEPT ![j] = "running"]
    BY <1>3 DEF Insert, streamVars
  <2>2. Followed(s) => row'[of[s]] = row[of[s]]
    BY <1>0, <2>1 DEF FollowInv, TypeInv, TypeOK
  <2> QED
    BY <2>1, <2>2, SameView
<1>4. ASSUME NEW j \in Jobs, Save(j) PROVE [Viewer(s)!Next]_(Viewer(s)!vars)
  <2>1. /\ UNCHANGED <<at, of, backlog, got, lost, shown, lines>>
        /\ row[j] = "running" /\ outcome[j] \in Final /\ row' = [row EXCEPT ![j] = outcome[j]]
    BY <1>4 DEF Save, streamVars, BufferInv, TypeInv, TypeOK
  <2>2. CASE Followed(s) /\ of[s] = j
    <3>1. Due(s)' = Due(s) /\ row'[of[s]] = outcome[j] /\ Phase(s) # "idle"
      BY <1>0, <2>1, <2>2 DEF Due, Phase, TypeInv, TypeOK
    <3>2. Viewer(s)!Finish
      BY <2>1, <2>2, <3>1 DEF Viewer!Finish, Phase, Followed
    <3> QED
      BY <3>2 DEF Viewer!Next
  <2>3. CASE ~(Followed(s) /\ of[s] = j)
    <3>1. Followed(s) => row'[of[s]] = row[of[s]]
      BY <2>1, <2>3 DEF TypeInv, TypeOK
    <3> QED
      BY <2>1, <3>1, SameView
  <2> QED
    BY <2>2, <2>3
<1>5. ASSUME NEW j \in Jobs, Trim(j) PROVE [Viewer(s)!Next]_(Viewer(s)!vars)
  <2>1. /\ UNCHANGED <<at, of, backlog, got, lost, shown, lines>>
        /\ row[j] \in Final /\ row' = [row EXCEPT ![j] = "absent"]
    BY <1>5 DEF Trim, streamVars
  <2>2. CASE Followed(s) /\ of[s] = j
    <3>1. Due(s)' = Due(s) /\ row'[of[s]] = "absent"
      BY <1>0, <2>1, <2>2 DEF Due, TypeInv, TypeOK
    <3>2. Viewer(s)!Forget
      BY <2>1, <2>2, <3>1 DEF Viewer!Forget, Phase, Followed
    <3> QED
      BY <3>2 DEF Viewer!Next
  <2>3. CASE ~(Followed(s) /\ of[s] = j)
    <3>1. Followed(s) => row'[of[s]] = row[of[s]]
      BY <2>1, <2>3 DEF TypeInv, TypeOK
    <3> QED
      BY <2>1, <3>1, SameView
  <2> QED
    BY <2>2, <2>3
<1>6. ASSUME NEW j \in Jobs, Line(j) PROVE [Viewer(s)!Next]_(Viewer(s)!vars)
  <2>1. /\ UNCHANGED <<at, of, backlog, got, shown, row>>
        /\ lines' = [lines EXCEPT ![j] = lines[j] + 1] /\ lost' = lost \cup Overflowing(j)
        /\ row[j] = "running"
    BY <1>6 DEF Line, BufferInv
  <2>2. s \in Overflowing(j) => at[s] = "reading" /\ of[s] = j /\ Followed(s)
    BY NoJobAssumption DEF Overflowing, Attached, Followed
  <2>3. CASE Followed(s) /\ of[s] = j
    <3>1. Due(s)' = Due(s) /\ lines'[of[s]] = lines[of[s]] + 1 /\ Phase(s) # "idle"
      BY <1>0, <2>1, <2>3 DEF Due, Phase, TypeInv, TypeOK
    <3>2. (s \in lost') = (s \in lost \/ (Phase(s) = "open" /\ s \in lost'))
      BY <2>1, <2>2 DEF Phase
    <3>3. Viewer(s)!Write
      BY <2>1, <2>3, <3>1, <3>2 DEF Viewer!Write, Phase, Followed
    <3> QED
      BY <3>3 DEF Viewer!Next
  <2>4. CASE ~(Followed(s) /\ of[s] = j)
    <3>1. (s \in lost') = (s \in lost) /\ (Followed(s) => lines'[of[s]] = lines[of[s]])
      BY <2>1, <2>2, <2>4 DEF TypeInv, TypeOK
    <3> QED
      BY <2>1, <3>1, SameView
  <2> QED
    BY <2>3, <2>4
<1>7. ASSUME NEW j \in Jobs, Finalize(j) \/ Drain(j) PROVE [Viewer(s)!Next]_(Viewer(s)!vars)
  <2>1. /\ UNCHANGED <<at, of, backlog, got, shown, row, lines>>
        /\ lost' = lost \cup Overflowing(j) /\ row[j] # "running"
    BY <1>7 DEF Finalize, Drain, Signal, RowInv, RowOwned, Saved, Live
  <2>2. CASE s \in Overflowing(j)
    <3>1. at[s] = "reading" /\ of[s] = j /\ Followed(s) /\ s \in lost'
      BY <2>1, <2>2, NoJobAssumption DEF Overflowing, Attached, Followed
    <3>2. Due(s)' = Due(s)
      BY <2>1 DEF Due
    <3>3. Viewer(s)!Skip
      BY <2>1, <3>1, <3>2 DEF Viewer!Skip, Phase, Followed
    <3> QED
      BY <3>3 DEF Viewer!Next
  <2>3. CASE s \notin Overflowing(j)
    <3>1. (s \in lost') = (s \in lost)
      BY <2>1, <2>3
    <3> QED
      BY <2>1, <3>1, SameView
  <2> QED
    BY <2>2, <2>3
<1>8. ASSUME NEW r \in Streams, r # s, Send(r) \/ Disconnect(r) \/ Report(r)
                                       \/ \E j \in Jobs : Subscribe(r, j)
      PROVE  UNCHANGED Viewer(s)!vars
  <2>1. UNCHANGED <<row, lines, lost>>
    BY <1>8 DEF Send, Disconnect, Report, Subscribe, jobVars
  <2>2. /\ at'[s] = at[s] /\ of'[s] = of[s] /\ backlog'[s] = backlog[s]
        /\ got'[s] = got[s] /\ shown'[s] = shown[s]
    BY <1>8 DEF Send, Disconnect, Report, Subscribe, TypeInv, TypeOK
  <2> QED
    BY <2>1, <2>2, SameView
<1>9. CASE Send(s)
  <2>1. /\ at[s] = "reading" /\ Followed(s) /\ UNCHANGED <<of, shown, lost, lines, row>>
        /\ at' = [at EXCEPT ![s] = at'[s]]
    BY <1>9 DEF Send, jobVars, Followed, TypeInv, TypeOK
  <2>2. CASE backlog[s] # <<>> \/ Head(queue[s]) # End
    <3>1. PICK n \in Due(s) .. lines[of[s]] :
            /\ at'[s] = "reading" /\ got'[s] = Append(got[s], n) /\ Due(s)' = n + 1
            /\ s \in lost \/ n = Due(s)
      <4>1. CASE backlog[s] # <<>>
        <5>1. /\ at'[s] = "reading" /\ got'[s] = Append(got[s], Due(s))
              /\ Due(s) <= lines[of[s]] /\ Due(s)' = Due(s) + 1
          BY <1>9, <4>1, SendBacklog
        <5>2. Due(s) \in Due(s) .. lines[of[s]]
          BY <1>0, <2>1, <5>1, DueIsLine
        <5> QED
          BY <5>1, <5>2
      <4>2. CASE backlog[s] = <<>>
        BY <1>9, <2>2, <4>2, SendQueue
      <4> QED
        BY <4>1, <4>2
    <3>2. Viewer(s)!Show
      BY <2>1, <3>1 DEF Viewer!Show, Phase, Followed
    <3> QED
      BY <3>2 DEF Viewer!Next
  <2>3. CASE backlog[s] = <<>> /\ Head(queue[s]) = End
    <3>1. /\ at'[s] = "report" /\ Over(of[s]) /\ got'[s] = got[s] /\ backlog'[s] = <<>>
          /\ s \notin lost => Due(s) = lines[of[s]] + 1
      BY <1>9, <2>3, SendEnd
    <3>2. Due(s)' = Due(s)
      BY <2>3, <3>1 DEF Due
    <3>3. row[of[s]] # "running"
      BY <1>0, <2>1, <3>1 DEF Over, RowInv, RowOwned, Live
    <3>4. Viewer(s)!End
      BY <2>1, <3>1, <3>2, <3>3 DEF Viewer!End, Phase, Followed
    <3> QED
      BY <3>4 DEF Viewer!Next
  <2> QED
    BY <2>2, <2>3
<1>10. CASE Disconnect(s)
  <2>1. /\ at[s] = "reading" /\ at'[s] = "left"
        /\ UNCHANGED <<of, backlog, got, lost, shown, row, lines>>
    BY <1>10 DEF Disconnect, jobVars, TypeInv, TypeOK
  <2>2. Due(s)' = Due(s)
    BY <2>1 DEF Due
  <2>3. Viewer(s)!Leave
    BY <2>1, <2>2 DEF Viewer!Leave, Phase, Followed
  <2> QED
    BY <2>3 DEF Viewer!Next
<1>11. CASE Report(s)
  <2>1. /\ at[s] \in {"report", "empty"} /\ at'[s] = "closed" /\ Followed(s)
        /\ UNCHANGED <<of, backlog, got, lost, row, lines>>
        /\ shown'[s] = IF row[of[s]] = "absent" THEN "unknown" ELSE row[of[s]]
    BY <1>11 DEF Report, jobVars, Followed, TypeInv, TypeOK
  <2>2. Due(s)' = Due(s)
    BY <2>1 DEF Due
  <2>3. Viewer(s)!Tell
    BY <2>1, <2>2 DEF Viewer!Tell, Phase, Followed
  <2> QED
    BY <2>3 DEF Viewer!Next
<1>12. ASSUME NEW j \in Jobs, Subscribe(s, j) PROVE [Viewer(s)!Next]_(Viewer(s)!vars)
  <2>1. /\ of'[s] = j /\ got'[s] = <<>> /\ at'[s] = (IF j \in ram THEN "reading" ELSE "empty")
        /\ j \in ram => Due(s)' = IF lines[j] > Buffer THEN lines[j] - Buffer + 1 ELSE 1
        /\ j \notin ram => Due(s)' = 1
    BY <1>12, StreamSubscribe
  <2>2. /\ at[s] = "idle" /\ got[s] = <<>> /\ row[j] # "absent" /\ j # NoJob
        /\ UNCHANGED <<lost, shown, row, lines>>
    BY <1>12, NoJobAssumption DEF Subscribe, jobVars, StreamInv
  <2>3. lines[j] \in Nat /\ row[j] \in Final \cup {"running"}
    BY <2>2, LineNumbers DEF TypeInv, TypeOK
  <2>4. Viewer(s)!Open
    BY <2>1, <2>2, <2>3 DEF Viewer!Open, Phase, Followed
  <2> QED
    BY <2>4 DEF Viewer!Next
<1>13. CASE Restart
  <2>1. /\ UNCHANGED <<of, backlog, got, lost, shown, lines>> /\ row' = Heal(row)
        /\ at'[s] = IF at[s] \in {"reading", "report", "empty"} THEN "cut" ELSE at[s]
    BY <1>13 DEF Restart
  <2>2. Due(s)' = Due(s)
    BY <2>1 DEF Due
  <2>3. CASE at[s] = "idle"
    <3>1. ~Followed(s) /\ at'[s] = at[s]
      BY <1>0, <2>1, <2>3
    <3> QED
      BY <2>1, <3>1, SameView
  <2>4. CASE at[s] # "idle"
    <3>1. of[s] \in Jobs /\ Followed(s) /\ row'[of[s]] = IF row[of[s]] = "running" THEN "failed"
                                                         ELSE row[of[s]]
      BY <2>1, <2>4, NoJobAssumption DEF Heal, Followed, TypeInv, TypeOK
    <3>2. CASE at[s] \in {"reading", "report", "empty"}
      <4>1. Viewer(s)!Cut
        BY <2>1, <2>2, <3>1, <3>2 DEF Viewer!Cut, Phase, Followed
      <4> QED
        BY <4>1 DEF Viewer!Next
    <3>3. CASE at[s] \notin {"reading", "report", "empty"} /\ row[of[s]] = "running"
      <4>1. Viewer(s)!Finish
        BY <2>1, <2>2, <2>4, <3>1, <3>3 DEF Viewer!Finish, Phase, Followed, Final
      <4> QED
        BY <4>1 DEF Viewer!Next
    <3>4. CASE at[s] \notin {"reading", "report", "empty"} /\ row[of[s]] # "running"
      BY <2>1, <3>1, <3>4, SameView
    <3> QED
      BY <3>2, <3>3, <3>4
  <2> QED
    BY <2>3, <2>4
<1> QED
  BY <1>1, <1>2, <1>3, <1>4, <1>5, <1>6, <1>7, <1>8, <1>9, <1>10, <1>11, <1>12, <1>13
     DEF Next, Task

LEMMA ViewInit ==
  ASSUME StreamsInv, NEW s \in Streams, at[s] = "idle"
  PROVE  Viewer(s)!Init
<1>1. /\ got[s] = <<>> /\ backlog[s] = <<>> /\ s \notin lost /\ shown[s] = "nothing"
      /\ of[s] = NoJob
  BY DEF StreamsInv, StreamInv, TypeInv
<1>2. Due(s) = 1
  BY <1>1 DEF Due
<1> QED
  BY <1>1, <1>2 DEF Viewer!Init, Phase, Followed

LEMMA FollowAlways == Spec => []FollowInv
<1>1. Init => FollowInv
  BY FollowInit
<1>2. TypeInv /\ FollowInv /\ [Next]_vars => FollowInv'
  BY FollowStep
<1>3. StreamsInv => TypeInv
  BY DEF StreamsInv
<1> QED
  BY <1>1, <1>2, <1>3, StreamsAlways, PTL DEF Spec

\* JobManager keeps to every viewer what LogStream promises, for any number of jobs,
\* streams, lines, and any sizes of buffers and queues: a stream is in an initial state of
\* LogStream until it is opened, and every step of the program is a step of it, or none.
THEOREM PromisesKept == Spec => StreamsKeepPromise
<1> DEFINE Kind == \A s \in Streams : /\ at[s] = "idle" => Viewer(s)!Init
                                      /\ [Viewer(s)!Next]_(Viewer(s)!vars)
<1>1. StreamsInv /\ FollowInv /\ [Next]_vars => Kind
  BY ViewInit, ViewStep
<1> HIDE DEF Kind
<1>2. Spec => [][Kind]_vars
  BY <1>1, StreamsAlways, FollowAlways, PTL DEF Spec
<1> QED
  BY <1>2 DEF StreamsKeepPromise, Kind

\* The same for one viewer, in the words of LogStream: JobManager implements it.
THEOREM StreamIsLogStream == ASSUME NEW s \in Streams PROVE Spec => Viewer(s)!Spec
<1>1. Init => Viewer(s)!Init
  <2>1. Init => StreamsInv /\ at[s] = "idle"
    BY StreamsInit DEF Init
  <2> QED
    BY <2>1, ViewInit
<1>2. StreamsInv /\ FollowInv /\ [Next]_vars => [Viewer(s)!Next]_(Viewer(s)!vars)
  BY ViewStep
<1> QED
  BY <1>1, <1>2, StreamsAlways, FollowAlways, PTL DEF Spec, Viewer!Spec
=============================================================================
