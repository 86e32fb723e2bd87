----------------------------- MODULE JobStreams -----------------------------
(***************************************************************************)
(* JobManager, with its ring buffers, queues, sentinels, drain timers and  *)
(* restarts, keeps what LogStream promises to each viewer.                 *)
(***************************************************************************)
EXTENDS JobManager

\* The line due to stream s: the head of the snapshot, then the one after the last sent.
Due(s) ==
  IF got[s] # <<>> THEN got[s][Len(got[s])] + 1
  ELSE IF backlog[s] # <<>> THEN Head(backlog[s]) ELSE 1

Followed(s) == of[s] # NoJob

Phase(s) == IF at[s] = "reading" THEN "open" ELSE IF at[s] = "report" THEN "ended" ELSE at[s]

Viewer(s) == INSTANCE LogStream WITH
  Results <- Final,
  phase   <- Phase(s),
  log     <- IF Followed(s) THEN lines[of[s]] ELSE 0,
  result  <- IF Followed(s) THEN row[of[s]] ELSE "absent",
  next    <- Due(s),
  seen    <- got[s],
  gaps    <- s \in lost,
  told    <- shown[s]

\* Every viewer of a task is shown what LogStream promises: each line once and in order,
\* from the oldest one kept, the last one before the end, a gap only after his queue ran
\* full, and the end only when the result stands (core/jobs.py, subscribe to _finalize).
\* It is \A s \in Streams : Viewer(s)!Spec, as one formula about the steps: a stream begins
\* as an initial state and takes steps of LogStream.
StreamsKeepPromise ==
  [][\A s \in Streams : /\ at[s] = "idle" => Viewer(s)!Init
                        /\ [Viewer(s)!Next]_(Viewer(s)!vars)]_vars
=============================================================================
