------------------------------ MODULE LogStream ------------------------------
(***************************************************************************)
(* What the log of a server task promises to one viewer: the lines in      *)
(* order, from the oldest one kept to the last one printed, each once,     *)
(* with a gap only for a viewer who is too slow, and then how the task     *)
(* ended.  Nothing is said of buffers, queues, slots or timers.            *)
(***************************************************************************)
EXTENDS Naturals, Sequences

CONSTANTS
  Results,  \* how a task may end
  Buffer    \* lines kept for those who come late

VARIABLES
  phase,   \* where the viewer stands
  log,     \* lines printed so far, numbered from 1
  result,  \* "running", how the task ended, or "absent" once its record is gone
  next,    \* the line due
  seen,    \* the lines shown
  gaps,    \* is the viewer too slow?
  told     \* the status shown last

vars == <<phase, log, result, next, seen, gaps, told>>

Init ==
  /\ phase = "idle" /\ log = 0 /\ result = "absent"
  /\ next = 1 /\ seen = <<>> /\ gaps = FALSE /\ told = "nothing"

\* The viewer picks a task; one whose lines are not kept shows its status only.
Open ==
  /\ phase = "idle" /\ phase' \in {"open", "empty"}
  /\ log' \in Nat /\ result' \in Results \cup {"running"}
  /\ next' = IF phase' = "open" /\ log' > Buffer THEN log' - Buffer + 1 ELSE 1
  /\ UNCHANGED <<seen, gaps, told>>

\* The task prints a line; a viewer who is too slow may miss one.
Write ==
  /\ phase # "idle" /\ result = "running" /\ log' = log + 1
  /\ gaps' = gaps \/ (phase = "open" /\ gaps')
  /\ UNCHANGED <<phase, result, next, seen, told>>

\* One more line is shown: the one due, or a later one if there are gaps.
Show ==
  /\ phase = "open"
  /\ \E n \in next .. log : /\ gaps \/ n = next
                            /\ seen' = Append(seen, n) /\ next' = n + 1
  /\ UNCHANGED <<phase, log, result, gaps, told>>

\* The task ends.
Finish ==
  /\ phase # "idle" /\ result = "running" /\ result' \in Results
  /\ UNCHANGED <<phase, log, next, seen, gaps, told>>

\* A viewer who is too slow misses a line for the end of the log.
Skip ==
  /\ phase = "open" /\ result # "running" /\ gaps' = TRUE
  /\ UNCHANGED <<phase, log, result, next, seen, told>>

\* The log is at its end: the task has ended and all its lines were shown.
End ==
  /\ phase = "open" /\ phase' = "ended"
  /\ result # "running" /\ (gaps \/ next = log + 1)
  /\ UNCHANGED <<log, result, next, seen, gaps, told>>

Tell ==
  /\ phase \in {"ended", "empty"} /\ phase' = "closed"
  /\ told' = IF result = "absent" THEN "unknown" ELSE result
  /\ UNCHANGED <<log, result, next, seen, gaps>>

\* Old records are removed.
Forget ==
  /\ result \in Results /\ result' = "absent"
  /\ UNCHANGED <<phase, log, next, seen, gaps, told>>

\* The viewer goes, or the service does: a task under way then has failed.
Leave ==
  /\ phase = "open" /\ phase' = "left"
  /\ UNCHANGED <<log, result, next, seen, gaps, told>>
Cut ==
  /\ phase \in {"open", "ended", "empty"} /\ phase' = "cut"
  /\ result' = IF result = "running" THEN "failed" ELSE result
  /\ UNCHANGED <<log, next, seen, gaps, told>>

Next == Open \/ Write \/ Show \/ Finish \/ Skip \/ End \/ Tell \/ Forget \/ Leave \/ Cut

Spec == Init /\ [][Next]_vars
==============================================================================
