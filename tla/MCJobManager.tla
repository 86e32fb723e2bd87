---------------------------- MODULE MCJobManager ----------------------------
(* Instances of JobManager for TLC. *)
EXTENDS JobStreams, TLC

CONSTANTS j1, j2, s1, s2

OneJob == {j1}
TwoJobs == {j1, j2}
OneStream == {s1}
NoStream == {}
OneSlot == {"naive"}
OneSlotOf == [j \in Jobs |-> "naive"]
AnyTime == {"scheduled", "running", "saving", "saved"}
Never == {}
=============================================================================
