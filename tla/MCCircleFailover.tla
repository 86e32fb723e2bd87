-------------------------- MODULE MCCircleFailover --------------------------
EXTENDS CircleFailover

\* Two members and the whole circle.
MCLists == {<<1, 2>>, <<1, 2, 3>>}
MCPairs == {<<1, 2>>}
MCMode  == [c \in Circles |-> "sequential"]
MCFailoverList == <<3>>

EventKinds == {"edit", "toggle", "flip", "restart", "reboot", "deadline", "rotate"}
NoEvents == [k \in EventKinds \cup {"all"} |-> IF k = "all" THEN 9 ELSE 0]
AnyOf(n) == [k \in EventKinds \cup {"all"} |-> IF k = "all" THEN n ELSE 1]
MCTwo    == AnyOf(2)
MCThree  == AnyOf(3)
MCSafe == [NoEvents EXCEPT !["edit"] = 1, !["flip"] = 1, !["rotate"] = 1]
MCServe == [NoEvents EXCEPT !["edit"] = 1, !["rotate"] = 2]
MCLocks == [NoEvents EXCEPT !["edit"] = 2, !["rotate"] = 2]
MCFail == [NoEvents EXCEPT !["flip"] = 1]
=============================================================================
