------------------------- MODULE MCBackgroundTasks -------------------------
(* The first task asks, and is a subagent that reports once.               *)
EXTENDS BackgroundTasks

CONSTANTS t1, t2, q1, q2

TaskOf == [q \in Questions |-> t1]
(* Every request of a body carries the coordinates of the body's call.     *)
CallCoordinates == [q \in Questions |-> "call"]
OneReport == [t \in Tasks |-> IF t = t1 THEN 1 ELSE 0]
=============================================================================
