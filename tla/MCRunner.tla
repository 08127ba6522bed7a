------------------------------- MODULE MCRunner -------------------------------
(* Runner on small instances: two claim loops, and rows that may share a   *)
(* schedule's idempotency key.                                             *)
EXTENDS Runner, TLC

CONSTANTS p1, p2, s1, s2, o1, o2, o3, schedule

(* Two processes with one loop each, or one process with two loops.        *)
TwoProcesses == s1 :> p1 @@ s2 :> p2
OneProcess == s1 :> p1 @@ s2 :> p1

(* All rows belong to one recurring schedule.                              *)
OneSchedule == [o \in Operation |-> schedule]

(* Rows of one schedule are interchangeable.                               *)
RowSymmetry == Permutations(Operation)
=============================================================================
