---------------------------- MODULE MCConvergence ----------------------------
(* Convergence with one converging call and two that re-arm a schedule.   *)
EXTENDS Convergence, TLC

CONSTANT schedule

OneSchedule == [o \in Operation |-> schedule]
RowSymmetry == Permutations(Operation)
=============================================================================
