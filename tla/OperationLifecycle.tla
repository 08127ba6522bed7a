-------------------------- MODULE OperationLifecycle --------------------------
(***************************************************************************)
(* What the operation queue promises, whoever runs the work: an operation  *)
(* is submitted once, and then comes to exactly one end.  Its effects      *)
(* happen when it succeeds and at no other time; in the same instant it may*)
(* submit a successor.  It ends cancelled only if somebody asked.  Workers,*)
(* leases, attempts, retries and crashes do not show.                      *)
(***************************************************************************)
EXTENDS Naturals

CONSTANT Operation

VARIABLES
    life,      \* "absent", "pending" or the way an operation ended
    asked,     \* has anybody asked for its cancellation
    effects    \* how often its effects happened

vars == <<life, asked, effects>>

Ends == {"succeeded", "failed", "dead_letter", "cancelled", "superseded"}

Init ==
    /\ life = [o \in Operation |-> "absent"]
    /\ asked = [o \in Operation |-> FALSE]
    /\ effects = [o \in Operation |-> 0]

Submit(o) ==
    /\ life[o] = "absent"
    /\ life' = [life EXCEPT ![o] = "pending"]
    /\ UNCHANGED <<asked, effects>>

Succeed(o) ==
    /\ life[o] = "pending"
    /\ effects' = [effects EXCEPT ![o] = @ + 1]
    /\ \/ life' = [life EXCEPT ![o] = "succeeded"]
       \/ \E successor \in Operation :
            /\ life[successor] = "absent"
            /\ life' = [life EXCEPT ![o] = "succeeded", ![successor] = "pending"]
    /\ UNCHANGED asked

GiveUp(o) ==
    /\ life[o] = "pending"
    /\ \E end \in {"failed", "dead_letter"} : life' = [life EXCEPT ![o] = end]
    /\ UNCHANGED <<asked, effects>>

(* Asking may end a pending operation on the spot.                         *)
AskToCancel(o) ==
    /\ life[o] = "pending"
    /\ asked' = [asked EXCEPT ![o] = TRUE]
    /\ life' \in {life, [life EXCEPT ![o] = "cancelled"]}
    /\ UNCHANGED effects

Cancel(o) ==
    /\ life[o] = "pending"
    /\ asked[o]
    /\ life' = [life EXCEPT ![o] = "cancelled"]
    /\ UNCHANGED <<asked, effects>>

Next == \E o \in Operation :
    Submit(o) \/ Succeed(o) \/ GiveUp(o) \/ AskToCancel(o) \/ Cancel(o)

Spec == Init /\ [][Next]_vars
=============================================================================
