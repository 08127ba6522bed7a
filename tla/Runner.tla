-------------------------------- MODULE Runner --------------------------------
(***************************************************************************)
(* The worker process: runner.py over the queue of Operations.             *)
(*                                                                         *)
(* A slot is one _claim_loop task; the slots of a process share its name   *)
(* (leased_by).  A slot claims an operation in a transaction of its own,   *)
(* runs the handler in a second transaction while a lease-keeper beats in  *)
(* further ones, and records how it ended: success in the handler's        *)
(* transaction, everything else in a new one.  Each action below is one    *)
(* committed transaction or one purely local step.                         *)
(***************************************************************************)
EXTENDS Operations

CONSTANTS
    Slot,        \* the claim loops of all worker processes
    ProcessOf,   \* the process (a Holder) a slot belongs to
    Recurring,   \* keys of kinds whose handler queues its own successor
    NoOperation

ASSUME ProcessOfAssumption == ProcessOf \in [Slot -> Holder]
ASSUME NoOperationAssumption == NoOperation \notin Operation

VARIABLES
    pc,          \* where each slot is in run_once / _execute
    held,        \* the claim a busy slot holds
    stopped,     \* _Renewal.stopped of its execution
    armed,       \* the successor the handler's open transaction relies on
    effects      \* history: how often an operation's effects were committed

vars == <<operation, pc, held, stopped, armed, effects>>

Phases == {"idle", "working", "returned", "failing", "failing_permanently", "cancelled"}
Busy(s) == pc[s] # "idle"

(* A row a slot has inserted and not committed: invisible to every other   *)
(* transaction, yet whoever writes the same key has to wait for it.        *)
Uncommitted(s) == armed[s] # NoOperation /\ operation[armed[s]].state = "absent"
KeyIsLocked(o, slots) ==
    \E s \in slots : Uncommitted(s) /\ SameKey(o, armed[s])
Unused(o) == operation[o].state = "absent" /\ \A s \in Slot : armed[s] # o

Idle == [op |-> NoOperation, attempt |-> 0]

Init ==
    /\ operation = [o \in Operation |-> Absent]
    /\ pc = [s \in Slot |-> "idle"]
    /\ held = [s \in Slot |-> Idle]
    /\ stopped = [s \in Slot |-> "none"]
    /\ armed = [s \in Slot |-> NoOperation]
    /\ effects = [o \in Operation |-> 0]

(* The end of _execute: the connection closes, and with it goes whatever   *)
(* its transaction had not committed.                                      *)
Leave(s) ==
    /\ pc' = [pc EXCEPT ![s] = "idle"]
    /\ held' = [held EXCEPT ![s] = Idle]
    /\ stopped' = [stopped EXCEPT ![s] = "none"]
    /\ armed' = [armed EXCEPT ![s] = NoOperation]

-----------------------------------------------------------------------------
(* run_once: claim, and commit the claim before the work starts.           *)

Claim(s) ==
    /\ pc[s] = "idle"
    /\ \E o \in Operation :
        /\ Claimable(operation[o])
        /\ operation' = [operation EXCEPT ![o] = Taken(@, ProcessOf[s])]
        /\ IF operation'[o].state = "running"
           THEN /\ pc' = [pc EXCEPT ![s] = "working"]
                /\ held' = [held EXCEPT ![s] = [op |-> o, attempt |-> operation'[o].attempt]]
           ELSE UNCHANGED <<pc, held>>
    /\ UNCHANGED <<stopped, armed, effects>>

(* Nothing claimable: nothing is written, and the loop pauses.             *)
PollEmpty(s) ==
    /\ pc[s] = "idle"
    /\ \A o \in Operation : ~Claimable(operation[o])
    /\ UNCHANGED vars

-----------------------------------------------------------------------------
(* The handler, in its own transaction.                                    *)

(* Fault: the run converges on itself.                                     *)
RearmOnItself(s) ==
    /\ pc[s] = "working"
    /\ armed[s] = NoOperation
    /\ KeyOf[held[s].op] \in Recurring
    /\ armed' = [armed EXCEPT ![s] = held[s].op]
    /\ UNCHANGED <<operation, pc, held, stopped, effects>>

(* ensure_scheduled called by the run that is being succeeded: a queued    *)
(* row with the key is converged on, otherwise a row is inserted.          *)
Rearm(s) ==
    LET o == held[s].op IN
    /\ pc[s] = "working"
    /\ armed[s] = NoOperation
    /\ KeyOf[o] \in Recurring
    /\ ~KeyIsLocked(o, Slot \ {s})
    /\ \E successor \in Operation :
        /\ SameKey(o, successor)
        /\ \/ operation[successor].state = "queued"
           \/ KeyIsFree(operation, o) /\ Unused(successor)
        /\ armed' = [armed EXCEPT ![s] = successor]
    /\ UNCHANGED <<operation, pc, held, stopped, effects>>

(* Rows are finite here: a handler that cannot re-arm because none is left *)
(* ends its chain.                                                         *)
HasRearmed(s) ==
    \/ KeyOf[held[s].op] \notin Recurring
    \/ armed[s] # NoOperation
    \/ \A o \in Operation : SameKey(o, held[s].op) => operation[o].state # "absent"

(* Why the keeper stopped the work is read only if the work ends cancelled:*)
(* a handler that returns or raises all the same is recorded as it ended.  *)
HandlerReturns(s) ==
    /\ pc[s] = "working"
    /\ HasRearmed(s)
    /\ pc' = [pc EXCEPT ![s] = "returned"]
    /\ stopped' = [stopped EXCEPT ![s] = "none"]
    /\ UNCHANGED <<operation, held, armed, effects>>

(* A fault, permanent or not: the handler's transaction is rolled back at  *)
(* once, and the failure is recorded in another one (RecordFailure).       *)
HandlerRaises(s) ==
    /\ pc[s] = "working"
    /\ \E phase \in {"failing", "failing_permanently"} : pc' = [pc EXCEPT ![s] = phase]
    /\ armed' = [armed EXCEPT ![s] = NoOperation]
    /\ stopped' = [stopped EXCEPT ![s] = "none"]
    /\ UNCHANGED <<operation, held, effects>>

(* CancelledError reaches the handler: because the keeper stopped the work *)
(* (stopped says why) or because the process is going down ("none").       *)
HandlerCancelled(s) ==
    /\ pc[s] = "working"
    /\ pc' = [pc EXCEPT ![s] = "cancelled"]
    /\ armed' = [armed EXCEPT ![s] = NoOperation]
    /\ UNCHANGED <<operation, held, stopped, effects>>

-----------------------------------------------------------------------------
(* _keep_lease, beside the handler.                                        *)

Beat(s) ==
    LET o == held[s].op IN
    /\ pc[s] = "working"
    /\ stopped[s] = "none"
    /\ operation' = AfterHeartbeat(operation, held[s], ProcessOf[s])
    /\ stopped' = [stopped EXCEPT ![s] =
                     IF ~HoldsLease(operation, held[s], ProcessOf[s]) THEN "lease_lost"
                     ELSE IF operation[o].cancel_requested THEN "cancel_requested"
                     ELSE "none"]
    /\ UNCHANGED <<pc, held, armed, effects>>

(* Heartbeats that cannot reach the database are retried until the window  *)
(* of the last good one has elapsed.  That window opens after the lease    *)
(* was written, so by then the lease has lapsed too.                       *)
WindowElapsed(s) ==
    /\ pc[s] = "working"
    /\ stopped[s] = "none"
    /\ ~(Holds(operation, held[s]) /\ operation[held[s].op].lease_live)
    /\ stopped' = [stopped EXCEPT ![s] = "lease_lost"]
    /\ UNCHANGED <<operation, pc, held, armed, effects>>

-----------------------------------------------------------------------------
(* How an execution is recorded.                                           *)

(* Fault: commits whether or not the transition found its row.             *)
RecordSuccessUnchecked(s) ==
    /\ pc[s] = "returned"
    /\ operation' = AfterFinish(operation, held[s], "succeeded")
    /\ effects' = [effects EXCEPT ![held[s].op] = @ + 1]
    /\ Leave(s)

(* succeed and commit, in the handler's transaction: the effects, the      *)
(* successor and the terminal state become durable together or not at all. *)
RecordSuccess(s) ==
    LET done == AfterFinish(operation, held[s], "succeeded") IN
    /\ pc[s] = "returned"
    /\ IF Holds(operation, held[s])
       THEN /\ operation' = IF Uncommitted(s)
                            THEN [done EXCEPT ![armed[s]] = Inserted(FALSE)]
                            ELSE done
            /\ effects' = [effects EXCEPT ![held[s].op] = @ + 1]
       ELSE UNCHANGED <<operation, effects>>
    /\ Leave(s)

(* _transition_failure.  A retry whose key a queued successor has taken    *)
(* violates the unique index: the statement raises, the claim loop backs   *)
(* off, and the row stays as it was.                                       *)
RecordFailure(s) ==
    LET next == AfterFail(operation, held[s], pc[s] = "failing") IN
    /\ pc[s] \in {"failing", "failing_permanently"}
    /\ next[held[s].op].state = "queued" => ~KeyIsLocked(held[s].op, Slot \ {s})
    /\ operation' = IF UniqueViolation(operation, next) THEN operation ELSE next
    /\ Leave(s)
    /\ UNCHANGED effects

(* Fault: every CancelledError is recorded as a cancellation.              *)
RecordAnyCancellation(s) ==
    /\ pc[s] = "cancelled"
    /\ operation' = AfterFinish(operation, held[s], "cancelled")
    /\ Leave(s)
    /\ UNCHANGED effects

(* _on_stopped for a cancellation that was asked for.                      *)
RecordCancelled(s) ==
    /\ pc[s] = "cancelled"
    /\ stopped[s] = "cancel_requested"
    /\ operation' = AfterFinish(operation, held[s], "cancelled")
    /\ Leave(s)
    /\ UNCHANGED effects

(* _release, after a lost lease or a cancellation from outside.  It is     *)
(* best effort: a unique violation is swallowed like any other exception.  *)
HandBack(s) ==
    LET next == AfterRelease(operation, held[s], ProcessOf[s]) IN
    /\ pc[s] = "cancelled"
    /\ stopped[s] # "cancel_requested"
    /\ next # operation => ~KeyIsLocked(held[s].op, Slot \ {s})
    /\ operation' = IF UniqueViolation(operation, next) THEN operation ELSE next
    /\ Leave(s)
    /\ UNCHANGED effects

(* The database does not answer while the end is being recorded: the       *)
(* exception reaches the claim loop (or _release swallows it), the open    *)
(* transaction is lost, and the lease is what remains.                     *)
RecordingLost(s) ==
    /\ pc[s] \notin {"idle", "working"}
    /\ Leave(s)
    /\ UNCHANGED <<operation, effects>>

(* kill -9, and the restart that follows it.                               *)
Crash(process) ==
    LET lost == {s \in Slot : ProcessOf[s] = process}
        Reset(f, value) == [s \in Slot |-> IF s \in lost THEN value ELSE f[s]]
    IN  /\ \E s \in lost : Busy(s)
        /\ pc' = Reset(pc, "idle")
        /\ held' = Reset(held, Idle)
        /\ stopped' = Reset(stopped, "none")
        /\ armed' = Reset(armed, NoOperation)
        /\ UNCHANGED <<operation, effects>>

-----------------------------------------------------------------------------
(* Everyone else: the callers of the queue, and time.                      *)

(* enqueue and ensure_scheduled in a transaction of their own, for a row   *)
(* due now or later.  Convergence on an existing row changes nothing; the  *)
(* check for a running row is a read the claim may overtake, so it keeps   *)
(* no state from being reached (Convergence models the call itself).       *)
Enqueue(o) ==
    /\ Unused(o)
    /\ KeyIsFree(operation, o)
    /\ ~KeyIsLocked(o, Slot)
    /\ \E due \in BOOLEAN : operation' = [operation EXCEPT ![o] = Inserted(due)]
    /\ UNCHANGED <<pc, held, stopped, armed, effects>>

RequestCancel(o) ==
    /\ operation[o].state \in PendingStates
    /\ operation' = AfterRequestCancel(operation, o)
    /\ UNCHANGED <<pc, held, stopped, armed, effects>>

(* next_due_at passes, or expedite pulls it forward.                       *)
BecomeDue(o) ==
    /\ operation[o].state = "queued"
    /\ ~operation[o].due
    /\ operation' = [operation EXCEPT ![o].due = TRUE]
    /\ UNCHANGED <<pc, held, stopped, armed, effects>>

(* lease_expires_at passes: no beat came in time.                          *)
LeaseLapse(o) ==
    /\ operation[o].state = "running"
    /\ operation[o].lease_live
    /\ operation' = [operation EXCEPT ![o].lease_live = FALSE]
    /\ UNCHANGED <<pc, held, stopped, armed, effects>>

-----------------------------------------------------------------------------
Step(s) ==
    \/ Claim(s) \/ PollEmpty(s)
    \/ Rearm(s) \/ HandlerReturns(s) \/ HandlerRaises(s) \/ HandlerCancelled(s)
    \/ Beat(s) \/ WindowElapsed(s)
    \/ RecordSuccess(s) \/ RecordFailure(s) \/ RecordCancelled(s) \/ HandBack(s)
    \/ RecordingLost(s)

Environment(o) == Enqueue(o) \/ RequestCancel(o) \/ BecomeDue(o) \/ LeaseLapse(o)

Next ==
    \/ \E s \in Slot : Step(s)
    \/ \E process \in Holder : Crash(process)
    \/ \E o \in Operation : Environment(o)

Spec == Init /\ [][Next]_vars

(* A lease nobody renews any more runs out.                                *)
AbandonedLeaseLapse(o) ==
    /\ \A s \in Slot : ~(pc[s] = "working" /\ held[s].op = o /\ Holds(operation, held[s]))
    /\ LeaseLapse(o)

Settles(s) == RecordSuccess(s) \/ RecordFailure(s) \/ RecordCancelled(s) \/ HandBack(s)

(* The claim loops keep polling, handlers come to an end, what ended is    *)
(* recorded (or lost), and database time passes.                           *)
Fairness ==
    /\ \A s \in Slot :
        /\ WF_vars(Claim(s))
        /\ WF_vars(HandlerReturns(s) \/ HandlerRaises(s) \/ HandlerCancelled(s))
        /\ WF_vars(Settles(s) \/ RecordingLost(s))
    /\ \A o \in Operation : WF_vars(BecomeDue(o)) /\ WF_vars(AbandonedLeaseLapse(o))

FairSpec == Spec /\ Fairness

-----------------------------------------------------------------------------
(* Properties.                                                             *)

(* Every variable holds what its declaration says.                         *)
TypeOK ==
    /\ operation \in [Operation -> Row]
    /\ pc \in [Slot -> Phases]
    /\ held \in [Slot -> Claimed \cup {Idle}]
    /\ stopped \in [Slot -> {"none", "cancel_requested", "lease_lost"}]
    /\ armed \in [Slot -> Operation \cup {NoOperation}]
    /\ effects \in [Operation -> Nat]

(* "Effects and state can never disagree" (Job, runner.py): an operation's *)
(* effects are committed exactly once if it is succeeded and never if it is*)
(* not, however many workers ran it and however late they finished.        *)
EffectsMatchState ==
    \A o \in Operation : effects[o] = IF operation[o].state = "succeeded" THEN 1 ELSE 0

(* The attempt is a fencing token: two executions of one operation never   *)
(* carry the same one, so at most one of them can pass a guard.            *)
FencingTokenUnique ==
    \A s, t \in Slot :
        Busy(s) /\ Busy(t) /\ held[s] = held[t] => s = t

(* A schedule that re-arms itself survives every crash: while rows are left*)
(* to insert, a recurring key that was ever queued still has a pending row *)
(* unless one of its runs failed for good or was cancelled.                *)
ChainUnbroken ==
    \A o \in Operation :
        LET chain == {p \in Operation : SameKey(o, p)}
            states == {operation[p].state : p \in chain}
        IN  /\ KeyOf[o] \in Recurring
            /\ \E p \in chain : Unused(p)
            /\ "succeeded" \in states
            => states \cap {"queued", "running", "failed", "dead_letter", "cancelled"} # {}

(* Only a cancellation somebody asked for is recorded as cancelled: not a  *)
(* lost lease, not a shutdown.                                             *)
CancelledOnlyIfAsked ==
    \A o \in Operation :
        operation[o].state = "cancelled" => operation[o].cancel_requested

(* Work is given up on only when its attempts are used up.                 *)
DeadLetterOnlyExhausted ==
    \A o \in Operation :
        operation[o].state = "dead_letter" => operation[o].attempt >= MaxAttempts

(* A zombie is fenced: the worker whose claim was taken over ends without  *)
(* touching the table, whichever way its handler ended.                    *)
ZombieIsFenced ==
    [][\A s \in Slot :
         Busy(s) /\ ~Holds(operation, held[s]) /\ pc'[s] = "idle"
            => UNCHANGED operation]_vars

(* A terminal row is final: no late result, retry, cancellation or lapse   *)
(* changes its state again.                                                *)
TerminalIsFinal ==
    [][\A o \in Operation :
         operation[o].state \in TerminalStates => operation'[o].state = operation[o].state]_vars

(* Crash-only recovery: whatever crashes, hangs up or is taken over, every *)
(* operation that was queued reaches a terminal state.                     *)
EveryOperationSettles ==
    \A o \in Operation :
        operation[o].state = "queued" ~> operation[o].state \in TerminalStates

(* The queue keeps the promise of OperationLifecycle: claims, leases,      *)
(* retries, hand-backs and crashes are stuttering steps of it.             *)
Lifecycle == INSTANCE OperationLifecycle WITH
    life <- [o \in Operation |->
               IF operation[o].state \in PendingStates THEN "pending" ELSE operation[o].state],
    asked <- [o \in Operation |-> operation[o].cancel_requested]

RefinesLifecycle == Lifecycle!Spec
=============================================================================
