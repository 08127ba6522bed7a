------------------------------ MODULE Operations ------------------------------
(***************************************************************************)
(* The durable operation queue of operations.py and the "operation" table. *)
(*                                                                         *)
(* The queue is one table whose rows only ever change by single SQL        *)
(* statements.  This module declares the table, and gives a row its shape  *)
(* and each statement its meaning as an operator on a row or on the whole  *)
(* table; the modules that use the queue (Runner, ExtractionJobs,          *)
(* Convergence) say who runs which statement when, and which statements    *)
(* share a transaction.                                                    *)
(*                                                                         *)
(* Database time is abstracted to the two facts a statement asks of it:    *)
(* lease_live (lease_expires_at >= now()) and due (next_due_at <= now()).  *)
(*                                                                         *)
(* A definition marked "Fault" is what a plausible mistake would make of   *)
(* the one after it.  No specification uses it; it is there to show that   *)
(* the properties notice.                                                  *)
(***************************************************************************)
EXTENDS Integers

CONSTANTS
    Operation,    \* ids of operation rows
    Holder,       \* values of leased_by: a worker process, an extractor replica
    NoHolder,     \* leased_by IS NULL
    KeyOf,        \* the idempotency key each row is inserted with
    NoKey,        \* idempotency_key IS NULL
    MaxAttempts   \* max_attempts

ASSUME MaxAttemptsAssumption == MaxAttempts \in Nat \ {0}
ASSUME NoHolderAssumption == NoHolder \notin Holder

VARIABLE operation   \* the operation table

-----------------------------------------------------------------------------
(* Rows.  "absent" is a row no committed transaction has inserted.  The    *)
(* state "superseded" is admitted by the table and written by no statement.*)

TerminalStates == {"succeeded", "failed", "dead_letter", "cancelled", "superseded"}
PendingStates == {"queued", "running"}

Row == [state : {"absent"} \cup PendingStates \cup TerminalStates,
        attempt : 0 .. MaxAttempts + 1,
        leased_by : Holder \cup {NoHolder},
        lease_live : BOOLEAN,
        due : BOOLEAN,
        cancel_requested : BOOLEAN]

(* What a claimant leaves with: the row it owns and its fencing token.     *)
Claimed == [op : Operation, attempt : 1 .. MaxAttempts]

Absent == [state |-> "absent", attempt |-> 0, leased_by |-> NoHolder,
           lease_live |-> FALSE, due |-> FALSE, cancel_requested |-> FALSE]

Inserted(due) == [Absent EXCEPT !.state = "queued", !.due = due]

-----------------------------------------------------------------------------
(* What each UPDATE does to the row it matches.                            *)

(* Fault: work whose worker died is not reclaimed.                         *)
ClaimableOnce(row) == row.state = "queued" /\ row.due

(* The WHERE of _claimable: queued and due, or running with a lapsed lease.*)
Claimable(row) ==
    \/ row.state = "queued" /\ row.due
    \/ row.state = "running" /\ ~row.lease_live

Unleased(row) == [row EXCEPT !.leased_by = NoHolder, !.lease_live = FALSE]

(* Fault: attempts count retries, and a reclaim is not one.                *)
LeasedUncounted(row, holder) ==
    [row EXCEPT !.state = "running", !.leased_by = holder, !.lease_live = TRUE,
                !.attempt = IF row.state = "queued" THEN @ + 1 ELSE @]

Leased(row, holder) ==
    [row EXCEPT !.state = "running", !.leased_by = holder,
                !.lease_live = TRUE, !.attempt = @ + 1]

Finished(row, state) == [Unleased(row) EXCEPT !.state = state]

Requeued(row, due) == [Unleased(row) EXCEPT !.state = "queued", !.due = due]

(* Fault: one attempt more than there are.                                 *)
TakenTooOften(row, holder) ==
    LET leased == Leased(row, holder)
    IN  IF leased.attempt > MaxAttempts + 1 THEN Finished(leased, "dead_letter") ELSE leased

(* claim: the attempt is counted here, and the one that is too many turns  *)
(* into a dead letter in the same statement pair.                          *)
Taken(row, holder) ==
    LET leased == Leased(row, holder)
    IN  IF leased.attempt > MaxAttempts THEN Finished(leased, "dead_letter") ELSE leased

-----------------------------------------------------------------------------
(* Statements on the table.  Holds is the compare-and-swap guard: the row  *)
(* is running and the attempt is the one that was claimed.                 *)

(* Fault: the guard forgets the attempt.                                   *)
HoldsByState(table, claim) == table[claim.op].state = "running"

Holds(table, claim) ==
    /\ table[claim.op].state = "running"
    /\ table[claim.op].attempt = claim.attempt

HoldsLease(table, claim, holder) ==
    Holds(table, claim) /\ table[claim.op].leased_by = holder

(* _finish                                                                 *)
AfterFinish(table, claim, state) ==
    IF Holds(table, claim)
    THEN [table EXCEPT ![claim.op] = Finished(@, state)]
    ELSE table

(* _dead_letter, whose WHERE names the attempt and not the state.          *)
AfterDeadLetter(table, claim) ==
    IF table[claim.op].attempt = claim.attempt
    THEN [table EXCEPT ![claim.op] = Finished(@, "dead_letter")]
    ELSE table

(* The UPDATE of fail that schedules the retry.                            *)
AfterRetry(table, claim) ==
    IF Holds(table, claim)
    THEN [table EXCEPT ![claim.op] = Requeued(@, FALSE)]
    ELSE table

(* fail: permanent, out of attempts, or to be tried again later.           *)
AfterFail(table, claim, retryable) ==
    IF ~retryable THEN AfterFinish(table, claim, "failed")
    ELSE IF claim.attempt >= MaxAttempts THEN AfterDeadLetter(table, claim)
    ELSE AfterRetry(table, claim)

(* The state fail returns to its caller, whether or not a row matched.     *)
FailReturns(claim, retryable) ==
    IF ~retryable THEN "failed"
    ELSE IF claim.attempt >= MaxAttempts THEN "dead_letter"
    ELSE "queued"

(* release: queued, due at once, the attempt left as the claim counted it. *)
AfterRelease(table, claim, holder) ==
    IF HoldsLease(table, claim, holder)
    THEN [table EXCEPT ![claim.op] = Requeued(@, TRUE)]
    ELSE table

(* heartbeat: the lease of a row still held is extended, lapsed or not.    *)
AfterHeartbeat(table, claim, holder) ==
    IF HoldsLease(table, claim, holder)
    THEN [table EXCEPT ![claim.op].lease_live = TRUE]
    ELSE table

(* request_cancel: a queued row is cancelled outright, a running one told. *)
AfterRequestCancel(table, o) ==
    LET asked == [table[o] EXCEPT !.cancel_requested = TRUE]
    IN  [table EXCEPT ![o] = IF @.state = "queued" THEN [asked EXCEPT !.state = "cancelled"]
                             ELSE IF @.state = "running" THEN asked
                             ELSE @]

-----------------------------------------------------------------------------
(* The partial unique index: at most one queued row per idempotency key.   *)

SameKey(o, p) == KeyOf[o] # NoKey /\ KeyOf[o] = KeyOf[p]

KeyIsFree(table, o) ==
    \A p \in DOMAIN table \ {o} : SameKey(o, p) => table[p].state # "queued"

(* A statement that would leave two queued rows with one key fails, and    *)
(* the transaction it runs in is rolled back.                              *)
UniqueViolation(table, next) ==
    \E o \in DOMAIN table :
        /\ next[o].state = "queued" /\ table[o].state # "queued"
        /\ ~KeyIsFree(next, o)
=============================================================================
