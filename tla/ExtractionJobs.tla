---------------------------- MODULE ExtractionJobs ----------------------------
(***************************************************************************)
(* Extraction jobs: the queue of Operations driven over HTTP.              *)
(*                                                                         *)
(* A job is one operation row and one extraction_run row sharing its id.   *)
(* Extractor replicas claim jobs and answer with calls; the API reads the  *)
(* claim of a call in one statement (_fenced_claim) and acts on it in later*)
(* ones, so calls overtake each other, and a call may arrive twice or late.*)
(* The lease of a job belongs to a replica (leased_by), the fence is the   *)
(* attempt alone.                                                          *)
(***************************************************************************)
EXTENDS Operations, FiniteSets

CONSTANTS
    Handler      \* API requests the core serves at the same time

VARIABLES
    run,         \* extraction_run.state of the run that shares the id
    replica,     \* the claim each extractor replica is working on
    calls,       \* write-backs that were sent; any of them may arrive again
    handler,     \* the call a request has read as current and not yet acted on
    mirror,      \* what a reconcile_runs statement in flight is about to write
    applied      \* history: how often a job's result envelope was committed

vars == <<operation, run, replica, calls, handler, mirror, applied>>

Call == [kind : {"result", "error", "permanent_error"}, claim : Claimed]

Nothing == [kind |-> "none"]
Working(r) == replica[r] # Nothing

Init ==
    /\ operation = [o \in Operation |-> Absent]
    /\ run = [o \in Operation |-> "absent"]
    /\ replica = [r \in Holder |-> Nothing]
    /\ calls = {}
    /\ handler = [h \in Handler |-> Nothing]
    /\ mirror = [r \in Holder |-> <<>>]
    /\ applied = [o \in Operation |-> 0]

-----------------------------------------------------------------------------
(* route: the job and its run appear together, in the transaction that     *)
(* created the file version.                                               *)
Route(o) ==
    /\ operation[o].state = "absent"
    /\ operation' = [operation EXCEPT ![o] = Inserted(TRUE)]
    /\ run' = [run EXCEPT ![o] = "queued"]
    /\ UNCHANGED <<replica, calls, handler, mirror, applied>>

(* supersede_pending: a newer version asks the jobs of the old one, those  *)
(* whose run is not over, to stop.                                         *)
Supersede(o) ==
    /\ run[o] \in PendingStates
    /\ operation[o].state \in PendingStates
    /\ operation' = AfterRequestCancel(operation, o)
    /\ UNCHANGED <<run, replica, calls, handler, mirror, applied>>

-----------------------------------------------------------------------------
(* reconcile_runs.  Both statements join the runs with the operations as   *)
(* the statement's snapshot shows them; only the run row is read again when*)
(* it is written.                                                          *)

(* Fault: only work that lost its worker is looked for.                    *)
DriftedRunning(ops, runs) ==
    {o \in Operation : runs[o] = "running" /\ Claimable([ops[o] EXCEPT !.due = TRUE])}

Drifted(ops, runs) ==
    {o \in Operation :
        \/ ops[o].state \in TerminalStates /\ runs[o] \in PendingStates
        \/ runs[o] = "running" /\ Claimable([ops[o] EXCEPT !.due = TRUE])}

MirrorOf(ops, runs) ==
    [o \in Drifted(ops, runs) |->
        IF ops[o].state \in TerminalStates THEN ops[o].state ELSE "queued"]

Mirrored(runs, writes) ==
    [o \in Operation |->
        IF /\ o \in DOMAIN writes
           /\ runs[o] \in (IF writes[o] = "queued" THEN {"running"} ELSE PendingStates)
        THEN writes[o]
        ELSE runs[o]]

(* The claim that finds nothing claimable reconciles the runs.             *)
ReconcileRead(r) ==
    /\ ~Working(r)
    /\ mirror[r] = <<>>
    /\ \A o \in Operation : ~Claimable(operation[o])
    /\ mirror' = [mirror EXCEPT ![r] = MirrorOf(operation, run)]
    /\ UNCHANGED <<operation, run, replica, calls, handler, applied>>

ReconcileWrite(r) ==
    /\ mirror[r] # <<>>
    /\ run' = Mirrored(run, mirror[r])
    /\ mirror' = [mirror EXCEPT ![r] = <<>>]
    /\ UNCHANGED <<operation, replica, calls, handler, applied>>

-----------------------------------------------------------------------------
(* claim_job.  A job whose cancellation was asked for is handed out with   *)
(* the flag set, and the worker loop drops it without a word.  A claim that*)
(* finds the attempts spent dead-letters the job, answers "no job", and    *)
(* reconciles the runs in the same transaction.                            *)
ClaimJob(r) ==
    /\ ~Working(r) /\ mirror[r] = <<>>
    /\ \E o \in Operation :
        LET table == [operation EXCEPT ![o] = Taken(@, r)] IN
        /\ Claimable(operation[o])
        /\ operation' = table
        /\ IF table[o].state = "running"
           THEN /\ run' = [run EXCEPT ![o] = "running"]
                /\ replica' = [replica EXCEPT ![r] =
                      IF table[o].cancel_requested THEN Nothing
                      ELSE [op |-> o, attempt |-> table[o].attempt]]
           ELSE /\ run' = Mirrored(run, MirrorOf(table, run))
                /\ UNCHANGED replica
    /\ UNCHANGED <<calls, handler, mirror, applied>>

-----------------------------------------------------------------------------
(* The replica.                                                            *)

(* heartbeat_job: an attempt that is still current keeps, or revives, its  *)
(* lease.  What the answer says of a cancellation the replica may heed     *)
(* (Drop) or not: it is cooperative.                                       *)
HeartbeatJob(r) ==
    /\ Working(r)
    /\ operation' = AfterHeartbeat(operation, replica[r], r)
    /\ UNCHANGED <<run, replica, calls, handler, mirror, applied>>

(* A result or an error is sent, with the attempt of the claim.            *)
Send(r) ==
    /\ Working(r)
    /\ \E kind \in {"result", "error", "permanent_error"} :
        calls' = calls \cup {[kind |-> kind, claim |-> replica[r]]}
    /\ UNCHANGED <<operation, run, replica, handler, mirror, applied>>

(* The replica is done with the job: it answered, crashed, was told to     *)
(* stop, or could not reach the core and says nothing.                     *)
Drop(r) ==
    /\ Working(r)
    /\ replica' = [replica EXCEPT ![r] = Nothing]
    /\ UNCHANGED <<operation, run, calls, handler, mirror, applied>>

-----------------------------------------------------------------------------
(* The API's side of a write-back.                                         *)

(* _fenced_claim: an unlocked read.  A call that is not current is a 409.  *)
FencedRead(h) ==
    /\ handler[h] = Nothing
    /\ \E call \in calls :
        /\ Holds(operation, call.claim)
        /\ handler' = [handler EXCEPT ![h] = call]
    /\ UNCHANGED <<operation, run, replica, calls, mirror, applied>>

Answered(h) == handler' = [handler EXCEPT ![h] = Nothing]

(* Fault: the envelope is kept whether or not the transition found its row.*)
SubmitResultUnchecked(h) ==
    /\ handler[h].kind = "result"
    /\ LET claim == handler[h].claim IN
        /\ operation' = AfterFinish(operation, claim, "succeeded")
        /\ run' = [run EXCEPT ![claim.op] = "succeeded"]
        /\ applied' = [applied EXCEPT ![claim.op] = @ + 1]
    /\ Answered(h)
    /\ UNCHANGED <<replica, calls, mirror>>

(* submit_result / complete: the guarded transition first, then the rows of*)
(* the envelope.  An envelope that is refused takes all of it back.        *)
SubmitResult(h) ==
    /\ handler[h].kind = "result"
    /\ LET claim == handler[h].claim IN
        \/ /\ Holds(operation, claim)
           /\ operation' = AfterFinish(operation, claim, "succeeded")
           /\ run' = [run EXCEPT ![claim.op] = "succeeded"]
           /\ applied' = [applied EXCEPT ![claim.op] = @ + 1]
        \/ UNCHANGED <<operation, run, applied>>
    /\ Answered(h)
    /\ UNCHANGED <<replica, calls, mirror>>

(* report_error / abandon: fail on the queue, and whatever state fail      *)
(* returned is written to the run.                                         *)
ReportError(h) ==
    /\ handler[h].kind \in {"error", "permanent_error"}
    /\ LET claim == handler[h].claim
           retryable == handler[h].kind = "error"
       IN  /\ operation' = AfterFail(operation, claim, retryable)
           /\ run' = [run EXCEPT ![claim.op] = FailReturns(claim, retryable)]
    /\ Answered(h)
    /\ UNCHANGED <<replica, calls, mirror, applied>>

(* The core restarts, or the request fails for a reason of its own.        *)
RequestLost(h) ==
    /\ handler[h] # Nothing
    /\ Answered(h)
    /\ UNCHANGED <<operation, run, replica, calls, mirror, applied>>

-----------------------------------------------------------------------------
(* Database time.                                                          *)

BecomeDue(o) ==
    /\ operation[o].state = "queued"
    /\ ~operation[o].due
    /\ operation' = [operation EXCEPT ![o].due = TRUE]
    /\ UNCHANGED <<run, replica, calls, handler, mirror, applied>>

LeaseLapse(o) ==
    /\ operation[o].state = "running"
    /\ operation[o].lease_live
    /\ operation' = [operation EXCEPT ![o].lease_live = FALSE]
    /\ UNCHANGED <<run, replica, calls, handler, mirror, applied>>

-----------------------------------------------------------------------------
Next ==
    \/ \E o \in Operation : Route(o) \/ Supersede(o) \/ BecomeDue(o) \/ LeaseLapse(o)
    \/ \E r \in Holder :
        \/ ClaimJob(r) \/ ReconcileRead(r) \/ ReconcileWrite(r)
        \/ HeartbeatJob(r) \/ Send(r) \/ Drop(r)
    \/ \E h \in Handler :
        FencedRead(h) \/ SubmitResult(h) \/ ReportError(h) \/ RequestLost(h)

Spec == Init /\ [][Next]_vars

(* A lease nobody renews any more runs out.                                *)
AbandonedLeaseLapse(o) ==
    /\ \A r \in Holder : ~(Working(r) /\ replica[r].op = o /\ Holds(operation, replica[r]))
    /\ LeaseLapse(o)

(* Replicas keep polling and do not work on one job for ever, requests come*)
(* to an end, and database time passes.                                    *)
Fairness ==
    /\ \A r \in Holder :
        /\ WF_vars(ClaimJob(r)) /\ WF_vars(Drop(r))
        /\ WF_vars(ReconcileRead(r)) /\ WF_vars(ReconcileWrite(r))
    /\ \A h \in Handler : WF_vars(SubmitResult(h) \/ ReportError(h) \/ RequestLost(h))
    /\ \A o \in Operation : WF_vars(BecomeDue(o)) /\ WF_vars(AbandonedLeaseLapse(o))

FairSpec == Spec /\ Fairness

-----------------------------------------------------------------------------
(* Properties.                                                             *)

(* Every variable holds what its declaration says.                         *)
TypeOK ==
    /\ operation \in [Operation -> Row]
    /\ run \in [Operation -> {"absent"} \cup PendingStates \cup TerminalStates]
    /\ replica \in [Holder -> Claimed \cup {Nothing}]
    /\ calls \subseteq Call
    /\ handler \in [Handler -> Call \cup {Nothing}]
    /\ \A r \in Holder : \A o \in DOMAIN mirror[r] :
         o \in Operation /\ mirror[r][o] \in {"queued"} \cup TerminalStates
    /\ applied \in [Operation -> Nat]

(* "A job that completes twice persists once": however often and however   *)
(* late results arrive, one envelope is committed per job, and only a job  *)
(* that has one says it succeeded, in the queue or on the run.             *)
ResultPersistsOnce ==
    \A o \in Operation :
        /\ applied[o] <= 1
        /\ "succeeded" \in {operation[o].state, run[o]} => applied[o] = 1

(* "A zombie's late result persists never": an envelope is committed only  *)
(* while its attempt is the newest one and the job is still running.       *)
LateResultRefused ==
    [][\A o \in Operation :
         applied'[o] # applied[o] =>
            /\ operation[o].state = "running"
            /\ \E h \in Handler :
                 /\ handler[h] # Nothing
                 /\ handler[h].claim = [op |-> o, attempt |-> operation[o].attempt]]_vars

(* Every routed job reaches a terminal state in the queue, whichever       *)
(* replicas die, stay silent or answer late.                               *)
EveryJobSettles ==
    \A o \in Operation :
        operation[o].state = "queued" ~> operation[o].state \in TerminalStates

(* "The next idle claim reconciles the run": once a job is over, its run   *)
(* does not stay queued or running for ever.                               *)
RunCatchesUp ==
    \A o \in Operation :
        operation[o].state \in TerminalStates ~> run[o] \in TerminalStates

=============================================================================
