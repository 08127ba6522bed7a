-------------------------- MODULE OperationsProofs --------------------------
(***************************************************************************)
(* Proofs about two users of the operation queue: Convergence, for any     *)
(* number of callers, rows, workers and turns, and ExtractionJobs, for any *)
(* number of jobs, extractor replicas, requests, calls and attempts.       *)
(*                                                                         *)
(* A call that is looking up has met a queued row, and a queued row leaves *)
(* only by being taken: so either one is still there to be found, or a     *)
(* worker has taken one once more than the call has turned.  That is why a *)
(* call cannot raise without churn.                                        *)
(*                                                                         *)
(* The envelope of a job is committed only by the compare-and-swap that    *)
(* takes its row from running to succeeded, and nothing makes such a row   *)
(* pending again - _dead_letter, which does not test the state, can only   *)
(* make it a dead letter.  So no second envelope finds the row running,    *)
(* and whatever says succeeded, in the queue, on the run or in a statement *)
(* of reconcile_runs still in flight, has an envelope behind it.           *)
(***************************************************************************)
EXTENDS Convergence, ExtractionJobs, TLAPS

-----------------------------------------------------------------------------
(* What the statements of Operations make of a row.                        *)

LEMMA FinishedRow ==
    ASSUME NEW row \in Row, NEW state \in TerminalStates
    PROVE  /\ Finished(row, state) \in Row
           /\ Finished(row, state).state = state
           /\ Finished(row, state).attempt = row.attempt
           /\ Finished(row, state).cancel_requested = row.cancel_requested
BY DEF Finished, Unleased, Row

LEMMA TakenRow ==
    ASSUME NEW row \in Row, NEW holder \in Holder, row.attempt <= MaxAttempts
    PROVE  /\ Taken(row, holder) \in Row
           /\ Taken(row, holder).attempt = row.attempt + 1
           /\ Taken(row, holder).cancel_requested = row.cancel_requested
           /\ \/ /\ Taken(row, holder).state = "running"
                 /\ row.attempt + 1 <= MaxAttempts
              \/ /\ Taken(row, holder).state = "dead_letter"
                 /\ row.attempt + 1 > MaxAttempts
<1> DEFINE leased == Leased(row, holder)
<1>1. /\ leased.state = "running" /\ leased.attempt = row.attempt + 1
      /\ leased.cancel_requested = row.cancel_requested
  BY DEF Leased, Row
<1>2. row.attempt + 1 \in 0 .. MaxAttempts + 1
  BY MaxAttemptsAssumption DEF Row
<1>3. leased \in Row
  BY <1>2 DEF Leased, Row, PendingStates
<1>4. CASE leased.attempt > MaxAttempts
  <2>1. Taken(row, holder) = Finished(leased, "dead_letter")
    BY <1>4 DEF Taken
  <2>2. "dead_letter" \in TerminalStates
    BY DEF TerminalStates
  <2>3. QED
    BY <1>1, <1>3, <1>4, <2>1, <2>2, FinishedRow
<1>5. CASE ~(leased.attempt > MaxAttempts)
  <2>1. Taken(row, holder) = leased
    BY <1>5 DEF Taken
  <2>2. QED
    BY <1>1, <1>2, <1>3, <1>5, <2>1, MaxAttemptsAssumption
<1>6. QED
  BY <1>4, <1>5

LEMMA RequeuedRow ==
    ASSUME NEW row \in Row, NEW due \in BOOLEAN
    PROVE  /\ Requeued(row, due) \in Row
           /\ Requeued(row, due).state = "queued"
           /\ Requeued(row, due).attempt = row.attempt
           /\ Requeued(row, due).cancel_requested = row.cancel_requested
BY DEF Requeued, Unleased, Row, PendingStates

LEMMA InsertedRow ==
    ASSUME NEW due \in BOOLEAN
    PROVE  /\ Inserted(due) \in Row
           /\ Inserted(due).state = "queued"
           /\ Inserted(due).attempt = 0
           /\ Inserted(due).cancel_requested = FALSE
<1>1. 0 \in 0 .. MaxAttempts + 1
  BY MaxAttemptsAssumption
<1>2. Absent \in Row
  BY <1>1 DEF Absent, Row
<1>3. Absent.attempt = 0 /\ Absent.cancel_requested = FALSE
  BY DEF Absent
<1> HIDE DEF Absent
<1>4. QED
  BY <1>2, <1>3 DEF Inserted, Row, PendingStates

-----------------------------------------------------------------------------
(* The inductive invariant.                                                *)

(* A row that can still be claimed has an attempt left to count.           *)
WithinBudget ==
    \A o \in Operation :
        operation[o].state \in PendingStates => operation[o].attempt <= MaxAttempts

(* A call has witnessed whatever is pending while it runs.                 *)
SeesPending ==
    \A c \in Caller : Calling(c) => RowsIn(PendingStates) \subseteq witnessed[c]

(* What a call is overtaken by is running; once a converging call has      *)
(* looked for running work and found none, there is none left.             *)
OvertakenIsRunning ==
    \A c \in Caller :
        /\ overtaken[c] \subseteq RowsIn({"running"})
        /\ c \in Converging /\ pc[c] \in {"inserting", "looking"} => overtaken[c] = {}

(* Every turn a call has lost, a worker took a queued row; and the row that*)
(* made the call look is still there, or was taken as well.                *)
TurnsAreChurn ==
    \A c \in Caller :
        /\ churn[c] >= turn[c]
        /\ pc[c] = "looking" => RowsIn({"queued"}) # {} \/ churn[c] > turn[c]
        /\ pc[c] = "raised" => turn[c] = Turns
        /\ pc[c] \in {"idle", "checking", "inserting", "looking"} => turn[c] < Turns

EnqueueIInv ==
    /\ EnqueueTypeOK
    /\ WithinBudget
    /\ SeesPending
    /\ AnswerWasPending
    /\ OvertakenIsRunning
    /\ TurnsAreChurn

-----------------------------------------------------------------------------
(* The steps of a call.                                                    *)

LEMMA EnqueueInitEstablishes == EnqueueInit => EnqueueIInv
<1> SUFFICES ASSUME EnqueueInit PROVE EnqueueIInv
  OBVIOUS
<1>1. Absent \in Row /\ Absent.state = "absent"
  BY MaxAttemptsAssumption DEF Absent, Row
<1>2. EnqueueTypeOK
  BY <1>1, TurnsAssumption DEF EnqueueInit, EnqueueTypeOK
<1>3. RowsIn(PendingStates) = {} /\ WithinBudget
  BY <1>1 DEF EnqueueInit, RowsIn, WithinBudget, PendingStates
<1>4. SeesPending /\ AnswerWasPending /\ OvertakenIsRunning /\ TurnsAreChurn
  BY <1>3, TurnsAssumption
     DEF EnqueueInit, SeesPending, AnswerWasPending, OvertakenIsRunning, TurnsAreChurn, Calling
<1>5. QED
  BY <1>2, <1>3, <1>4 DEF EnqueueIInv

LEMMA BeginPreserves ==
    ASSUME EnqueueIInv, NEW c \in Caller, Begin(c)
    PROVE  EnqueueIInv'
<1>1. EnqueueTypeOK'
  BY DEF EnqueueIInv, EnqueueTypeOK, Begin, RowsIn
<1>2. WithinBudget' /\ SeesPending' /\ AnswerWasPending'
  BY DEF EnqueueIInv, EnqueueTypeOK, Begin, WithinBudget, SeesPending, AnswerWasPending, Calling, RowsIn
<1>3. OvertakenIsRunning' /\ TurnsAreChurn'
  BY DEF EnqueueIInv, EnqueueTypeOK, Begin, OvertakenIsRunning, TurnsAreChurn, RowsIn
<1>4. QED
  BY <1>1, <1>2, <1>3 DEF EnqueueIInv

LEMMA CheckPreserves ==
    ASSUME EnqueueIInv, NEW c \in Caller, CheckRunning(c)
    PROVE  EnqueueIInv'
<1>1. EnqueueTypeOK'
  BY DEF EnqueueIInv, EnqueueTypeOK, CheckRunning, Return, RowsIn
<1>2. WithinBudget' /\ SeesPending'
  BY DEF EnqueueIInv, EnqueueTypeOK, CheckRunning, Return, WithinBudget, SeesPending, Calling, RowsIn
<1>3. AnswerWasPending'
  BY DEF EnqueueIInv, EnqueueTypeOK, CheckRunning, Return, AnswerWasPending, SeesPending, Calling, RowsIn,
         PendingStates
<1>4. OvertakenIsRunning'
  BY DEF EnqueueIInv, EnqueueTypeOK, CheckRunning, Return, OvertakenIsRunning, RowsIn
<1>5. TurnsAreChurn'
  BY DEF EnqueueIInv, EnqueueTypeOK, CheckRunning, Return, TurnsAreChurn, RowsIn
<1>6. QED
  BY <1>1, <1>2, <1>3, <1>4, <1>5 DEF EnqueueIInv

(* The histories after a change of the table.                              *)
LEMMA ObserveEffect ==
    ASSUME EnqueueIInv, NEW table \in [Operation -> Row], Observe(table), operation' = table
    PROVE  /\ witnessed' \in [Caller -> SUBSET Operation]
           /\ overtaken' \in [Caller -> SUBSET Operation]
           /\ \A c \in Caller :
                /\ witnessed[c] \subseteq witnessed'[c]
                /\ Calling(c) => RowsIn(PendingStates)' \subseteq witnessed'[c]
                /\ overtaken'[c] \subseteq overtaken[c]
                /\ overtaken'[c] \subseteq RowsIn({"running"})'
BY DEF EnqueueIInv, EnqueueTypeOK, Observe, RowsIn

LEMMA InsertPreserves ==
    ASSUME EnqueueIInv, NEW c \in Caller, Insert(c)
    PROVE  EnqueueIInv'
<1>1. pc[c] = "inserting" /\ UNCHANGED <<turn, churn>>
  BY DEF Insert
<1>2. CASE /\ pc' = [pc EXCEPT ![c] = "looking"]
           /\ RowsIn({"queued"}) # {}
           /\ UNCHANGED <<operation, answer, witnessed, overtaken>>
  <2>1. EnqueueTypeOK' /\ WithinBudget' /\ SeesPending' /\ AnswerWasPending'
    BY <1>1, <1>2 DEF EnqueueIInv, EnqueueTypeOK, WithinBudget, SeesPending, AnswerWasPending, Calling, RowsIn
  <2>2. OvertakenIsRunning' /\ TurnsAreChurn'
    BY <1>1, <1>2 DEF EnqueueIInv, EnqueueTypeOK, OvertakenIsRunning, TurnsAreChurn, RowsIn
  <2>3. QED
    BY <2>1, <2>2 DEF EnqueueIInv
<1>3. CASE \E o \in RowsIn({"absent"}) :
             LET table == [operation EXCEPT ![o] = Inserted(TRUE)]
             IN  operation' = table /\ Return(c, o) /\ Observe(table)
  <2>1. PICK o \in Operation :
             /\ operation[o].state = "absent"
             /\ operation' = [operation EXCEPT ![o] = Inserted(TRUE)]
             /\ Return(c, o)
             /\ Observe(operation')
    BY <1>3 DEF RowsIn
  <2>2. /\ operation' \in [Operation -> Row]
        /\ operation'[o].state = "queued" /\ operation'[o].attempt = 0
        /\ \A p \in Operation \ {o} : operation'[p] = operation[p]
    BY <2>1, InsertedRow DEF EnqueueIInv, EnqueueTypeOK
  <2>3. /\ pc' = [pc EXCEPT ![c] = "returned"]
        /\ answer' = [answer EXCEPT ![c] = o]
    BY <2>1 DEF Return
  <2>4. EnqueueTypeOK'
    BY <1>1, <2>1, <2>2, <2>3, ObserveEffect DEF EnqueueIInv, EnqueueTypeOK
  <2>5. WithinBudget'
    BY <2>2, MaxAttemptsAssumption DEF EnqueueIInv, WithinBudget
  <2>6. SeesPending'
    BY <2>1, <2>2, <2>3, ObserveEffect DEF EnqueueIInv, EnqueueTypeOK, SeesPending, Calling
  <2>7. AnswerWasPending'
    <3>1. o \in RowsIn(PendingStates)' /\ Calling(c)
      BY <1>1, <2>2 DEF RowsIn, PendingStates, Calling
    <3>2. /\ witnessed' \in [Caller -> SUBSET Operation]
          /\ \A d \in Caller : witnessed[d] \subseteq witnessed'[d]
          /\ o \in witnessed'[c]
      BY <3>1, <2>1, <2>2, ObserveEffect
    <3>3. QED
      BY <3>2, <2>3 DEF EnqueueIInv, EnqueueTypeOK, AnswerWasPending
  <2>8. OvertakenIsRunning'
    BY <2>1, <2>2, <2>3, ObserveEffect DEF EnqueueIInv, EnqueueTypeOK, OvertakenIsRunning
  <2>9. TurnsAreChurn'
    <3>1. RowsIn({"queued"})' # {}
      BY <2>2 DEF RowsIn
    <3>2. QED
      BY <1>1, <2>3, <3>1 DEF EnqueueIInv, EnqueueTypeOK, TurnsAreChurn
  <2>10. QED
    BY <2>4, <2>5, <2>6, <2>7, <2>8, <2>9 DEF EnqueueIInv
<1>4. QED
  BY <1>2, <1>3 DEF Insert

LEMMA LookUpPreserves ==
    ASSUME EnqueueIInv, NEW c \in Caller, LookUp(c)
    PROVE  EnqueueIInv'
<1> DEFINE found == Foremost(Accepted(c))
<1>1. found \subseteq RowsIn(PendingStates)
  BY DEF Foremost, Accepted, RowsIn, PendingStates
<1>2. found = {} => RowsIn({"queued"}) = {}
  BY DEF Foremost, Accepted, RowsIn, PendingStates
<1>3. /\ pc[c] = "looking" /\ UNCHANGED <<operation, witnessed, overtaken, churn>>
      /\ \/ \E o \in found : Return(c, o) /\ UNCHANGED turn
         \/ /\ found = {}
            /\ turn' = [turn EXCEPT ![c] = @ + 1]
            /\ pc' = [pc EXCEPT ![c] = IF turn[c] + 1 = Turns THEN "raised" ELSE "inserting"]
            /\ UNCHANGED answer
  BY DEF LookUp, LookUpInTurns
<1> HIDE DEF found
<1>4. CASE \E o \in found : Return(c, o) /\ UNCHANGED turn
  <2>1. EnqueueTypeOK' /\ WithinBudget' /\ SeesPending'
    BY <1>1, <1>3, <1>4
       DEF EnqueueIInv, EnqueueTypeOK, Return, WithinBudget, SeesPending, Calling, RowsIn
  <2>2. AnswerWasPending'
    BY <1>1, <1>3, <1>4 DEF EnqueueIInv, EnqueueTypeOK, Return, AnswerWasPending, SeesPending, Calling
  <2>3. OvertakenIsRunning' /\ TurnsAreChurn'
    BY <1>3, <1>4 DEF EnqueueIInv, EnqueueTypeOK, Return, OvertakenIsRunning, TurnsAreChurn, RowsIn
  <2>4. QED
    BY <2>1, <2>2, <2>3 DEF EnqueueIInv
<1>5. CASE /\ found = {}
           /\ turn' = [turn EXCEPT ![c] = @ + 1]
           /\ pc' = [pc EXCEPT ![c] = IF turn[c] + 1 = Turns THEN "raised" ELSE "inserting"]
           /\ UNCHANGED answer
  <2>1. turn[c] \in Nat /\ turn[c] < Turns /\ churn[c] \in Nat /\ churn[c] > turn[c]
    BY <1>2, <1>3, <1>5 DEF EnqueueIInv, EnqueueTypeOK, TurnsAreChurn
  <2>2. EnqueueTypeOK'
    BY <1>3, <1>5, <2>1, TurnsAssumption DEF EnqueueIInv, EnqueueTypeOK
  <2>3. WithinBudget' /\ SeesPending' /\ AnswerWasPending'
    BY <1>3, <1>5 DEF EnqueueIInv, EnqueueTypeOK, WithinBudget, SeesPending, AnswerWasPending, Calling, RowsIn
  <2>4. OvertakenIsRunning'
    BY <1>3, <1>5 DEF EnqueueIInv, EnqueueTypeOK, OvertakenIsRunning, RowsIn
  <2>5. TurnsAreChurn'
    BY <1>3, <1>5, <2>1, TurnsAssumption DEF EnqueueIInv, EnqueueTypeOK, TurnsAreChurn, RowsIn
  <2>6. QED
    BY <2>2, <2>3, <2>4, <2>5 DEF EnqueueIInv
<1>6. QED
  BY <1>3, <1>4, <1>5

-----------------------------------------------------------------------------
(* The steps of the workers.                                               *)

(* A worker's statement changes one row that was pending, and counts the   *)
(* churn if it takes the last queued row away.                             *)
LEMMA WorkPreserves ==
    ASSUME EnqueueIInv, NEW o \in Operation, NEW row \in Row,
           Work([operation EXCEPT ![o] = row]),
           row.state \in PendingStates => row.attempt <= MaxAttempts,
           \/ UNCHANGED churn /\ operation[o].state # "queued"
           \/ churn' = [c \in Caller |-> IF Calling(c) THEN churn[c] + 1 ELSE churn[c]]
    PROVE  EnqueueIInv'
<1>1. /\ operation' \in [Operation -> Row] /\ operation'[o] = row
      /\ \A p \in Operation \ {o} : operation'[p] = operation[p]
      /\ Observe(operation') /\ UNCHANGED <<pc, turn, answer>>
  BY DEF Work, EnqueueIInv, EnqueueTypeOK
<1>2. /\ churn' \in [Caller -> Nat]
      /\ \A c \in Caller :
           /\ churn'[c] >= churn[c]
           /\ Calling(c) /\ operation[o].state = "queued" => churn'[c] > churn[c]
  BY DEF EnqueueIInv, EnqueueTypeOK
<1>3. EnqueueTypeOK'
  BY <1>1, <1>2, ObserveEffect DEF EnqueueIInv, EnqueueTypeOK
<1>4. WithinBudget'
  BY <1>1 DEF EnqueueIInv, WithinBudget
<1>5. SeesPending' /\ AnswerWasPending' /\ OvertakenIsRunning'
  BY <1>1, ObserveEffect
     DEF EnqueueIInv, EnqueueTypeOK, SeesPending, AnswerWasPending, OvertakenIsRunning, Calling
<1>6. TurnsAreChurn'
  <2>1. ASSUME NEW c \in Caller, pc[c] = "looking"
        PROVE  RowsIn({"queued"})' # {} \/ churn'[c] > turn[c]
    <3>1. CASE churn[c] > turn[c]
      BY <1>2, <3>1 DEF EnqueueIInv, EnqueueTypeOK
    <3>2. CASE \E p \in Operation \ {o} : operation[p].state = "queued"
      BY <1>1, <3>2 DEF RowsIn
    <3>3. CASE operation[o].state = "queued"
      BY <1>2, <2>1, <3>3 DEF EnqueueIInv, EnqueueTypeOK, TurnsAreChurn, Calling
    <3>4. QED
      BY <2>1, <3>1, <3>2, <3>3 DEF EnqueueIInv, TurnsAreChurn, RowsIn
  <2>2. QED
    BY <1>1, <1>2, <2>1 DEF EnqueueIInv, EnqueueTypeOK, TurnsAreChurn
<1>7. QED
  BY <1>3, <1>4, <1>5, <1>6 DEF EnqueueIInv

LEMMA TakePreserves ==
    ASSUME EnqueueIInv, NEW o \in Operation, TakeRow(o)
    PROVE  EnqueueIInv'
<1>1. PICK h \in Holder : Work([operation EXCEPT ![o] = Taken(operation[o], h)])
  BY DEF TakeRow
<1>2. operation[o] \in Row /\ operation[o].attempt <= MaxAttempts
  BY DEF EnqueueIInv, EnqueueTypeOK, WithinBudget, TakeRow, PendingStates
<1>3. /\ Taken(operation[o], h) \in Row
      /\ Taken(operation[o], h).state \in PendingStates =>
            Taken(operation[o], h).attempt <= MaxAttempts
  BY <1>2, TakenRow DEF PendingStates
<1>4. QED
  BY <1>1, <1>3, WorkPreserves DEF TakeRow

LEMMA FinishPreserves ==
    ASSUME EnqueueIInv, NEW o \in Operation, FinishRow(o)
    PROVE  EnqueueIInv'
<1>1. /\ operation[o] \in Row /\ operation[o].state = "running"
      /\ "succeeded" \in TerminalStates /\ "succeeded" \notin PendingStates
  BY DEF EnqueueIInv, EnqueueTypeOK, FinishRow, TerminalStates, PendingStates
<1>2. Work([operation EXCEPT ![o] = Finished(operation[o], "succeeded")])
  BY <1>1 DEF FinishRow, AfterFinish, Holds
<1>3. QED
  BY <1>1, <1>2, FinishedRow, WorkPreserves DEF FinishRow

LEMMA RetryPreserves ==
    ASSUME EnqueueIInv, NEW o \in Operation, RetryRow(o)
    PROVE  EnqueueIInv'
<1>1. /\ operation[o] \in Row /\ operation[o].state = "running"
      /\ operation[o].attempt < MaxAttempts
  BY DEF EnqueueIInv, EnqueueTypeOK, RetryRow
<1>2. Work([operation EXCEPT ![o] = Requeued(operation[o], FALSE)])
  BY <1>1 DEF RetryRow, AfterRetry, Holds
<1>3. Requeued(operation[o], FALSE).attempt <= MaxAttempts
  <2>1. operation[o].attempt \in 0 .. MaxAttempts + 1
    BY <1>1 DEF Row
  <2>2. operation[o].attempt <= MaxAttempts
    BY <1>1, <2>1, MaxAttemptsAssumption
  <2>3. QED
    BY <1>1, <2>2, RequeuedRow
<1>4. QED
  BY <1>1, <1>2, <1>3, RequeuedRow, WorkPreserves DEF RetryRow

-----------------------------------------------------------------------------
LEMMA EnqueueStutterPreserves == EnqueueIInv /\ UNCHANGED enqueueVars => EnqueueIInv'
BY DEF enqueueVars, EnqueueIInv, EnqueueTypeOK, WithinBudget, SeesPending, AnswerWasPending, OvertakenIsRunning,
       TurnsAreChurn, Calling, RowsIn

LEMMA EnqueueStepPreserves == EnqueueIInv /\ [EnqueueNext]_enqueueVars => EnqueueIInv'
<1> SUFFICES ASSUME EnqueueIInv, [EnqueueNext]_enqueueVars PROVE EnqueueIInv'
  OBVIOUS
<1>1. CASE \E c \in Caller : Begin(c) \/ CheckRunning(c) \/ Insert(c) \/ LookUp(c)
  BY <1>1, BeginPreserves, CheckPreserves, InsertPreserves, LookUpPreserves
<1>2. CASE \E o \in Operation : TakeRow(o) \/ FinishRow(o) \/ RetryRow(o)
  BY <1>2, TakePreserves, FinishPreserves, RetryPreserves
<1>3. CASE AllSettled \/ UNCHANGED enqueueVars
  BY <1>3, EnqueueStutterPreserves DEF AllSettled
<1>4. QED
  BY <1>1, <1>2, <1>3 DEF EnqueueNext

-----------------------------------------------------------------------------
(* What holds of enqueue.                                                  *)

(* The invariant holds in every reachable state.                           *)
THEOREM EnqueueInvariance == EnqueueSpec => []EnqueueIInv
<1>1. QED
  BY EnqueueInitEstablishes, EnqueueStepPreserves, PTL DEF EnqueueSpec

(* Every variable holds what its declaration says, attempts included.      *)
THEOREM EnqueueTypeCorrect == EnqueueSpec => []EnqueueTypeOK
<1>1. EnqueueIInv => EnqueueTypeOK
  BY DEF EnqueueIInv
<1>2. QED
  BY <1>1, EnqueueInvariance, PTL

(* enqueue answers with work that was pending while the call ran, although *)
(* the row it finds may be taken or finished between any two statements.   *)
THEOREM AnswersArePending == EnqueueSpec => []AnswerWasPending
<1>1. EnqueueIInv => AnswerWasPending
  BY DEF EnqueueIInv
<1>2. QED
  BY <1>1, EnqueueInvariance, PTL

(* enqueue raises only after a worker took the key's queued row from under *)
(* the call once per turn.                                                 *)
THEOREM NoErrorWithoutChurn == EnqueueSpec => []RaisesOnlyUnderChurn
<1>1. EnqueueIInv => RaisesOnlyUnderChurn
  BY DEF EnqueueIInv, EnqueueTypeOK, TurnsAreChurn, RaisesOnlyUnderChurn
<1>2. QED
  BY <1>1, EnqueueInvariance, PTL

(* A converging call that inserts a row duplicates no run that was in      *)
(* progress since before the call.                                         *)
THEOREM NoDuplicateRun == EnqueueSpec => RunningWorkIsNotDuplicated
<1>1. EnqueueIInv => (\A c \in Converging : Insert(c) /\ pc'[c] = "returned" => overtaken[c] = {})
  BY ConvergingAssumption DEF EnqueueIInv, OvertakenIsRunning, Insert
<1>2. QED
  BY <1>1, EnqueueInvariance, PTL DEF EnqueueSpec, RunningWorkIsNotDuplicated

-----------------------------------------------------------------------------
(* Extraction jobs.                                                        *)

(* What a run may say of its job.                                          *)
RunStates == {"absent"} \cup PendingStates \cup TerminalStates

-----------------------------------------------------------------------------
(* The inductive invariant.                                                *)

(* A row that can still be claimed has an attempt left to count, and one   *)
(* that is not inserted yet has counted none.                              *)
JobWithinBudget ==
    \A o \in Operation :
        /\ operation[o].state \in PendingStates => operation[o].attempt <= MaxAttempts
        /\ operation[o].state = "absent" => operation[o].attempt = 0

(* A job whose envelope is kept is out of the queue for good.              *)
KeptIsOver ==
    \A o \in Operation :
        applied[o] # 0 => applied[o] = 1 /\ operation[o].state \in {"succeeded", "dead_letter"}

(* A reconciliation in flight says succeeded only of kept envelopes.       *)
MirrorIsTrue ==
    /\ DOMAIN mirror = Holder
    /\ \A r \in Holder : \A o \in DOMAIN mirror[r] :
         mirror[r][o] = "succeeded" => applied[o] = 1

JobIInv ==
    /\ TypeOK
    /\ JobWithinBudget
    /\ KeptIsOver
    /\ MirrorIsTrue
    /\ ResultPersistsOnce

-----------------------------------------------------------------------------
(* Two kinds of steps that preserve the invariant.                         *)

(* A row may change like this while no envelope is committed: an attempt is*)
(* never uncounted, and success is neither made nor undone but by the dead *)
(* letter.                                                                 *)
Moves(row, next) ==
    /\ next \in Row
    /\ next.attempt >= row.attempt
    /\ next.state \in PendingStates => next.attempt <= MaxAttempts
    /\ next.state = "absent" => next.attempt = 0
    /\ next.state = "succeeded" => row.state = "succeeded"
    /\ row.state \in {"succeeded", "dead_letter"} => next.state \in {"succeeded", "dead_letter"}

(* A write to a run that does not make up a success.                       *)
Says(now, next, kept) ==
    next \in RunStates /\ (next = "succeeded" => now = "succeeded" \/ kept = 1)

LEMMA StaysPut ==
    ASSUME JobIInv, NEW o \in Operation
    PROVE  Moves(operation[o], operation[o])
<1>1. operation[o] \in Row /\ operation[o].attempt \in 0 .. MaxAttempts + 1
  BY DEF JobIInv, TypeOK, Row
<1>2. operation[o].attempt >= operation[o].attempt
  BY <1>1, MaxAttemptsAssumption
<1>3. QED
  BY <1>1, <1>2 DEF Moves, JobIInv, JobWithinBudget

(* Nothing is committed: rows and runs change within these limits.         *)
LEMMA QuietStep ==
    ASSUME JobIInv,
           operation' = [o \in Operation |-> operation'[o]],
           run' = [o \in Operation |-> run'[o]],
           \A o \in Operation : Moves(operation[o], operation'[o]),
           \A o \in Operation : Says(run[o], run'[o], applied[o]),
           replica' \in [Holder -> Claimed \cup {Nothing}],
           calls' \subseteq Call,
           handler' \in [Handler -> Call \cup {Nothing}],
           UNCHANGED <<mirror, applied>>
    PROVE  JobIInv'
<1>1. operation' \in [Operation -> Row] /\ run' \in [Operation -> RunStates]
  BY DEF Moves, Says
<1>2. TypeOK'
  BY <1>1 DEF JobIInv, TypeOK, RunStates
<1>3. JobWithinBudget'
  BY DEF JobWithinBudget, Moves
<1>4. KeptIsOver' /\ MirrorIsTrue'
  BY DEF JobIInv, KeptIsOver, MirrorIsTrue, Moves
<1>5. ResultPersistsOnce'
  BY DEF JobIInv, ResultPersistsOnce, Moves, Says
<1>6. QED
  BY <1>2, <1>3, <1>4, <1>5 DEF JobIInv

(* One row changes and no run does.                                        *)
LEMMA RowStep ==
    ASSUME JobIInv, NEW o \in Operation, NEW row, Moves(operation[o], row),
           operation' = [operation EXCEPT ![o] = row],
           UNCHANGED <<run, replica, calls, handler, mirror, applied>>
    PROVE  JobIInv'
<1>1. \A p \in Operation : Moves(operation[p], operation'[p])
  BY StaysPut DEF JobIInv, TypeOK
<1>2. \A p \in Operation : Says(run[p], run'[p], applied[p])
  BY DEF Says, JobIInv, TypeOK, RunStates
<1>3. /\ operation' = [p \in Operation |-> operation'[p]]
      /\ run' = [p \in Operation |-> run'[p]]
  BY DEF JobIInv, TypeOK
<1>4. QED
  BY <1>1, <1>2, <1>3, QuietStep DEF JobIInv, TypeOK

-----------------------------------------------------------------------------
(* The steps on the table alone.                                           *)

LEMMA JobInitEstablishes == Init => JobIInv
<1> SUFFICES ASSUME Init PROVE JobIInv
  OBVIOUS
<1>1. Absent \in Row /\ Absent.state = "absent" /\ Absent.attempt = 0
  BY MaxAttemptsAssumption DEF Absent, Row
<1>2. TypeOK
  BY <1>1 DEF Init, TypeOK
<1>3. JobWithinBudget /\ KeptIsOver /\ ResultPersistsOnce
  BY <1>1 DEF Init, JobWithinBudget, KeptIsOver, ResultPersistsOnce, PendingStates
<1>4. MirrorIsTrue
  BY DEF Init, MirrorIsTrue
<1>5. QED
  BY <1>2, <1>3, <1>4 DEF JobIInv

LEMMA RoutePreserves ==
    ASSUME JobIInv, NEW o \in Operation, Route(o)
    PROVE  JobIInv'
<1>1. /\ operation[o].state = "absent" /\ operation[o].attempt = 0
      /\ operation' = [operation EXCEPT ![o] = Inserted(TRUE)]
      /\ run' = [run EXCEPT ![o] = "queued"]
      /\ UNCHANGED <<replica, calls, handler, mirror, applied>>
  BY DEF Route, JobIInv, JobWithinBudget
<1>2. Moves(operation[o], Inserted(TRUE))
  <2> DEFINE row == Inserted(TRUE)
  <2>1. row \in Row /\ row.state = "queued" /\ row.attempt = 0
    BY InsertedRow
  <2> HIDE DEF row
  <2>2. row.attempt >= operation[o].attempt /\ row.attempt <= MaxAttempts
    BY <1>1, <2>1, MaxAttemptsAssumption
  <2>3. Moves(operation[o], row)
    BY <1>1, <2>1, <2>2 DEF Moves
  <2>4. QED
    BY <2>3 DEF row
<1>3. \A p \in Operation : Moves(operation[p], operation'[p])
  BY <1>1, <1>2, StaysPut DEF JobIInv, TypeOK
<1>4. \A p \in Operation : Says(run[p], run'[p], applied[p])
  BY <1>1 DEF Says, JobIInv, TypeOK, RunStates, PendingStates
<1>5. /\ operation' = [p \in Operation |-> operation'[p]]
      /\ run' = [p \in Operation |-> run'[p]]
  BY <1>1 DEF JobIInv, TypeOK
<1>6. QED
  BY <1>1, <1>3, <1>4, <1>5, QuietStep DEF JobIInv, TypeOK

(* A queued job ends on the spot, a running one is marked.                 *)
LEMMA SupersedePreserves ==
    ASSUME JobIInv, NEW o \in Operation, Supersede(o)
    PROVE  JobIInv'
<1> DEFINE asked == [operation[o] EXCEPT !.cancel_requested = TRUE]
           ended == [asked EXCEPT !.state = "cancelled"]
           row == IF operation[o].state = "queued" THEN ended ELSE asked
<1>1. /\ operation[o] \in Row /\ operation[o].state \in PendingStates
      /\ operation' = [operation EXCEPT ![o] = row]
      /\ UNCHANGED <<run, replica, calls, handler, mirror, applied>>
  BY DEF Supersede, AfterRequestCancel, JobIInv, TypeOK, PendingStates
<1>2. asked \in Row /\ asked.attempt = operation[o].attempt /\ asked.state = operation[o].state
  BY <1>1 DEF Row
<1>3. ended \in Row /\ ended.attempt = operation[o].attempt /\ ended.state = "cancelled"
  BY <1>1 DEF Row, TerminalStates
<1>4. Moves(operation[o], row)
  BY <1>1, <1>2, <1>3, StaysPut DEF Moves, PendingStates
<1>5. QED
  BY <1>1, <1>4, RowStep

(* Heartbeats and time change leases and due dates, nothing else.          *)
LEMMA TouchPreserves ==
    ASSUME JobIInv, NEW o \in Operation,
           \/ BecomeDue(o) \/ LeaseLapse(o)
           \/ \E r \in Holder : HeartbeatJob(r) /\ replica[r].op = o
    PROVE  JobIInv'
<1>1. /\ operation[o] \in Row
      /\ UNCHANGED <<run, replica, calls, handler, mirror, applied>>
  BY DEF BecomeDue, LeaseLapse, HeartbeatJob, JobIInv, TypeOK
<1>2. \E row \in Row :
        /\ operation' = [operation EXCEPT ![o] = row]
        /\ row.attempt = operation[o].attempt /\ row.state = operation[o].state
  <2>1. CASE BecomeDue(o)
    <3>1. [operation[o] EXCEPT !.due = TRUE] \in Row
      BY <1>1 DEF Row
    <3>2. QED
      BY <1>1, <2>1, <3>1 DEF BecomeDue, Row
  <2>2. CASE LeaseLapse(o)
    <3>1. [operation[o] EXCEPT !.lease_live = FALSE] \in Row
      BY <1>1 DEF Row
    <3>2. QED
      BY <1>1, <2>2, <3>1 DEF LeaseLapse, Row
  <2>3. CASE \E r \in Holder : HeartbeatJob(r) /\ replica[r].op = o
    <3>1. [operation[o] EXCEPT !.lease_live = TRUE] \in Row
      BY <1>1 DEF Row
    <3>2. \/ operation' = operation
          \/ operation' = [operation EXCEPT ![o] = [operation[o] EXCEPT !.lease_live = TRUE]]
      BY <2>3 DEF HeartbeatJob, AfterHeartbeat
    <3>3. operation = [operation EXCEPT ![o] = operation[o]]
      BY DEF JobIInv, TypeOK
    <3>4. QED
      BY <1>1, <3>1, <3>2, <3>3 DEF Row
  <2>4. QED
    BY <2>1, <2>2, <2>3
<1>3. PICK row \in Row :
        /\ operation' = [operation EXCEPT ![o] = row]
        /\ row.attempt = operation[o].attempt /\ row.state = operation[o].state
  BY <1>2
<1>4. Moves(operation[o], row)
  BY <1>3, StaysPut DEF Moves
<1>5. QED
  BY <1>1, <1>3, <1>4, RowStep

-----------------------------------------------------------------------------
(* reconcile_runs.                                                         *)

(* What it is about to write is the outcome of the queue.                  *)
LEMMA MirrorOfTrue ==
    ASSUME JobIInv, NEW table \in [Operation -> Row],
           \A o \in Operation : table[o].state = "succeeded" => applied[o] = 1,
           NEW writes, writes = MirrorOf(table, run)
    PROVE  \A o \in DOMAIN writes :
              /\ o \in Operation
              /\ writes[o] \in {"queued"} \cup TerminalStates
              /\ writes[o] = "succeeded" => applied[o] = 1
<1>1. PICK drifted : drifted = Drifted(table, run)
  OBVIOUS
<1>2. drifted \subseteq Operation
  BY <1>1 DEF Drifted
<1>3. writes = [o \in drifted |->
          IF table[o].state \in TerminalStates THEN table[o].state ELSE "queued"]
  BY <1>1 DEF MirrorOf
<1>4. QED
  BY <1>2, <1>3

LEMMA MirroredSays ==
    ASSUME JobIInv, NEW writes,
           \A o \in DOMAIN writes :
              /\ writes[o] \in {"queued"} \cup TerminalStates
              /\ writes[o] = "succeeded" => applied[o] = 1
    PROVE  /\ Mirrored(run, writes) = [o \in Operation |-> Mirrored(run, writes)[o]]
           /\ \A o \in Operation : Says(run[o], Mirrored(run, writes)[o], applied[o])
<1>1. Mirrored(run, writes) = [o \in Operation |-> Mirrored(run, writes)[o]]
  BY DEF Mirrored
<1>2. ASSUME NEW o \in Operation
      PROVE  \/ Mirrored(run, writes)[o] = run[o]
             \/ o \in DOMAIN writes /\ Mirrored(run, writes)[o] = writes[o]
  BY DEF Mirrored
<1>3. \A o \in Operation : run[o] \in RunStates
  BY DEF JobIInv, TypeOK, RunStates
<1>4. QED
  BY <1>1, <1>2, <1>3 DEF Says, RunStates, PendingStates

LEMMA ReadPreserves ==
    ASSUME JobIInv, NEW r \in Holder, ReconcileRead(r)
    PROVE  JobIInv'
<1> DEFINE writes == MirrorOf(operation, run)
<1>1. /\ mirror' = [mirror EXCEPT ![r] = writes]
      /\ UNCHANGED <<operation, run, replica, calls, handler, applied>>
  BY DEF ReconcileRead
<1>b. writes = MirrorOf(operation, run)
  OBVIOUS
<1> HIDE DEF writes
<1>a. /\ operation \in [Operation -> Row]
       /\ \A o \in Operation : operation[o].state = "succeeded" => applied[o] = 1
  BY DEF JobIInv, TypeOK, ResultPersistsOnce
<1>2. \A o \in DOMAIN writes :
        /\ o \in Operation
        /\ writes[o] \in {"queued"} \cup TerminalStates
        /\ writes[o] = "succeeded" => applied[o] = 1
  BY <1>b, <1>a, MirrorOfTrue
<1>3. \A x \in Holder : mirror'[x] = IF x = r THEN writes ELSE mirror[x]
  BY <1>1 DEF JobIInv, MirrorIsTrue
<1>4. TypeOK' /\ MirrorIsTrue'
  BY <1>1, <1>2, <1>3 DEF JobIInv, TypeOK, MirrorIsTrue
<1>5. JobWithinBudget' /\ KeptIsOver' /\ ResultPersistsOnce'
  BY <1>1 DEF JobIInv, JobWithinBudget, KeptIsOver, ResultPersistsOnce
<1>6. QED
  BY <1>4, <1>5 DEF JobIInv

LEMMA WritePreserves ==
    ASSUME JobIInv, NEW r \in Holder, ReconcileWrite(r)
    PROVE  JobIInv'
<1>1. /\ run' = Mirrored(run, mirror[r])
      /\ mirror' = [mirror EXCEPT ![r] = <<>>]
      /\ UNCHANGED <<operation, replica, calls, handler, applied>>
  BY DEF ReconcileWrite
<1>2. \A o \in DOMAIN mirror[r] :
        /\ mirror[r][o] \in {"queued"} \cup TerminalStates
        /\ mirror[r][o] = "succeeded" => applied[o] = 1
  BY DEF JobIInv, TypeOK, MirrorIsTrue
<1>3. /\ run' = [o \in Operation |-> run'[o]]
      /\ \A o \in Operation : Says(run[o], run'[o], applied[o])
  BY <1>1, <1>2, MirroredSays
<1>4. \A x \in Holder : mirror'[x] = IF x = r THEN <<>> ELSE mirror[x]
  BY <1>1 DEF JobIInv, MirrorIsTrue
<1>5. run' \in [Operation -> RunStates]
  BY <1>3 DEF Says
<1>6. TypeOK'
  BY <1>1, <1>4, <1>5 DEF JobIInv, TypeOK, RunStates
<1>7. MirrorIsTrue'
  BY <1>1, <1>4 DEF JobIInv, MirrorIsTrue
<1>8. JobWithinBudget' /\ KeptIsOver'
  BY <1>1 DEF JobIInv, JobWithinBudget, KeptIsOver
<1>9. ResultPersistsOnce'
  BY <1>1, <1>3 DEF JobIInv, ResultPersistsOnce, Says
<1>10. QED
  BY <1>6, <1>7, <1>8, <1>9 DEF JobIInv

-----------------------------------------------------------------------------
(* claim_job, and the replica.                                             *)

LEMMA ClaimPreserves ==
    ASSUME JobIInv, NEW r \in Holder, ClaimJob(r)
    PROVE  JobIInv'
<1>1. PICK o \in Operation :
        LET table == [operation EXCEPT ![o] = Taken(@, r)] IN
        /\ Claimable(operation[o])
        /\ operation' = table
        /\ IF table[o].state = "running"
           THEN /\ run' = [run EXCEPT ![o] = "running"]
                /\ replica' = [replica EXCEPT ![r] =
                      IF table[o].cancel_requested THEN Nothing
                      ELSE [op |-> o, attempt |-> table[o].attempt]]
           ELSE /\ run' = Mirrored(run, MirrorOf(table, run))
                /\ UNCHANGED replica
  BY DEF ClaimJob
<1> DEFINE row == Taken(operation[o], r)
<1>2. /\ operation[o] \in Row /\ operation[o].state \in PendingStates
      /\ operation[o].attempt \in Nat /\ operation[o].attempt <= MaxAttempts
  BY <1>1 DEF JobIInv, TypeOK, JobWithinBudget, Claimable, PendingStates, Row
<1>3. /\ row \in Row /\ row.attempt = operation[o].attempt + 1
      /\ \/ row.state = "running" /\ row.attempt <= MaxAttempts
         \/ row.state = "dead_letter"
  BY <1>2, TakenRow
<1>4. /\ operation' = [operation EXCEPT ![o] = row]
      /\ operation' \in [Operation -> Row] /\ operation'[o] = row
  BY <1>1, <1>3 DEF JobIInv, TypeOK
<1> HIDE DEF row
<1>5. Moves(operation[o], row)
  <2>1. row.attempt >= operation[o].attempt /\ row.attempt \in Nat
    BY <1>2, <1>3
  <2>2. QED
    BY <1>2, <1>3, <2>1 DEF Moves, PendingStates
<1>6. \A p \in Operation : Moves(operation[p], operation'[p])
  BY <1>4, <1>5, StaysPut DEF JobIInv, TypeOK
<1>7. /\ run' = [p \in Operation |-> run'[p]]
      /\ \A p \in Operation : Says(run[p], run'[p], applied[p])
      /\ replica' \in [Holder -> Claimed \cup {Nothing}]
  <2>1. CASE row.state = "running"
    <3>1. /\ run' = [run EXCEPT ![o] = "running"]
          /\ replica' = [replica EXCEPT ![r] = IF row.cancel_requested THEN Nothing
                                               ELSE [op |-> o, attempt |-> row.attempt]]
      BY <1>1, <1>4, <2>1
    <3>2. row.attempt \in 1 .. MaxAttempts
      BY <1>2, <1>3, <2>1, MaxAttemptsAssumption
    <3>3. [op |-> o, attempt |-> row.attempt] \in Claimed
      BY <3>2 DEF Claimed
    <3>4. QED
      BY <3>1, <3>3 DEF JobIInv, TypeOK, Says, RunStates, PendingStates
  <2>2. CASE row.state = "dead_letter"
    <3>1. run' = Mirrored(run, MirrorOf(operation', run)) /\ UNCHANGED replica
      BY <1>1, <1>4, <2>2
    <3>2. \A p \in Operation : operation'[p].state = "succeeded" => applied[p] = 1
      BY <1>4, <2>2 DEF JobIInv, TypeOK, ResultPersistsOnce
    <3>3. QED
      BY <1>4, <3>1, <3>2, MirrorOfTrue, MirroredSays DEF JobIInv, TypeOK
  <2>3. QED
    BY <1>3, <2>1, <2>2
<1>8. operation' = [p \in Operation |-> operation'[p]]
  BY <1>4
<1>9. UNCHANGED <<calls, handler, mirror, applied>>
  BY DEF ClaimJob
<1>10. QED
  BY <1>6, <1>7, <1>8, <1>9, QuietStep DEF JobIInv, TypeOK

(* Sending, dropping, reading a call and losing a request touch no table.  *)
LEMMA TalkPreserves ==
    ASSUME JobIInv,
           \/ \E r \in Holder : Send(r) \/ Drop(r)
           \/ \E h \in Handler : FencedRead(h) \/ RequestLost(h)
    PROVE  JobIInv'
<1>1. UNCHANGED <<operation, run, mirror, applied>>
  BY DEF Send, Drop, FencedRead, RequestLost
<1>2. /\ replica' \in [Holder -> Claimed \cup {Nothing}]
      /\ calls' \subseteq Call
      /\ handler' \in [Handler -> Call \cup {Nothing}]
  BY DEF Send, Drop, FencedRead, RequestLost, Answered, Working, Call, JobIInv, TypeOK
<1>3. \A o \in Operation : Moves(operation[o], operation'[o])
  BY <1>1, StaysPut
<1>4. \A o \in Operation : Says(run[o], run'[o], applied[o])
  BY <1>1 DEF Says, JobIInv, TypeOK, RunStates
<1>5. /\ operation' = [o \in Operation |-> operation'[o]]
      /\ run' = [o \in Operation |-> run'[o]]
  BY <1>1 DEF JobIInv, TypeOK
<1>6. QED
  BY <1>1, <1>2, <1>3, <1>4, <1>5, QuietStep

-----------------------------------------------------------------------------
(* The API's side of a write-back.                                         *)

LEMMA HandledCall ==
    ASSUME JobIInv, NEW h \in Handler,
           handler[h].kind \in {"result", "error", "permanent_error"}
    PROVE  /\ handler[h] \in Call /\ handler[h] # Nothing
           /\ handler[h].claim \in Claimed /\ handler[h].claim.op \in Operation
<1>1. handler[h] # Nothing
  BY DEF Nothing
<1>2. handler[h] \in Call
  BY <1>1 DEF JobIInv, TypeOK
<1>3. QED
  BY <1>1, <1>2 DEF Call, Claimed

(* The one step that keeps an envelope finds the job running, so that none *)
(* was kept before.                                                        *)
LEMMA ResultPreserves ==
    ASSUME JobIInv, NEW h \in Handler, SubmitResult(h)
    PROVE  JobIInv'
<1> DEFINE claim == handler[h].claim
           o == claim.op
<1>1. /\ claim \in Claimed /\ o \in Operation
      /\ handler' = [handler EXCEPT ![h] = Nothing]
      /\ UNCHANGED <<replica, calls, mirror>>
  BY HandledCall DEF SubmitResult, Answered
<1>2. CASE UNCHANGED <<operation, run, applied>>
  BY <1>1, <1>2
     DEF JobIInv, TypeOK, JobWithinBudget, KeptIsOver, MirrorIsTrue, ResultPersistsOnce
<1>3. CASE /\ Holds(operation, claim)
           /\ operation' = AfterFinish(operation, claim, "succeeded")
           /\ run' = [run EXCEPT ![o] = "succeeded"]
           /\ applied' = [applied EXCEPT ![o] = @ + 1]
  <2> DEFINE row == Finished(operation[o], "succeeded")
  <2>1. operation[o] \in Row /\ operation[o].state = "running"
    BY <1>1, <1>3 DEF Holds, JobIInv, TypeOK
  <2>2. row \in Row /\ row.state = "succeeded"
    BY <2>1, FinishedRow DEF TerminalStates
  <2>3. operation' = [operation EXCEPT ![o] = row]
    BY <1>3 DEF AfterFinish
  <2>4. applied[o] = 0
    BY <1>1, <2>1 DEF JobIInv, KeptIsOver
  <2> HIDE DEF row
  <2>5. /\ operation' \in [Operation -> Row] /\ operation'[o].state = "succeeded"
        /\ applied' \in [Operation -> Nat] /\ applied'[o] = 1
        /\ run' \in [Operation -> RunStates]
        /\ \A p \in Operation \ {o} : /\ operation'[p] = operation[p]
                                       /\ applied'[p] = applied[p]
                                       /\ run'[p] = run[p]
    BY <1>1, <1>3, <2>2, <2>3, <2>4 DEF JobIInv, TypeOK, RunStates, TerminalStates
  <2>6. TypeOK'
    BY <1>1, <2>5 DEF JobIInv, TypeOK, RunStates
  <2>7. JobWithinBudget' /\ KeptIsOver' /\ MirrorIsTrue'
    BY <1>1, <2>5 DEF JobIInv, TypeOK, JobWithinBudget, KeptIsOver, MirrorIsTrue, PendingStates
  <2>8. ResultPersistsOnce'
    BY <2>5 DEF JobIInv, ResultPersistsOnce
  <2>9. QED
    BY <2>6, <2>7, <2>8 DEF JobIInv
<1>4. QED
  BY <1>2, <1>3 DEF SubmitResult

(* fail changes at most the claim's row: as long as it is held, or by the  *)
(* dead letter, whose claim only has to be of the row's attempt.           *)
LEMMA FailMoves ==
    ASSUME JobIInv, NEW claim \in Claimed, NEW retryable \in BOOLEAN
    PROVE  LET next == AfterFail(operation, claim, retryable) IN
           /\ next = [o \in Operation |-> next[o]]
           /\ \A o \in Operation : Moves(operation[o], next[o])
<1> DEFINE o == claim.op
           next == AfterFail(operation, claim, retryable)
<1> SUFFICES /\ next = [p \in Operation |-> next[p]]
             /\ \A p \in Operation : Moves(operation[p], next[p])
  OBVIOUS
<1>1. /\ o \in Operation /\ operation[o] \in Row /\ operation \in [Operation -> Row]
      /\ claim.attempt \in 1 .. MaxAttempts /\ operation[o].attempt \in Nat
  BY DEF Claimed, JobIInv, TypeOK, Row
<1>2. CASE next = operation
  BY <1>1, <1>2, StaysPut
<1>3. ASSUME NEW row \in Row, next = [operation EXCEPT ![o] = row],
             row.attempt = operation[o].attempt,
             \/ row.state = "failed" /\ operation[o].state = "running"
             \/ row.state = "queued" /\ operation[o].state = "running"
             \/ row.state = "dead_letter"
      PROVE  /\ next = [p \in Operation |-> next[p]]
             /\ \A p \in Operation : Moves(operation[p], next[p])
  <2>1. row.attempt >= operation[o].attempt
    BY <1>1, <1>3
  <2>2. row.state \in PendingStates => row.attempt <= MaxAttempts
    BY <1>1, <1>3 DEF JobIInv, JobWithinBudget, PendingStates
  <2>3. Moves(operation[o], row)
    BY <1>3, <2>1, <2>2 DEF Moves
  <2>4. QED
    BY <1>1, <1>3, <2>3, StaysPut
<1>4. CASE ~retryable /\ Holds(operation, claim)
  <2>1. next = [operation EXCEPT ![o] = Finished(operation[o], "failed")]
    BY <1>4 DEF AfterFail, AfterFinish
  <2>2. "failed" \in TerminalStates
    BY DEF TerminalStates
  <2> HIDE DEF next
  <2>3. QED
    BY <1>1, <1>3, <1>4, <2>1, <2>2, FinishedRow DEF Holds
<1>5. CASE retryable /\ claim.attempt >= MaxAttempts /\ operation[o].attempt = claim.attempt
  <2>1. next = [operation EXCEPT ![o] = Finished(operation[o], "dead_letter")]
    BY <1>5 DEF AfterFail, AfterDeadLetter
  <2>2. "dead_letter" \in TerminalStates
    BY DEF TerminalStates
  <2> HIDE DEF next
  <2>3. QED
    BY <1>1, <1>3, <2>1, <2>2, FinishedRow
<1>6. CASE retryable /\ ~(claim.attempt >= MaxAttempts) /\ Holds(operation, claim)
  <2>1. next = [operation EXCEPT ![o] = Requeued(operation[o], FALSE)]
    BY <1>6 DEF AfterFail, AfterRetry
  <2> HIDE DEF next
  <2>2. QED
    BY <1>1, <1>3, <1>6, <2>1, RequeuedRow DEF Holds
<1>7. \/ next = operation
      \/ ~retryable /\ Holds(operation, claim)
      \/ retryable /\ claim.attempt >= MaxAttempts /\ operation[o].attempt = claim.attempt
      \/ retryable /\ ~(claim.attempt >= MaxAttempts) /\ Holds(operation, claim)
  BY DEF AfterFail, AfterFinish, AfterDeadLetter, AfterRetry
<1>8. QED
  BY <1>2, <1>4, <1>5, <1>6, <1>7

LEMMA ErrorPreserves ==
    ASSUME JobIInv, NEW h \in Handler, ReportError(h)
    PROVE  JobIInv'
<1> DEFINE claim == handler[h].claim
           retryable == handler[h].kind = "error"
<1>1. /\ claim \in Claimed /\ claim.op \in Operation
      /\ handler' = [handler EXCEPT ![h] = Nothing]
      /\ UNCHANGED <<replica, calls, mirror, applied>>
  BY HandledCall DEF ReportError, Answered
<1>2. /\ operation' = AfterFail(operation, claim, retryable)
      /\ run' = [run EXCEPT ![claim.op] = FailReturns(claim, retryable)]
  BY DEF ReportError
<1>3. /\ operation' = [o \in Operation |-> operation'[o]]
      /\ \A o \in Operation : Moves(operation[o], operation'[o])
  BY <1>1, <1>2, FailMoves
<1>4. FailReturns(claim, retryable) \in {"failed", "dead_letter", "queued"}
  BY DEF FailReturns
<1>5. /\ run' = [o \in Operation |-> run'[o]]
      /\ \A o \in Operation : Says(run[o], run'[o], applied[o])
  BY <1>2, <1>4 DEF JobIInv, TypeOK, Says, RunStates, PendingStates, TerminalStates
<1>6. /\ replica' \in [Holder -> Claimed \cup {Nothing}]
      /\ calls' \subseteq Call
      /\ handler' \in [Handler -> Call \cup {Nothing}]
  BY <1>1 DEF JobIInv, TypeOK
<1>7. QED
  BY <1>1, <1>3, <1>5, <1>6, QuietStep

-----------------------------------------------------------------------------
LEMMA JobStutterPreserves == JobIInv /\ UNCHANGED vars => JobIInv'
BY DEF vars, JobIInv, TypeOK, JobWithinBudget, KeptIsOver, MirrorIsTrue, ResultPersistsOnce

LEMMA JobStepPreserves == JobIInv /\ [Next]_vars => JobIInv'
<1> SUFFICES ASSUME JobIInv, [Next]_vars PROVE JobIInv'
  OBVIOUS
<1>1. CASE \E o \in Operation : Route(o) \/ Supersede(o) \/ BecomeDue(o) \/ LeaseLapse(o)
  BY <1>1, RoutePreserves, SupersedePreserves, TouchPreserves
<1>2. CASE \E r \in Holder : ClaimJob(r) \/ ReconcileRead(r) \/ ReconcileWrite(r)
  BY <1>2, ClaimPreserves, ReadPreserves, WritePreserves
<1>3. CASE \E r \in Holder : HeartbeatJob(r)
  <2>1. PICK r \in Holder : HeartbeatJob(r)
    BY <1>3
  <2>2. replica[r].op \in Operation
    BY <2>1 DEF HeartbeatJob, Working, JobIInv, TypeOK, Claimed
  <2>3. QED
    BY <2>1, <2>2, TouchPreserves
<1>4. CASE \/ \E r \in Holder : Send(r) \/ Drop(r)
           \/ \E h \in Handler : FencedRead(h) \/ RequestLost(h)
  BY <1>4, TalkPreserves
<1>5. CASE \E h \in Handler : SubmitResult(h) \/ ReportError(h)
  BY <1>5, ResultPreserves, ErrorPreserves
<1>6. CASE UNCHANGED vars
  BY <1>6, JobStutterPreserves
<1>7. QED
  BY <1>1, <1>2, <1>3, <1>4, <1>5, <1>6 DEF Next

-----------------------------------------------------------------------------
(* What holds of extraction jobs.                                          *)

(* The invariant holds in every reachable state.                           *)
THEOREM JobInvariance == Spec => []JobIInv
<1>1. QED
  BY JobInitEstablishes, JobStepPreserves, PTL DEF Spec

(* Every variable holds what its declaration says: in particular no attempt*)
(* is counted past the one that is too many.                               *)
THEOREM JobTypeCorrect == Spec => []TypeOK
<1>1. JobIInv => TypeOK
  BY DEF JobIInv
<1>2. QED
  BY <1>1, JobInvariance, PTL

(* "A job that completes twice persists once", and success is never said of*)
(* a job whose envelope is not kept - not by the queue, and not by the run *)
(* that reconcile_runs writes from a snapshot.                             *)
THEOREM PersistsOnce == Spec => []ResultPersistsOnce
<1>1. JobIInv => ResultPersistsOnce
  BY DEF JobIInv
<1>2. QED
  BY <1>1, JobInvariance, PTL

(* A result that is committed is one of the newest attempt, of a job that  *)
(* is still running, although the fence was read in an earlier statement.  *)
THEOREM LateResultsRefused == Spec => LateResultRefused
<1> DEFINE Current ==
      \A o \in Operation :
         applied'[o] # applied[o] =>
            /\ operation[o].state = "running"
            /\ \E h \in Handler :
                 /\ handler[h] # Nothing
                 /\ handler[h].claim = [op |-> o, attempt |-> operation[o].attempt]
<1>1. JobIInv /\ [Next]_vars => Current
  <2> SUFFICES ASSUME JobIInv, [Next]_vars, NEW o \in Operation, applied'[o] # applied[o]
               PROVE  /\ operation[o].state = "running"
                      /\ \E h \in Handler :
                           /\ handler[h] # Nothing
                           /\ handler[h].claim = [op |-> o, attempt |-> operation[o].attempt]
    OBVIOUS
  <2>1. PICK h \in Handler : SubmitResult(h)
    BY DEF Next, vars, Route, Supersede, BecomeDue, LeaseLapse, ClaimJob, ReconcileRead,
           ReconcileWrite, HeartbeatJob, Send, Drop, FencedRead, ReportError, RequestLost
  <2>2. handler[h] # Nothing /\ handler[h].claim \in Claimed
    BY <2>1, HandledCall DEF SubmitResult
  <2>3. handler[h].claim.op = o /\ Holds(operation, handler[h].claim)
    BY <2>1 DEF SubmitResult, JobIInv, TypeOK
  <2>4. handler[h].claim = [op |-> o, attempt |-> operation[o].attempt]
    BY <2>2, <2>3 DEF Claimed, Holds
  <2>5. QED
    BY <2>2, <2>3, <2>4 DEF Holds
<1>2. QED
  BY <1>1, JobInvariance, PTL DEF Spec, LateResultRefused
=============================================================================
