----------------------------- MODULE Convergence -----------------------------
(***************************************************************************)
(* enqueue with an idempotency key: one call, statement by statement,      *)
(* against workers that claim, finish and retry rows of the same key.      *)
(*                                                                         *)
(* A call looks for a running row, then up to Turns times tries to insert  *)
(* and, if a queued row is in the way, looks it up - and between any two   *)
(* statements the row it is about to find may be claimed or finished.      *)
(***************************************************************************)
EXTENDS Operations

CONSTANTS
    Caller,       \* concurrent calls of enqueue for one key
    Converging,   \* the callers with converge_with_running
    Turns         \* _CONVERGE_ATTEMPTS

ASSUME TurnsAssumption == Turns \in Nat \ {0}
ASSUME ConvergingAssumption == Converging \subseteq Caller

VARIABLES
    pc,           \* the statement each call is at
    turn,         \* how many insertions of the call have conflicted
    answer,       \* the row the call returned
    witnessed,    \* history: rows that were pending at some point of the call
    overtaken,    \* history: rows running when the call began, and ever since
    churn         \* history: how often a worker took a queued row meanwhile

enqueueVars == <<operation, pc, turn, answer, witnessed, overtaken, churn>>

NoAnswer == "none"
Calling(c) == pc[c] \in {"checking", "inserting", "looking"}

RowsIn(states) == {o \in Operation : operation[o].state \in states}

(* Fault: the look-up forgets the state.                                   *)
AcceptedInAnyState(c) == PendingStates \cup TerminalStates

Accepted(c) == IF c \in Converging THEN PendingStates ELSE {"queued"}

EnqueueInit ==
    /\ operation = [o \in Operation |-> Absent]
    /\ pc = [c \in Caller |-> "idle"]
    /\ turn = [c \in Caller |-> 0]
    /\ answer = [c \in Caller |-> NoAnswer]
    /\ witnessed = [c \in Caller |-> {}]
    /\ overtaken = [c \in Caller |-> {}]
    /\ churn = [c \in Caller |-> 0]

(* History, recorded beside every change of the table.                     *)
Observe(table) ==
    /\ witnessed' = [c \in Caller |->
          IF Calling(c)
          THEN witnessed[c] \cup {o \in Operation : table[o].state \in PendingStates}
          ELSE witnessed[c]]
    /\ overtaken' = [c \in Caller |->
          {o \in overtaken[c] : table[o].state = "running"}]

-----------------------------------------------------------------------------
(* The call.                                                               *)

Begin(c) ==
    /\ pc[c] = "idle"
    /\ pc' = [pc EXCEPT ![c] = IF c \in Converging THEN "checking" ELSE "inserting"]
    /\ witnessed' = [witnessed EXCEPT ![c] = RowsIn(PendingStates)]
    /\ overtaken' = [overtaken EXCEPT ![c] = RowsIn({"running"})]
    /\ UNCHANGED <<operation, turn, answer, churn>>

Return(c, o) ==
    /\ answer' = [answer EXCEPT ![c] = o]
    /\ pc' = [pc EXCEPT ![c] = "returned"]

(* Fault: running work is not looked for.                                  *)
CheckNothing(c) ==
    /\ pc[c] = "checking"
    /\ pc' = [pc EXCEPT ![c] = "inserting"]
    /\ UNCHANGED <<operation, turn, answer, witnessed, overtaken, churn>>

CheckRunning(c) ==
    /\ pc[c] = "checking"
    /\ \/ \E o \in RowsIn({"running"}) : Return(c, o)
       \/ /\ RowsIn({"running"}) = {}
          /\ pc' = [pc EXCEPT ![c] = "inserting"]
          /\ UNCHANGED answer
    /\ UNCHANGED <<operation, turn, witnessed, overtaken, churn>>

(* INSERT ... ON CONFLICT DO NOTHING, the conflict being a queued row.     *)
Insert(c) ==
    /\ pc[c] = "inserting"
    /\ \/ /\ RowsIn({"queued"}) = {}
          /\ \E o \in RowsIn({"absent"}) :
                LET table == [operation EXCEPT ![o] = Inserted(TRUE)] IN
                /\ operation' = table
                /\ Return(c, o)
                /\ Observe(table)
       \/ /\ RowsIn({"queued"}) # {}
          /\ pc' = [pc EXCEPT ![c] = "looking"]
          /\ UNCHANGED <<operation, answer, witnessed, overtaken>>
    /\ UNCHANGED <<turn, churn>>

(* What the look-up finds first: ORDER BY state DESC on a text column puts *)
(* "running" before "queued".                                              *)
Foremost(states) ==
    LET running == RowsIn({"running"} \cap states)
    IN  IF running # {} THEN running ELSE RowsIn(states)

(* The look-up; a call whose last turn finds nothing raises.               *)
LookUpInTurns(c, turns) ==
    /\ pc[c] = "looking"
    /\ LET found == Foremost(Accepted(c))
       IN  \/ \E o \in found : Return(c, o) /\ UNCHANGED turn
           \/ /\ found = {}
              /\ turn' = [turn EXCEPT ![c] = @ + 1]
              /\ pc' = [pc EXCEPT ![c] = IF turn[c] + 1 = turns THEN "raised" ELSE "inserting"]
              /\ UNCHANGED answer
    /\ UNCHANGED <<operation, witnessed, overtaken, churn>>

(* Faults: one turn too many, and one too few.                             *)
LookUpOnceMore(c) == LookUpInTurns(c, Turns + 1)
LookUpOnceLess(c) == LookUpInTurns(c, Turns - 1)

LookUp(c) == LookUpInTurns(c, Turns)

-----------------------------------------------------------------------------
(* The workers.  A queued row is taken whenever it is due, and expedite    *)
(* makes it due at any time.                                               *)

Work(table) ==
    /\ operation' = table
    /\ Observe(table)
    /\ UNCHANGED <<pc, turn, answer>>

TakeRow(o) ==
    /\ operation[o].state = "queued"
    /\ \E h \in Holder : Work([operation EXCEPT ![o] = Taken(@, h)])
    /\ churn' = [c \in Caller |-> IF Calling(c) THEN churn[c] + 1 ELSE churn[c]]

FinishRow(o) ==
    /\ operation[o].state = "running"
    /\ Work(AfterFinish(operation, [op |-> o, attempt |-> operation[o].attempt], "succeeded"))
    /\ UNCHANGED churn

(* A retry whose key is taken raises and changes nothing.                  *)
RetryRow(o) ==
    /\ operation[o].state = "running"
    /\ operation[o].attempt < MaxAttempts
    /\ LET next == AfterRetry(operation, [op |-> o, attempt |-> operation[o].attempt])
       IN  ~UniqueViolation(operation, next) /\ Work(next)
    /\ UNCHANGED churn

(* Every call has been answered and every row is done with.                *)
AllSettled ==
    /\ \A c \in Caller : pc[c] \in {"returned", "raised"}
    /\ RowsIn(PendingStates) = {}
    /\ UNCHANGED enqueueVars

EnqueueNext ==
    \/ \E c \in Caller : Begin(c) \/ CheckRunning(c) \/ Insert(c) \/ LookUp(c)
    \/ \E o \in Operation : TakeRow(o) \/ FinishRow(o) \/ RetryRow(o)
    \/ AllSettled

EnqueueSpec == EnqueueInit /\ [][EnqueueNext]_enqueueVars

-----------------------------------------------------------------------------
(* Properties.                                                             *)

(* Every variable holds what its declaration says.                         *)
EnqueueTypeOK ==
    /\ operation \in [Operation -> Row]
    /\ pc \in [Caller -> {"idle", "checking", "inserting", "looking", "returned", "raised"}]
    /\ turn \in [Caller -> 0 .. Turns]
    /\ answer \in [Caller -> Operation \cup {NoAnswer}]
    /\ witnessed \in [Caller -> SUBSET Operation]
    /\ overtaken \in [Caller -> SUBSET Operation]
    /\ churn \in [Caller -> Nat]

(* A call answers with work that was really pending while it ran: never    *)
(* with a row that was over before the call began.                         *)
AnswerWasPending ==
    \A c \in Caller : pc[c] = "returned" => answer[c] \in witnessed[c]

(* Losing the race with a worker is not an error: a call raises only after *)
(* a worker took the key's queued row from under it once per turn.         *)
RaisesOnlyUnderChurn ==
    \A c \in Caller : pc[c] = "raised" => churn[c] >= Turns

(* A re-detection during a run creates nothing: a converging call that     *)
(* inserted a row did so with no run in progress that had been in progress *)
(* since before the call.                                                  *)
RunningWorkIsNotDuplicated ==
    [][\A c \in Converging :
         Insert(c) /\ pc'[c] = "returned" => overtaken[c] = {}]_enqueueVars
=============================================================================
