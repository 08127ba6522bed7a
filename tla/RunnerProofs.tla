----------------------------- MODULE RunnerProofs -----------------------------
(***************************************************************************)
(* Proofs about Runner, for any number of processes, claim loops, rows,    *)
(* keys and attempts.                                                      *)
(*                                                                         *)
(* The argument is one inductive invariant about fencing: a busy slot's    *)
(* token is never ahead of its row's attempt, and whoever carries the      *)
(* current attempt finds the row running.  So the guard of a write-back    *)
(* passes for at most one slot, and never on a row that is over - not even *)
(* the guard of _dead_letter, which compares the attempt alone.            *)
(*                                                                         *)
(* A second one, about schedules, rests on it: of the runs that are over or*)
(* count on another row, one row that does not is always left to carry the *)
(* schedule on.                                                            *)
(*                                                                         *)
(* At the end, Runner implements OperationLifecycle: each step of the      *)
(* workers, of the queue's callers and of time is one step of the          *)
(* lifecycle or none.                                                      *)
(***************************************************************************)
EXTENDS Runner, TLAPS

-----------------------------------------------------------------------------
(* What the statements of Operations do to a table.                        *)

(* Between two tables at most the claim's row has changed, only if the     *)
(* claim was current, and then its state is one of states; attempt and     *)
(* cancellation flag are as they were.                                     *)
Writes(table, next, claim, states) ==
    /\ next \in [Operation -> Row]
    /\ \A o \in Operation :
        /\ next[o].attempt = table[o].attempt
        /\ next[o].cancel_requested = table[o].cancel_requested
        /\ o # claim.op \/ ~Holds(table, claim) => next[o] = table[o]
    /\ next # table => next[claim.op].state \in states

LEMMA FinishedRow ==
    ASSUME NEW row \in Row, NEW state \in TerminalStates
    PROVE  /\ Finished(row, state) \in Row
           /\ Finished(row, state).state = state
           /\ Finished(row, state).attempt = row.attempt
           /\ Finished(row, state).cancel_requested = row.cancel_requested
BY DEF Finished, Unleased, Row

LEMMA TakenRow ==
    ASSUME NEW row \in Row, NEW holder \in Holder, row.attempt <= MaxAttempts
    PROVE  /\ Taken(row, holder) \in Row
           /\ Taken(row, holder).attempt = row.attempt + 1
           /\ Taken(row, holder).cancel_requested = row.cancel_requested
           /\ \/ /\ Taken(row, holder).state = "running"
                 /\ row.attempt + 1 <= MaxAttempts
              \/ /\ Taken(row, holder).state = "dead_letter"
                 /\ row.attempt + 1 > MaxAttempts
<1> DEFINE leased == Leased(row, holder)
<1>1. /\ leased.state = "running" /\ leased.attempt = row.attempt + 1
      /\ leased.cancel_requested = row.cancel_requested
  BY DEF Leased, Row
<1>2. row.attempt + 1 \in 0 .. MaxAttempts + 1
  BY MaxAttemptsAssumption DEF Row
<1>3. leased \in Row
  BY <1>2 DEF Leased, Row, PendingStates
<1>4. CASE leased.attempt > MaxAttempts
  <2>1. Taken(row, holder) = Finished(leased, "dead_letter")
    BY <1>4 DEF Taken
  <2>2. "dead_letter" \in TerminalStates
    BY DEF TerminalStates
  <2>3. QED
    BY <1>1, <1>3, <1>4, <2>1, <2>2, FinishedRow
<1>5. CASE ~(leased.attempt > MaxAttempts)
  <2>1. Taken(row, holder) = leased
    BY <1>5 DEF Taken
  <2>2. QED
    BY <1>1, <1>2, <1>3, <1>5, <2>1, MaxAttemptsAssumption
<1>6. QED
  BY <1>4, <1>5

LEMMA RequeuedRow ==
    ASSUME NEW row \in Row, NEW due \in BOOLEAN
    PROVE  /\ Requeued(row, due) \in Row
           /\ Requeued(row, due).state = "queued"
           /\ Requeued(row, due).attempt = row.attempt
           /\ Requeued(row, due).cancel_requested = row.cancel_requested
BY DEF Requeued, Unleased, Row, PendingStates

LEMMA OneRowWrites ==
    ASSUME NEW table \in [Operation -> Row], NEW claim \in Claimed, NEW row \in Row,
           NEW states, Holds(table, claim), row.state \in states,
           row.attempt = table[claim.op].attempt,
           row.cancel_requested = table[claim.op].cancel_requested
    PROVE  Writes(table, [table EXCEPT ![claim.op] = row], claim, states)
BY DEF Writes, Claimed

LEMMA NothingWrites ==
    ASSUME NEW table \in [Operation -> Row], NEW claim \in Claimed, NEW states
    PROVE  Writes(table, table, claim, states)
BY DEF Writes

LEMMA FinishWrites ==
    ASSUME NEW table \in [Operation -> Row], NEW claim \in Claimed,
           NEW state \in TerminalStates
    PROVE  Writes(table, AfterFinish(table, claim, state), claim, {state})
<1>1. table[claim.op] \in Row
  BY DEF Claimed
<1>2. CASE Holds(table, claim)
  BY <1>1, <1>2, FinishedRow, OneRowWrites DEF AfterFinish
<1>3. CASE ~Holds(table, claim)
  BY <1>3, NothingWrites DEF AfterFinish
<1>4. QED
  BY <1>2, <1>3

(* _dead_letter is as safe as the others where a current claim's row is    *)
(* known to be running.                                                    *)
LEMMA FailWrites ==
    ASSUME NEW table \in [Operation -> Row], NEW claim \in Claimed,
           NEW retryable \in BOOLEAN,
           table[claim.op].attempt = claim.attempt => table[claim.op].state = "running"
    PROVE  /\ Writes(table, AfterFail(table, claim, retryable), claim,
                     {"failed", "dead_letter", "queued"})
           /\ /\ AfterFail(table, claim, retryable) # table
              /\ AfterFail(table, claim, retryable)[claim.op].state = "dead_letter"
              => claim.attempt >= MaxAttempts
<1>1. table[claim.op] \in Row /\ claim.op \in Operation
  BY DEF Claimed
<1>2. "failed" \in TerminalStates /\ "dead_letter" \in TerminalStates
  BY DEF TerminalStates
<1>3. CASE ~Holds(table, claim)
  BY <1>3, NothingWrites
     DEF AfterFail, AfterFinish, AfterDeadLetter, AfterRetry, Holds
<1>4. CASE Holds(table, claim) /\ ~retryable
  <2> DEFINE row == Finished(table[claim.op], "failed")
             next == AfterFail(table, claim, retryable)
  <2>1. next = [table EXCEPT ![claim.op] = row]
    BY <1>4 DEF AfterFail, AfterFinish
  <2>2. /\ row \in Row /\ row.state = "failed"
        /\ row.attempt = table[claim.op].attempt
        /\ row.cancel_requested = table[claim.op].cancel_requested
    BY <1>1, <1>2, FinishedRow
  <2>3. next[claim.op] = row
    BY <1>1, <2>1
  <2> HIDE DEF row, next
  <2>4. Writes(table, next, claim, {"failed", "dead_letter", "queued"})
    BY <1>4, <2>1, <2>2, OneRowWrites
  <2>5. next[claim.op].state = "dead_letter" => claim.attempt >= MaxAttempts
    BY <1>4, <2>2, <2>3
  <2>6. QED
    BY <2>4, <2>5 DEF next
<1>5. CASE Holds(table, claim) /\ retryable /\ claim.attempt >= MaxAttempts
  <2> DEFINE row == Finished(table[claim.op], "dead_letter")
             next == AfterFail(table, claim, retryable)
  <2>1. next = [table EXCEPT ![claim.op] = row]
    BY <1>5 DEF AfterFail, AfterDeadLetter, Holds
  <2>2. /\ row \in Row /\ row.state = "dead_letter"
        /\ row.attempt = table[claim.op].attempt
        /\ row.cancel_requested = table[claim.op].cancel_requested
    BY <1>1, <1>2, FinishedRow
  <2>3. next[claim.op] = row
    BY <1>1, <2>1
  <2> HIDE DEF row, next
  <2>4. Writes(table, next, claim, {"failed", "dead_letter", "queued"})
    BY <1>5, <2>1, <2>2, OneRowWrites
  <2>5. next[claim.op].state = "dead_letter" => claim.attempt >= MaxAttempts
    BY <1>5, <2>2, <2>3
  <2>6. QED
    BY <2>4, <2>5 DEF next
<1>6. CASE Holds(table, claim) /\ retryable /\ ~(claim.attempt >= MaxAttempts)
  <2> DEFINE row == Requeued(table[claim.op], FALSE)
             next == AfterFail(table, claim, retryable)
  <2>1. next = [table EXCEPT ![claim.op] = row]
    BY <1>6 DEF AfterFail, AfterRetry
  <2>2. /\ row \in Row /\ row.state = "queued"
        /\ row.attempt = table[claim.op].attempt
        /\ row.cancel_requested = table[claim.op].cancel_requested
    BY <1>1, <1>2, RequeuedRow
  <2>3. next[claim.op] = row
    BY <1>1, <2>1
  <2> HIDE DEF row, next
  <2>4. Writes(table, next, claim, {"failed", "dead_letter", "queued"})
    BY <1>6, <2>1, <2>2, OneRowWrites
  <2>5. next[claim.op].state = "dead_letter" => claim.attempt >= MaxAttempts
    BY <1>6, <2>2, <2>3
  <2>6. QED
    BY <2>4, <2>5 DEF next
<1>7. QED
  BY <1>3, <1>4, <1>5, <1>6

LEMMA ReleaseWrites ==
    ASSUME NEW table \in [Operation -> Row], NEW claim \in Claimed, NEW holder \in Holder
    PROVE  Writes(table, AfterRelease(table, claim, holder), claim, {"queued"})
<1>1. table[claim.op] \in Row
  BY DEF Claimed
<1>2. CASE HoldsLease(table, claim, holder)
  BY <1>1, <1>2, RequeuedRow, OneRowWrites DEF AfterRelease, HoldsLease
<1>3. CASE ~HoldsLease(table, claim, holder)
  BY <1>3, NothingWrites DEF AfterRelease
<1>4. QED
  BY <1>2, <1>3

LEMMA InsertedRow ==
    ASSUME NEW due \in BOOLEAN
    PROVE  /\ Inserted(due) \in Row
           /\ Inserted(due).state = "queued"
           /\ Inserted(due).attempt = 0
           /\ Inserted(due).cancel_requested = FALSE
<1>1. 0 \in 0 .. MaxAttempts + 1
  BY MaxAttemptsAssumption
<1>2. Absent \in Row
  BY <1>1 DEF Absent, Row
<1>3. Absent.attempt = 0 /\ Absent.cancel_requested = FALSE
  BY DEF Absent
<1> HIDE DEF Absent
<1>4. QED
  BY <1>2, <1>3 DEF Inserted, Row, PendingStates

-----------------------------------------------------------------------------
(* The inductive invariant.                                                *)

(* A row that can still be claimed has an attempt left to count, and one   *)
(* that is not inserted yet is blank.                                      *)
WithinBudget ==
    \A o \in Operation :
        /\ operation[o].state \in PendingStates => operation[o].attempt <= MaxAttempts
        /\ operation[o].state = "absent" =>
              operation[o].attempt = 0 /\ ~operation[o].cancel_requested

(* A token is never ahead of its row.                                      *)
TokenIsIssued ==
    \A s \in Slot :
        Busy(s) => held[s] \in Claimed /\ held[s].attempt <= operation[held[s].op].attempt

(* The row of whoever carries the current token is running.                *)
CurrentIsRunning ==
    \A s \in Slot :
        Busy(s) /\ held[s].attempt = operation[held[s].op].attempt
            => operation[held[s].op].state = "running"

(* Work is stopped for a cancellation only if its row asks for one; a slot *)
(* between two operations has no reason to stop.                           *)
StoppedBecauseAsked ==
    \A s \in Slot :
        IF Busy(s)
        THEN stopped[s] = "cancel_requested" => operation[held[s].op].cancel_requested
        ELSE stopped[s] = "none"

IInv ==
    /\ TypeOK
    /\ WithinBudget
    /\ TokenIsIssued
    /\ CurrentIsRunning
    /\ StoppedBecauseAsked
    /\ FencingTokenUnique
    /\ EffectsMatchState
    /\ CancelledOnlyIfAsked
    /\ DeadLetterOnlyExhausted

-----------------------------------------------------------------------------
(* Three kinds of steps that preserve the invariant.                       *)

StoppedValues == {"none", "cancel_requested", "lease_lost"}

(* No slot takes or leaves an operation, and no attempt is counted: the    *)
(* handler's and the lease-keeper's steps, and those of time and callers.  *)
LEMMA QuietStep ==
    ASSUME IInv, operation' \in [Operation -> Row],
           \A o \in Operation :
              /\ operation'[o].attempt = operation[o].attempt
              /\ operation[o].cancel_requested => operation'[o].cancel_requested
              /\ operation[o].state = "absent" =>
                    operation'[o].cancel_requested = operation[o].cancel_requested
              /\ \/ operation'[o].state = operation[o].state
                 \/ /\ operation[o].state = "queued"
                    /\ operation'[o].state = "cancelled"
                    /\ operation'[o].cancel_requested,
           pc' \in [Slot -> Phases], \A t \in Slot : Busy(t)' <=> Busy(t),
           UNCHANGED <<held, effects>>,
           armed' \in [Slot -> Operation \cup {NoOperation}],
           stopped' \in [Slot -> StoppedValues],
           \A t \in Slot :
              IF Busy(t) /\ stopped'[t] = "cancel_requested"
              THEN stopped[t] = "cancel_requested" \/ operation[held[t].op].cancel_requested
              ELSE Busy(t) \/ stopped'[t] = stopped[t]
    PROVE  IInv'
<1>1. TypeOK'
  BY DEF IInv, TypeOK, StoppedValues
<1>2. WithinBudget'
  BY DEF IInv, WithinBudget, PendingStates
<1>3. TokenIsIssued'
  BY DEF IInv, TokenIsIssued, Claimed
<1>4. CurrentIsRunning'
  BY DEF IInv, CurrentIsRunning, TokenIsIssued, Claimed
<1>5. StoppedBecauseAsked'
  BY DEF IInv, StoppedBecauseAsked, TokenIsIssued, Claimed
<1>6. FencingTokenUnique'
  BY DEF IInv, FencingTokenUnique
<1>7. EffectsMatchState'
  BY DEF IInv, EffectsMatchState
<1>8. CancelledOnlyIfAsked'
  BY DEF IInv, CancelledOnlyIfAsked
<1>9. DeadLetterOnlyExhausted'
  BY DEF IInv, DeadLetterOnlyExhausted
<1>10. QED
  BY <1>1, <1>2, <1>3, <1>4, <1>5, <1>6, <1>7, <1>8, <1>9 DEF IInv

(* After Leave the slot is idle and the others are as they were.           *)
LEMMA LeaveEffect ==
    ASSUME IInv, NEW s \in Slot, Leave(s)
    PROVE  /\ pc' \in [Slot -> Phases]
           /\ held' \in [Slot -> Claimed \cup {Idle}]
           /\ stopped' \in [Slot -> StoppedValues]
           /\ armed' \in [Slot -> Operation \cup {NoOperation}]
           /\ \A t \in Slot : IF Busy(t)'
                            THEN /\ t # s /\ Busy(t)
                                 /\ held'[t] = held[t]
                                 /\ stopped'[t] = stopped[t]
                            ELSE stopped'[t] = "none"
BY DEF IInv, TypeOK, StoppedBecauseAsked, Leave, Busy, Phases, StoppedValues

(* A slot writes its end into its row, if its claim is current, and leaves.*)
LEMMA SettleStep ==
    ASSUME IInv, NEW s \in Slot, Busy(s), Leave(s), UNCHANGED effects,
           Writes(operation, operation', held[s],
                  {"queued", "failed", "dead_letter", "cancelled"}),
           operation' # operation =>
              /\ operation'[held[s].op].state = "dead_letter" => held[s].attempt >= MaxAttempts
              /\ operation'[held[s].op].state = "cancelled" =>
                    operation[held[s].op].cancel_requested
    PROVE  IInv'
<1> DEFINE mine == held[s].op
<1>1. mine \in Operation /\ held[s] \in Claimed
  BY DEF IInv, TokenIsIssued, Claimed
<1>2. /\ operation' \in [Operation -> Row]
      /\ \A o \in Operation : /\ operation'[o].attempt = operation[o].attempt
                              /\ operation'[o].cancel_requested = operation[o].cancel_requested
                              /\ o # mine => operation'[o] = operation[o]
  BY DEF Writes
<1>3. CASE operation' = operation
  <2>1. TypeOK'
    BY <1>3, LeaveEffect DEF IInv, TypeOK, StoppedValues
  <2>2. WithinBudget' /\ EffectsMatchState' /\ CancelledOnlyIfAsked' /\ DeadLetterOnlyExhausted'
    BY <1>3 DEF IInv, WithinBudget, EffectsMatchState, CancelledOnlyIfAsked,
                DeadLetterOnlyExhausted
  <2>3. TokenIsIssued' /\ CurrentIsRunning' /\ StoppedBecauseAsked' /\ FencingTokenUnique'
    BY <1>3, LeaveEffect DEF IInv, TokenIsIssued, CurrentIsRunning, StoppedBecauseAsked,
                             FencingTokenUnique
  <2>4. QED
    BY <2>1, <2>2, <2>3 DEF IInv
<1>4. CASE operation' # operation
  <2>1. /\ Holds(operation, held[s])
        /\ operation'[mine].state \in {"queued", "failed", "dead_letter", "cancelled"}
    BY <1>4, <1>1, <1>2 DEF Writes, IInv, TypeOK
  <2>2. TypeOK'
    BY <1>2, LeaveEffect DEF IInv, TypeOK, StoppedValues
  <2>3. WithinBudget'
    BY <1>1, <1>2, <2>1 DEF IInv, WithinBudget, Holds, PendingStates
  <2>4. TokenIsIssued' /\ StoppedBecauseAsked' /\ FencingTokenUnique'
    BY <1>1, <1>2, LeaveEffect
       DEF IInv, TokenIsIssued, StoppedBecauseAsked, FencingTokenUnique, Claimed
  <2>5. CurrentIsRunning'
    <3> SUFFICES ASSUME NEW t \in Slot, Busy(t)',
                        held'[t].attempt = operation'[held'[t].op].attempt
                 PROVE  operation'[held'[t].op].state = "running"
      BY DEF CurrentIsRunning
    <3>1. t # s /\ Busy(t) /\ held'[t] = held[t] /\ held[t] \in Claimed
      BY LeaveEffect DEF IInv, TokenIsIssued
    <3>2. held[t].attempt = operation[held[t].op].attempt
      BY <1>2, <3>1 DEF Claimed
    <3>3. held[t].op # mine
      BY <1>1, <2>1, <3>1, <3>2 DEF IInv, FencingTokenUnique, Holds, Claimed
    <3>4. QED
      BY <1>2, <3>1, <3>2, <3>3 DEF IInv, CurrentIsRunning, Claimed
  <2>6. EffectsMatchState'
    BY <1>1, <1>2, <2>1 DEF IInv, EffectsMatchState, Holds
  <2>7. CancelledOnlyIfAsked'
    BY <1>1, <1>2, <1>4 DEF IInv, CancelledOnlyIfAsked
  <2>8. DeadLetterOnlyExhausted'
    BY <1>1, <1>2, <1>4, <2>1 DEF IInv, DeadLetterOnlyExhausted, Holds
  <2>9. QED
    BY <2>2, <2>3, <2>4, <2>5, <2>6, <2>7, <2>8 DEF IInv
<1>5. QED
  BY <1>3, <1>4

-----------------------------------------------------------------------------
(* The steps of one slot.                                                  *)

(* A claim takes one row, still pending and with an attempt left to count, *)
(* and either leases it to the slot or turns it into a dead letter.        *)
LEMMA ClaimEffect ==
    ASSUME IInv, NEW s \in Slot, Claim(s)
    PROVE  \E o \in Operation :
             /\ operation[o].state \in PendingStates
             /\ operation[o].attempt \in 0 .. MaxAttempts
             /\ operation' \in [Operation -> Row]
             /\ \A p \in Operation : p # o => operation'[p] = operation[p]
             /\ operation'[o].attempt = operation[o].attempt + 1
             /\ operation'[o].cancel_requested = operation[o].cancel_requested
             /\ \/ /\ operation'[o].state = "running" /\ operation[o].attempt < MaxAttempts
                   /\ pc' = [pc EXCEPT ![s] = "working"]
                   /\ held' = [held EXCEPT ![s] = [op |-> o, attempt |-> operation'[o].attempt]]
                \/ /\ operation'[o].state = "dead_letter" /\ operation[o].attempt = MaxAttempts
                   /\ UNCHANGED <<pc, held>>
<1>1. PICK o \in Operation :
        /\ Claimable(operation[o])
        /\ operation' = [operation EXCEPT ![o] = Taken(@, ProcessOf[s])]
        /\ IF operation'[o].state = "running"
           THEN /\ pc' = [pc EXCEPT ![s] = "working"]
                /\ held' = [held EXCEPT ![s] = [op |-> o, attempt |-> operation'[o].attempt]]
           ELSE UNCHANGED <<pc, held>>
  BY DEF Claim
<1> DEFINE row == operation[o]
<1>2. /\ row \in Row /\ row.attempt <= MaxAttempts /\ row.attempt \in 0 .. MaxAttempts
      /\ row.state \in PendingStates
  BY <1>1, MaxAttemptsAssumption DEF IInv, TypeOK, WithinBudget, Claimable, PendingStates, Row
<1>3. ProcessOf[s] \in Holder /\ operation \in [Operation -> Row]
  BY ProcessOfAssumption DEF IInv, TypeOK
<1>4. operation'[o] = Taken(row, ProcessOf[s])
  BY <1>1, <1>3
<1> HIDE DEF row
<1>5. /\ operation'[o] \in Row
      /\ operation'[o].attempt = row.attempt + 1
      /\ operation'[o].cancel_requested = row.cancel_requested
      /\ \/ operation'[o].state = "running" /\ row.attempt + 1 <= MaxAttempts
         \/ operation'[o].state = "dead_letter" /\ row.attempt + 1 > MaxAttempts
  BY <1>2, <1>3, <1>4, TakenRow
<1>6. /\ operation' \in [Operation -> Row]
      /\ \A p \in Operation : p # o => operation'[p] = operation[p]
  BY <1>1, <1>3, <1>4, <1>5
<1>7. QED
  BY <1>1, <1>2, <1>5, <1>6, MaxAttemptsAssumption DEF row

(* The new token is larger than every token out there, so the claim leaves *)
(* its predecessors behind and is the only current one.                    *)
LEMMA ClaimStep ==
    ASSUME IInv, NEW s \in Slot, Claim(s)
    PROVE  IInv'
<1>1. PICK o \in Operation :
        /\ operation[o].state \in PendingStates
        /\ operation[o].attempt \in 0 .. MaxAttempts
        /\ operation' \in [Operation -> Row]
        /\ \A p \in Operation : p # o => operation'[p] = operation[p]
        /\ operation'[o].attempt = operation[o].attempt + 1
        /\ operation'[o].cancel_requested = operation[o].cancel_requested
        /\ \/ /\ operation'[o].state = "running" /\ operation[o].attempt < MaxAttempts
              /\ pc' = [pc EXCEPT ![s] = "working"]
              /\ held' = [held EXCEPT ![s] = [op |-> o, attempt |-> operation'[o].attempt]]
           \/ /\ operation'[o].state = "dead_letter" /\ operation[o].attempt = MaxAttempts
              /\ UNCHANGED <<pc, held>>
  BY ClaimEffect
<1> DEFINE row == operation[o]
<1>2. row.attempt \in 0 .. MaxAttempts /\ row.state \in PendingStates /\ row \in Row
  BY <1>1 DEF IInv, TypeOK
<1>3. /\ operation' \in [Operation -> Row]
      /\ \A p \in Operation : p # o => operation'[p] = operation[p]
      /\ operation'[o].attempt = row.attempt + 1
      /\ operation'[o].cancel_requested = row.cancel_requested
      /\ \/ operation'[o].state = "running" /\ row.attempt + 1 <= MaxAttempts
         \/ operation'[o].state = "dead_letter" /\ row.attempt + 1 > MaxAttempts
  BY <1>1, MaxAttemptsAssumption
<1>4. pc[s] = "idle" /\ UNCHANGED <<stopped, armed, effects>>
  BY DEF Claim
<1>5. \A t \in Slot : Busy(t)' =>
        \/ /\ t = s /\ held'[t] = [op |-> o, attempt |-> row.attempt + 1]
           /\ operation'[o].state = "running"
        \/ t # s /\ Busy(t) /\ held'[t] = held[t]
  BY <1>1, <1>3, <1>4 DEF Busy, IInv, TypeOK
<1>6. \A t \in Slot : Busy(t) =>
        /\ held[t] \in Claimed
        /\ held[t].op = o => held[t].attempt < row.attempt + 1
  BY <1>2 DEF IInv, TokenIsIssued, Claimed
<1>7. TypeOK'
  <2>1. operation'[o].state = "running" =>
          [op |-> o, attempt |-> operation'[o].attempt] \in Claimed
    BY <1>2, <1>3 DEF Claimed
  <2>2. pc' \in [Slot -> Phases] /\ held' \in [Slot -> Claimed \cup {Idle}]
    BY <1>1, <2>1 DEF IInv, TypeOK, Phases
  <2>3. QED
    BY <1>3, <1>4, <2>2 DEF IInv, TypeOK
<1>8. WithinBudget'
  BY <1>2, <1>3 DEF IInv, WithinBudget, PendingStates
<1>9. TokenIsIssued'
  <2> SUFFICES ASSUME NEW t \in Slot, Busy(t)'
               PROVE  held'[t] \in Claimed /\ held'[t].attempt <= operation'[held'[t].op].attempt
    BY DEF TokenIsIssued
  <2>1. CASE t = s
    BY <1>2, <1>3, <1>5, <2>1 DEF Claimed
  <2>2. CASE t # s
    BY <1>2, <1>3, <1>5, <2>2 DEF IInv, TokenIsIssued, Claimed
  <2>3. QED
    BY <2>1, <2>2
<1>10. CurrentIsRunning'
  <2> SUFFICES ASSUME NEW t \in Slot, Busy(t)',
                      held'[t].attempt = operation'[held'[t].op].attempt
               PROVE  operation'[held'[t].op].state = "running"
    BY DEF CurrentIsRunning
  <2>1. CASE t = s
    BY <1>5, <2>1
  <2>2. CASE t # s
    <3>1. Busy(t) /\ held'[t] = held[t] /\ held[t] \in Claimed
      BY <1>5, <1>6, <2>2
    <3>2. held[t].op # o
      BY <1>2, <1>3, <1>6, <3>1 DEF Claimed
    <3>3. QED
      BY <1>3, <3>1, <3>2 DEF IInv, CurrentIsRunning, Claimed
  <2>3. QED
    BY <2>1, <2>2
<1>11. StoppedBecauseAsked'
  <2>1. stopped[s] = "none"
    BY <1>4 DEF IInv, StoppedBecauseAsked, Busy
  <2>2. QED
    BY <1>1, <1>3, <1>4, <1>5, <1>6, <2>1 DEF IInv, TypeOK, StoppedBecauseAsked, Claimed, Busy
<1>12. FencingTokenUnique'
  BY <1>2, <1>5, <1>6 DEF IInv, FencingTokenUnique, Claimed
<1>13. EffectsMatchState'
  BY <1>2, <1>3, <1>4 DEF IInv, EffectsMatchState, PendingStates
<1>14. CancelledOnlyIfAsked'
  BY <1>3 DEF IInv, CancelledOnlyIfAsked
<1>15. DeadLetterOnlyExhausted'
  BY <1>2, <1>3, MaxAttemptsAssumption DEF IInv, DeadLetterOnlyExhausted
<1>16. QED
  BY <1>7, <1>8, <1>9, <1>10, <1>11, <1>12, <1>13, <1>14, <1>15 DEF IInv

(* Nobody works on a row that has not been inserted.                       *)
LEMMA NobodyHoldsAbsent ==
    ASSUME IInv, NEW t \in Slot, Busy(t)
    PROVE  /\ held[t] \in Claimed /\ held[t].op \in Operation
           /\ operation[held[t].op].state # "absent"
BY DEF IInv, TokenIsIssued, WithinBudget, Claimed

(* A current claim succeeds, with its effects, and perhaps a successor is  *)
(* inserted; no other row changes.                                         *)
LEMMA SuccessEffect ==
    ASSUME IInv, NEW s \in Slot, RecordSuccess(s), Holds(operation, held[s])
    PROVE  LET mine == held[s].op IN
           /\ operation' \in [Operation -> Row]
           /\ operation[mine].state = "running" /\ operation[mine].attempt = held[s].attempt
           /\ operation'[mine].state = "succeeded"
           /\ operation'[mine].attempt = operation[mine].attempt
           /\ operation'[mine].cancel_requested = operation[mine].cancel_requested
           /\ \/ \A o \in Operation \ {mine} : operation'[o] = operation[o]
              \/ \E successor \in Operation \ {mine} :
                   /\ operation[successor].state = "absent"
                   /\ operation'[successor] = Inserted(FALSE)
                   /\ \A o \in Operation \ {mine, successor} : operation'[o] = operation[o]
           /\ effects' = [effects EXCEPT ![mine] = @ + 1]
<1> DEFINE mine == held[s].op
           done == AfterFinish(operation, held[s], "succeeded")
           row == Finished(operation[mine], "succeeded")
<1>1. /\ mine \in Operation /\ operation \in [Operation -> Row]
      /\ operation[mine] \in Row
  BY NobodyHoldsAbsent DEF RecordSuccess, Busy, IInv, TypeOK
<1>2. /\ done = [operation EXCEPT ![mine] = row]
      /\ operation' = IF Uncommitted(s) THEN [done EXCEPT ![armed[s]] = Inserted(FALSE)]
                                       ELSE done
      /\ effects' = [effects EXCEPT ![mine] = @ + 1]
  BY DEF RecordSuccess, AfterFinish
<1>3. /\ row \in Row /\ row.state = "succeeded"
      /\ row.attempt = operation[mine].attempt
      /\ row.cancel_requested = operation[mine].cancel_requested
  BY <1>1, FinishedRow DEF TerminalStates
<1>4. operation[mine].state = "running" /\ operation[mine].attempt = held[s].attempt
  BY DEF Holds
<1> HIDE DEF row, done, mine
<1>5. CASE Uncommitted(s)
  <2>1. armed[s] \in Operation \ {mine} /\ operation[armed[s]].state = "absent"
    BY <1>4, <1>5 DEF Uncommitted, IInv, TypeOK
  <2>2. /\ operation'[mine] = row
        /\ operation'[armed[s]] = Inserted(FALSE)
        /\ \A o \in Operation \ {mine, armed[s]} : operation'[o] = operation[o]
        /\ operation' \in [Operation -> Row]
    BY <1>1, <1>2, <1>3, <1>5, <2>1, InsertedRow
  <2>3. QED
    BY <1>2, <1>3, <1>4, <2>1, <2>2 DEF mine
<1>6. CASE ~Uncommitted(s)
  <2>1. /\ operation'[mine] = row
        /\ \A o \in Operation \ {mine} : operation'[o] = operation[o]
        /\ operation' \in [Operation -> Row]
    BY <1>1, <1>2, <1>3, <1>6
  <2>2. QED
    BY <1>2, <1>3, <1>4, <2>1 DEF mine
<1>7. QED
  BY <1>5, <1>6

(* The successor is nobody's work, and the claim was nobody else's.        *)
LEMMA RecordSuccessStep ==
    ASSUME IInv, NEW s \in Slot, RecordSuccess(s)
    PROVE  IInv'
<1> DEFINE mine == held[s].op
<1>1. /\ Busy(s) /\ Leave(s)
      /\ mine \in Operation /\ held[s] \in Claimed
      /\ operation \in [Operation -> Row] /\ operation[mine] \in Row
  BY NobodyHoldsAbsent DEF RecordSuccess, Busy, IInv, TypeOK
<1>2. CASE ~Holds(operation, held[s])
  <2>1. UNCHANGED <<operation, effects>>
    BY <1>2 DEF RecordSuccess
  <2>2. Writes(operation, operation', held[s], {"queued", "failed", "dead_letter", "cancelled"})
    BY <1>1, <2>1, NothingWrites
  <2>3. QED
    BY <1>1, <2>1, <2>2, SettleStep
<1>3. CASE Holds(operation, held[s])
  <2> DEFINE row == operation'[mine]
  <2>1. effects' = [effects EXCEPT ![mine] = @ + 1]
    BY <1>3, SuccessEffect
  <2>2. /\ row.state = "succeeded"
        /\ row.attempt = operation[mine].attempt
        /\ row.cancel_requested = operation[mine].cancel_requested
    BY <1>3, SuccessEffect
  <2>3. operation[mine].state = "running" /\ operation[mine].attempt = held[s].attempt
    BY <1>3 DEF Holds
  <2>4. /\ operation' \in [Operation -> Row]
        /\ operation'[mine] = row
        /\ \A o \in Operation \ {mine} :
             \/ operation'[o] = operation[o]
             \/ operation[o].state = "absent" /\ operation'[o] = Inserted(FALSE)
    BY <1>3, SuccessEffect
  <2>5. /\ Inserted(FALSE).state = "queued" /\ Inserted(FALSE).attempt = 0
        /\ Inserted(FALSE).cancel_requested = FALSE
    BY InsertedRow
  <2> HIDE DEF row
  <2>6. \A t \in Slot : Busy(t)' =>
          /\ t # s /\ Busy(t) /\ held'[t] = held[t] /\ stopped'[t] = stopped[t]
          /\ held[t] \in Claimed /\ held[t].op \in Operation
          /\ held[t].op # mine => operation'[held[t].op] = operation[held[t].op]
          /\ held[t].op = mine => held[t].attempt # operation[mine].attempt
    <3> SUFFICES ASSUME NEW t \in Slot, Busy(t)'
                 PROVE  /\ t # s /\ Busy(t) /\ held'[t] = held[t] /\ stopped'[t] = stopped[t]
                        /\ held[t] \in Claimed /\ held[t].op \in Operation
                        /\ held[t].op # mine => operation'[held[t].op] = operation[held[t].op]
                        /\ held[t].op = mine => held[t].attempt # operation[mine].attempt
      OBVIOUS
    <3>1. t # s /\ Busy(t) /\ held'[t] = held[t] /\ stopped'[t] = stopped[t]
      BY <1>1, LeaveEffect
    <3>2. /\ held[t] \in Claimed /\ held[t].op \in Operation
          /\ operation[held[t].op].state # "absent"
      BY <3>1, NobodyHoldsAbsent
    <3>3. held[t].op # mine => operation'[held[t].op] = operation[held[t].op]
      BY <2>4, <3>2
    <3>4. held[t].op = mine => held[t].attempt # held[s].attempt
      BY <1>1, <3>1, <3>2 DEF IInv, FencingTokenUnique, Claimed
    <3>5. QED
      BY <2>3, <3>1, <3>2, <3>3, <3>4
  <2>7. TypeOK'
    <3>1. effects' \in [Operation -> Nat]
      BY <1>1, <2>1 DEF IInv, TypeOK
    <3>2. QED
      BY <1>1, <2>4, <3>1, LeaveEffect DEF IInv, TypeOK, StoppedValues
  <2>8. WithinBudget'
    <3> SUFFICES ASSUME NEW o \in Operation
                 PROVE  /\ operation'[o].state \in PendingStates =>
                             operation'[o].attempt <= MaxAttempts
                        /\ operation'[o].state = "absent" =>
                             operation'[o].attempt = 0 /\ ~operation'[o].cancel_requested
      BY DEF WithinBudget
    <3>1. CASE o = mine
      BY <2>2, <2>4, <3>1 DEF PendingStates
    <3>2. CASE o # mine
      <4>1. CASE operation'[o] = operation[o]
        BY <4>1 DEF IInv, WithinBudget
      <4>2. CASE operation'[o] = Inserted(FALSE)
        <5>1. operation'[o].attempt = 0
          BY <2>5, <4>2
        <5>2. 0 <= MaxAttempts
          BY MaxAttemptsAssumption
        <5>3. QED
          BY <2>5, <4>2, <5>1, <5>2
      <4>3. QED
        BY <2>4, <3>2, <4>1, <4>2
    <3>3. QED
      BY <3>1, <3>2
  <2>9. TokenIsIssued'
    BY <1>1, <2>2, <2>4, <2>6 DEF IInv, TokenIsIssued
  <2>10. CurrentIsRunning'
    BY <1>1, <2>2, <2>4, <2>6 DEF IInv, CurrentIsRunning
  <2>11. StoppedBecauseAsked'
    BY <1>1, <2>2, <2>4, <2>6, LeaveEffect DEF IInv, StoppedBecauseAsked
  <2>12. FencingTokenUnique'
    BY <2>6 DEF IInv, FencingTokenUnique
  <2>13. EffectsMatchState'
    <3>1. effects[mine] = 0 /\ effects \in [Operation -> Nat]
      BY <1>1, <2>3 DEF IInv, TypeOK, EffectsMatchState
    <3>2. /\ effects'[mine] = 1
          /\ \A o \in Operation \ {mine} : effects'[o] = effects[o]
      BY <1>1, <2>1, <3>1
    <3>3. \A o \in Operation \ {mine} :
            operation'[o].state = "succeeded" <=> operation[o].state = "succeeded"
      BY <2>4, <2>5
    <3>4. QED
      BY <2>2, <2>4, <3>2, <3>3 DEF IInv, EffectsMatchState
  <2>14. CancelledOnlyIfAsked' /\ DeadLetterOnlyExhausted'
    BY <1>1, <2>2, <2>4, <2>5 DEF IInv, CancelledOnlyIfAsked, DeadLetterOnlyExhausted
  <2>15. QED
    BY <2>7, <2>8, <2>9, <2>10, <2>11, <2>12, <2>13, <2>14 DEF IInv
<1>4. QED
  BY <1>2, <1>3

(* A failure is recorded on the current claim only, and as a dead letter   *)
(* only when its attempt was the last.                                     *)
LEMMA RecordFailureStep ==
    ASSUME IInv, NEW s \in Slot, RecordFailure(s)
    PROVE  IInv'
<1> DEFINE next == AfterFail(operation, held[s], pc[s] = "failing")
<1>1. /\ Busy(s) /\ Leave(s) /\ UNCHANGED effects
      /\ operation' = operation \/ operation' = next
      /\ held[s] \in Claimed /\ held[s].op \in Operation /\ operation \in [Operation -> Row]
  BY NobodyHoldsAbsent DEF RecordFailure, Busy, IInv, TypeOK
<1>2. operation[held[s].op].attempt = held[s].attempt => operation[held[s].op].state = "running"
  BY <1>1 DEF IInv, CurrentIsRunning
<1>3. /\ Writes(operation, next, held[s], {"failed", "dead_letter", "queued"})
      /\ next # operation /\ next[held[s].op].state = "dead_letter"
         => held[s].attempt >= MaxAttempts
  BY <1>1, <1>2, FailWrites
<1> HIDE DEF next
<1>4. Writes(operation, operation', held[s], {"queued", "failed", "dead_letter", "cancelled"})
  BY <1>1, <1>3, NothingWrites DEF Writes
<1>5. operation' # operation => operation'[held[s].op].state # "cancelled"
  BY <1>1, <1>3 DEF Writes
<1>6. QED
  BY <1>1, <1>3, <1>4, <1>5, SettleStep

LEMMA RecordCancelledStep ==
    ASSUME IInv, NEW s \in Slot, RecordCancelled(s)
    PROVE  IInv'
<1> DEFINE next == AfterFinish(operation, held[s], "cancelled")
<1>1. /\ Busy(s) /\ Leave(s) /\ UNCHANGED effects /\ operation' = next
      /\ held[s] \in Claimed /\ operation \in [Operation -> Row]
  BY NobodyHoldsAbsent DEF RecordCancelled, Busy, IInv, TypeOK
<1>2. operation[held[s].op].cancel_requested
  BY <1>1 DEF RecordCancelled, IInv, StoppedBecauseAsked
<1>3. Writes(operation, next, held[s], {"cancelled"})
  BY <1>1, FinishWrites DEF TerminalStates
<1> HIDE DEF next
<1>4. Writes(operation, operation', held[s], {"queued", "failed", "dead_letter", "cancelled"})
  BY <1>1, <1>3 DEF Writes
<1>5. operation' # operation => operation'[held[s].op].state # "dead_letter"
  BY <1>1, <1>3 DEF Writes
<1>6. QED
  BY <1>1, <1>2, <1>4, <1>5, SettleStep

LEMMA HandBackStep ==
    ASSUME IInv, NEW s \in Slot, HandBack(s)
    PROVE  IInv'
<1> DEFINE next == AfterRelease(operation, held[s], ProcessOf[s])
<1>1. /\ Busy(s) /\ Leave(s) /\ UNCHANGED effects
      /\ operation' = operation \/ operation' = next
      /\ held[s] \in Claimed /\ operation \in [Operation -> Row]
  BY NobodyHoldsAbsent DEF HandBack, Busy, IInv, TypeOK
<1>2. Writes(operation, next, held[s], {"queued"})
  BY <1>1, ReleaseWrites, ProcessOfAssumption
<1> HIDE DEF next
<1>3. Writes(operation, operation', held[s], {"queued", "failed", "dead_letter", "cancelled"})
  BY <1>1, <1>2, NothingWrites DEF Writes
<1>4. operation' # operation => operation'[held[s].op].state \notin {"dead_letter", "cancelled"}
  BY <1>1, <1>2 DEF Writes
<1>5. QED
  BY <1>1, <1>3, <1>4, SettleStep

-----------------------------------------------------------------------------
(* The other steps.                                                        *)

(* A queued row ends on the spot, a running one is marked.                 *)
LEMMA RequestCancelEffect ==
    ASSUME IInv, NEW o \in Operation, RequestCancel(o)
    PROVE  /\ operation' \in [Operation -> Row]
           /\ operation[o].state \in PendingStates
           /\ \A p \in Operation \ {o} : operation'[p] = operation[p]
           /\ operation'[o].attempt = operation[o].attempt
           /\ operation'[o].cancel_requested
           /\ operation'[o].state = IF operation[o].state = "queued" THEN "cancelled" ELSE "running"
<1> DEFINE asked == [operation[o] EXCEPT !.cancel_requested = TRUE]
           ended == [asked EXCEPT !.state = "cancelled"]
<1>1. /\ operation \in [Operation -> Row] /\ operation[o] \in Row
      /\ operation[o].state \in {"queued", "running"}
  BY DEF RequestCancel, IInv, TypeOK, PendingStates
<1>2. /\ asked \in Row /\ asked.cancel_requested
      /\ asked.attempt = operation[o].attempt /\ asked.state = operation[o].state
  BY <1>1 DEF Row
<1>3. operation' = [operation EXCEPT ![o] =
        IF operation[o].state = "queued" THEN ended
        ELSE IF operation[o].state = "running" THEN asked ELSE operation[o]]
  BY DEF RequestCancel, AfterRequestCancel
<1> HIDE DEF asked
<1>4. /\ ended \in Row /\ ended.cancel_requested
      /\ ended.attempt = operation[o].attempt /\ ended.state = "cancelled"
  BY <1>2 DEF Row, TerminalStates
<1> HIDE DEF ended
<1>5. QED
  BY <1>1, <1>2, <1>3, <1>4 DEF PendingStates

(* Time and heartbeats change leases and due dates, nothing else.          *)
LEMMA TouchEffect ==
    ASSUME IInv, NEW o \in Operation,
           \/ BecomeDue(o) \/ LeaseLapse(o)
           \/ \E s \in Slot : Beat(s) /\ held[s].op = o
    PROVE  /\ operation' \in [Operation -> Row]
           /\ \A p \in Operation :
                /\ operation'[p].state = operation[p].state
                /\ operation'[p].attempt = operation[p].attempt
                /\ operation'[p].cancel_requested = operation[p].cancel_requested
<1>1. operation \in [Operation -> Row] /\ operation[o] \in Row
  BY DEF IInv, TypeOK
<1>2. \/ operation' = operation
      \/ operation' = [operation EXCEPT ![o] = [operation[o] EXCEPT !.due = TRUE]]
      \/ \E live \in BOOLEAN :
           operation' = [operation EXCEPT ![o] = [operation[o] EXCEPT !.lease_live = live]]
  BY DEF BecomeDue, LeaseLapse, Beat, AfterHeartbeat
<1>3. CASE operation' = operation
  BY <1>1, <1>3
<1>4. CASE operation' = [operation EXCEPT ![o] = [operation[o] EXCEPT !.due = TRUE]]
  BY <1>1, <1>4 DEF Row
<1>5. CASE \E live \in BOOLEAN :
             operation' = [operation EXCEPT ![o] = [operation[o] EXCEPT !.lease_live = live]]
  BY <1>1, <1>5 DEF Row
<1>6. QED
  BY <1>2, <1>3, <1>4, <1>5

(* The lease-keeper stops the work for a cancellation only on reading the  *)
(* flag of a row it still holds.                                           *)
LEMMA BeatStep ==
    ASSUME IInv, NEW s \in Slot, Beat(s)
    PROVE  IInv'
<1> DEFINE o == held[s].op
<1>1. /\ Busy(s) /\ o \in Operation /\ held[s] \in Claimed
      /\ operation \in [Operation -> Row]
      /\ UNCHANGED <<pc, held, armed, effects>>
  BY NobodyHoldsAbsent DEF Beat, Busy, IInv, TypeOK
<1>2. /\ operation' \in [Operation -> Row]
      /\ \A p \in Operation :
           /\ operation'[p].attempt = operation[p].attempt
           /\ operation'[p].cancel_requested = operation[p].cancel_requested
           /\ operation'[p].state = operation[p].state
  BY <1>1, TouchEffect
<1>3. /\ stopped' \in [Slot -> StoppedValues]
      /\ \A t \in Slot : t # s => stopped'[t] = stopped[t]
      /\ stopped'[s] = "cancel_requested" => operation[o].cancel_requested
  BY DEF Beat, IInv, TypeOK, StoppedValues
<1>4. QED
  BY <1>1, <1>2, <1>3, QuietStep DEF Busy, IInv, TypeOK

(* The handler's own steps, and giving up on an unreachable database.      *)
LEMMA HandlerStep ==
    ASSUME IInv, NEW s \in Slot,
           \/ PollEmpty(s) \/ Rearm(s) \/ HandlerReturns(s) \/ HandlerRaises(s)
           \/ HandlerCancelled(s) \/ WindowElapsed(s)
    PROVE  IInv'
<1>1. UNCHANGED <<operation, held, effects>>
  BY DEF PollEmpty, Rearm, HandlerReturns, HandlerRaises, HandlerCancelled, WindowElapsed, vars
<1>2. /\ pc' \in [Slot -> Phases]
      /\ \A t \in Slot : Busy(t)' <=> Busy(t)
  BY DEF PollEmpty, Rearm, HandlerReturns, HandlerRaises, HandlerCancelled, WindowElapsed, vars,
         IInv, TypeOK, Phases, Busy
<1>3. armed' \in [Slot -> Operation \cup {NoOperation}]
  BY DEF PollEmpty, Rearm, HandlerReturns, HandlerRaises, HandlerCancelled, WindowElapsed, vars,
         IInv, TypeOK
<1>4. /\ stopped' \in [Slot -> StoppedValues]
      /\ \A t \in Slot : \/ stopped'[t] = stopped[t]
                         \/ Busy(t) /\ stopped'[t] # "cancel_requested"
  <2>1. \/ stopped' = stopped
        \/ Busy(s) /\ \E why \in {"none", "lease_lost"} : stopped' = [stopped EXCEPT ![s] = why]
    BY DEF PollEmpty, Rearm, HandlerReturns, HandlerRaises, HandlerCancelled, WindowElapsed,
           vars, Busy
  <2>2. stopped \in [Slot -> StoppedValues]
    BY DEF IInv, TypeOK, StoppedValues
  <2>3. CASE stopped' = stopped
    BY <2>2, <2>3 DEF Busy
  <2>4. CASE Busy(s) /\ stopped' = [stopped EXCEPT ![s] = "none"]
    BY <2>2, <2>4 DEF StoppedValues, Busy
  <2>5. CASE Busy(s) /\ stopped' = [stopped EXCEPT ![s] = "lease_lost"]
    BY <2>2, <2>5 DEF StoppedValues, Busy
  <2>6. QED
    BY <2>1, <2>3, <2>4, <2>5
<1>5. QED
  BY <1>1, <1>2, <1>3, <1>4, QuietStep DEF IInv, TypeOK

LEMMA RecordingLostStep ==
    ASSUME IInv, NEW s \in Slot, RecordingLost(s)
    PROVE  IInv'
<1>1. /\ Busy(s) /\ Leave(s) /\ UNCHANGED <<operation, effects>>
      /\ held[s] \in Claimed /\ operation \in [Operation -> Row]
  BY NobodyHoldsAbsent DEF RecordingLost, Busy, IInv, TypeOK
<1>2. Writes(operation, operation', held[s], {"queued", "failed", "dead_letter", "cancelled"})
  BY <1>1, NothingWrites
<1>3. QED
  BY <1>1, <1>2, SettleStep

(* A crash empties slots and touches no row.                               *)
LEMMA CrashStep ==
    ASSUME IInv, NEW process \in Holder, Crash(process)
    PROVE  IInv'
<1>1. /\ UNCHANGED <<operation, effects>>
      /\ pc' \in [Slot -> Phases]
      /\ held' \in [Slot -> Claimed \cup {Idle}]
      /\ stopped' \in [Slot -> StoppedValues]
      /\ armed' \in [Slot -> Operation \cup {NoOperation}]
  BY DEF Crash, IInv, TypeOK, Phases, StoppedValues
<1>2. \A t \in Slot : IF Busy(t)'
                      THEN Busy(t) /\ held'[t] = held[t] /\ stopped'[t] = stopped[t]
                      ELSE stopped'[t] = "none"
  BY DEF Crash, Busy, IInv, StoppedBecauseAsked
<1>3. TypeOK'
  BY <1>1 DEF IInv, TypeOK, StoppedValues
<1>4. WithinBudget' /\ EffectsMatchState' /\ CancelledOnlyIfAsked' /\ DeadLetterOnlyExhausted'
  BY <1>1 DEF IInv, WithinBudget, EffectsMatchState, CancelledOnlyIfAsked, DeadLetterOnlyExhausted
<1>5. TokenIsIssued' /\ CurrentIsRunning' /\ StoppedBecauseAsked' /\ FencingTokenUnique'
  BY <1>1, <1>2 DEF IInv, TokenIsIssued, CurrentIsRunning, StoppedBecauseAsked, FencingTokenUnique
<1>6. QED
  BY <1>3, <1>4, <1>5 DEF IInv

LEMMA EnqueueStep ==
    ASSUME IInv, NEW o \in Operation, Enqueue(o)
    PROVE  IInv'
<1>1. PICK due \in BOOLEAN : operation' = [operation EXCEPT ![o] = Inserted(due)]
  BY DEF Enqueue
<1>2. /\ operation[o].state = "absent"
      /\ UNCHANGED <<pc, held, stopped, armed, effects>>
  BY DEF Enqueue, Unused
<1>3. /\ operation'[o].state = "queued" /\ operation'[o].attempt = 0
      /\ \A p \in Operation \ {o} : operation'[p] = operation[p]
      /\ operation' \in [Operation -> Row]
  BY <1>1, InsertedRow DEF IInv, TypeOK
<1>4. \A t \in Slot : Busy(t) => /\ held[t].op \in Operation
                                /\ operation'[held[t].op] = operation[held[t].op]
  BY <1>2, <1>3, NobodyHoldsAbsent
<1>5. TypeOK'
  BY <1>2, <1>3 DEF IInv, TypeOK
<1>6. WithinBudget'
  BY <1>3, MaxAttemptsAssumption DEF IInv, WithinBudget
<1>7. TokenIsIssued' /\ CurrentIsRunning' /\ StoppedBecauseAsked' /\ FencingTokenUnique'
  BY <1>2, <1>4
     DEF IInv, TokenIsIssued, CurrentIsRunning, StoppedBecauseAsked, FencingTokenUnique, Busy
<1>8. EffectsMatchState' /\ CancelledOnlyIfAsked' /\ DeadLetterOnlyExhausted'
  BY <1>2, <1>3 DEF IInv, EffectsMatchState, CancelledOnlyIfAsked, DeadLetterOnlyExhausted
<1>9. QED
  BY <1>5, <1>6, <1>7, <1>8 DEF IInv

LEMMA EnvironmentStep ==
    ASSUME IInv, NEW o \in Operation, Environment(o)
    PROVE  IInv'
<1>1. CASE Enqueue(o)
  BY <1>1, EnqueueStep
<1>2. CASE RequestCancel(o)
  <2>1. UNCHANGED <<pc, held, stopped, armed, effects>>
    BY <1>2 DEF RequestCancel
  <2>2. QED
    BY <1>2, <2>1, RequestCancelEffect, QuietStep
       DEF IInv, TypeOK, Busy, StoppedValues, PendingStates
<1>3. CASE BecomeDue(o) \/ LeaseLapse(o)
  <2>1. UNCHANGED <<pc, held, stopped, armed, effects>>
    BY <1>3 DEF BecomeDue, LeaseLapse
  <2>2. QED
    BY <1>3, <2>1, TouchEffect, QuietStep DEF IInv, TypeOK, Busy, StoppedValues
<1>4. QED
  BY <1>1, <1>2, <1>3 DEF Environment

-----------------------------------------------------------------------------
(* The invariant holds of every behaviour.                                 *)

LEMMA InitIInv == Init => IInv
<1> SUFFICES ASSUME Init PROVE IInv
  OBVIOUS
<1>1. /\ Absent \in Row /\ Absent.state = "absent" /\ Absent.attempt = 0
      /\ ~Absent.cancel_requested
  <2>1. 0 \in 0 .. MaxAttempts + 1
    BY MaxAttemptsAssumption
  <2>2. QED
    BY <2>1 DEF Absent, Row
<1>2. \A s \in Slot : ~Busy(s)
  BY DEF Init, Busy
<1>3. TypeOK
  BY <1>1 DEF Init, TypeOK, Phases
<1>4. WithinBudget
  BY <1>1 DEF Init, WithinBudget, PendingStates
<1>5. TokenIsIssued /\ CurrentIsRunning /\ StoppedBecauseAsked /\ FencingTokenUnique
  BY <1>2 DEF Init, TokenIsIssued, CurrentIsRunning, StoppedBecauseAsked, FencingTokenUnique
<1>6. EffectsMatchState /\ CancelledOnlyIfAsked /\ DeadLetterOnlyExhausted
  BY <1>1 DEF Init, EffectsMatchState, CancelledOnlyIfAsked, DeadLetterOnlyExhausted
<1>7. QED
  BY <1>3, <1>4, <1>5, <1>6 DEF IInv

LEMMA NextIInv == IInv /\ [Next]_vars => IInv'
<1> SUFFICES ASSUME IInv, [Next]_vars PROVE IInv'
  OBVIOUS
<1>1. CASE UNCHANGED vars
  BY <1>1 DEF vars, IInv, TypeOK, WithinBudget, TokenIsIssued, CurrentIsRunning,
              StoppedBecauseAsked, FencingTokenUnique, EffectsMatchState,
              CancelledOnlyIfAsked, DeadLetterOnlyExhausted, Busy
<1>2. ASSUME NEW s \in Slot, Step(s) PROVE IInv'
  BY <1>2, ClaimStep, BeatStep, HandlerStep, RecordSuccessStep, RecordFailureStep,
     RecordCancelledStep, HandBackStep, RecordingLostStep DEF Step
<1>3. ASSUME NEW process \in Holder, Crash(process) PROVE IInv'
  BY <1>3, CrashStep
<1>4. ASSUME NEW o \in Operation, Environment(o) PROVE IInv'
  BY <1>4, EnvironmentStep
<1>5. QED
  BY <1>1, <1>2, <1>3, <1>4 DEF Next

(* The inductive invariant holds in every reachable state.                 *)
THEOREM Invariance == Spec => []IInv
<1>1. QED
  BY InitIInv, NextIInv, PTL DEF Spec

(* Every variable keeps its type: no claim counts past the last attempt,   *)
(* no slot holds anything but a claim.                                     *)
THEOREM TypeCorrect == Spec => []TypeOK
<1>1. IInv => TypeOK
  BY DEF IInv
<1>2. QED
  BY <1>1, Invariance, PTL

(* The attempt works as a fencing token: no two executions of an operation *)
(* ever carry the same one.                                                *)
THEOREM Fencing == Spec => []FencingTokenUnique
<1>1. IInv => FencingTokenUnique
  BY DEF IInv
<1>2. QED
  BY <1>1, Invariance, PTL

(* Effects and state never disagree: an operation's effects are committed  *)
(* once if it is succeeded and not at all otherwise.                       *)
THEOREM ExactlyOnce == Spec => []EffectsMatchState
<1>1. IInv => EffectsMatchState
  BY DEF IInv
<1>2. QED
  BY <1>1, Invariance, PTL

(* A lost lease, a shutdown or a crash is never recorded as a cancellation.*)
THEOREM CancelledIsAsked == Spec => []CancelledOnlyIfAsked
<1>1. IInv => CancelledOnlyIfAsked
  BY DEF IInv
<1>2. QED
  BY <1>1, Invariance, PTL

(* A dead letter has used up its attempts.                                 *)
THEOREM DeadLetterIsExhausted == Spec => []DeadLetterOnlyExhausted
<1>1. IInv => DeadLetterOnlyExhausted
  BY DEF IInv
<1>2. QED
  BY <1>1, Invariance, PTL

(* However its handler ended, a worker whose claim was taken over leaves   *)
(* the table alone when it records the end.                                *)
THEOREM ZombieFencing == Spec => ZombieIsFenced
<1> DEFINE Fenced(s) == Busy(s) /\ ~Holds(operation, held[s]) /\ pc'[s] = "idle"
                          => UNCHANGED operation
<1>1. IInv /\ [Next]_vars => \A s \in Slot : Fenced(s)
  <2> SUFFICES ASSUME IInv, [Next]_vars, NEW s \in Slot,
                      Busy(s), ~Holds(operation, held[s]), pc'[s] = "idle"
               PROVE  UNCHANGED operation
    OBVIOUS
  <2>1. /\ held[s] \in Claimed /\ held[s].op \in Operation
        /\ operation \in [Operation -> Row] /\ pc \in [Slot -> Phases]
    BY NobodyHoldsAbsent DEF IInv, TypeOK
  <2>2. ASSUME NEW t \in Slot, Step(t) PROVE UNCHANGED operation
    <3>1. CASE t # s
      <4>1. pc'[s] = pc[s]
        BY <2>1, <2>2, <3>1
           DEF Step, Claim, PollEmpty, Rearm, HandlerReturns, HandlerRaises, HandlerCancelled,
               Beat, WindowElapsed, RecordSuccess, RecordFailure, RecordCancelled, HandBack,
               RecordingLost, Leave, vars
      <4>2. QED
        BY <4>1 DEF Busy
    <3>2. CASE t = s
      <4>1. \/ RecordSuccess(s) \/ RecordFailure(s) \/ RecordCancelled(s) \/ HandBack(s)
            \/ RecordingLost(s)
        BY <2>1, <2>2, <3>2
           DEF Step, Claim, PollEmpty, Rearm, HandlerReturns, HandlerRaises, HandlerCancelled,
               Beat, WindowElapsed, vars, Busy
      <4>2. CASE RecordSuccess(s)
        BY <4>2 DEF RecordSuccess
      <4>3. CASE RecordFailure(s)
        <5>1. operation[held[s].op].attempt # held[s].attempt
          BY DEF IInv, CurrentIsRunning, Holds
        <5>2. AfterFail(operation, held[s], pc[s] = "failing") = operation
          BY <5>1 DEF AfterFail, AfterFinish, AfterDeadLetter, AfterRetry, Holds
        <5>3. QED
          BY <4>3, <5>2 DEF RecordFailure
      <4>4. CASE RecordCancelled(s)
        BY <4>4 DEF RecordCancelled, AfterFinish
      <4>5. CASE HandBack(s)
        BY <4>5 DEF HandBack, AfterRelease, HoldsLease
      <4>6. CASE RecordingLost(s)
        BY <4>6 DEF RecordingLost
      <4>7. QED
        BY <4>1, <4>2, <4>3, <4>4, <4>5, <4>6
    <3>3. QED
      BY <3>1, <3>2
  <2>3. ASSUME NEW process \in Holder, Crash(process) PROVE UNCHANGED operation
    BY <2>3 DEF Crash
  <2>4. ASSUME NEW o \in Operation, Environment(o) PROVE UNCHANGED operation
    <3>1. UNCHANGED pc
      BY <2>4 DEF Environment, Enqueue, RequestCancel, BecomeDue, LeaseLapse
    <3>2. QED
      BY <3>1 DEF Busy
  <2>5. CASE UNCHANGED vars
    BY <2>5 DEF vars
  <2>6. QED
    BY <2>2, <2>3, <2>4, <2>5 DEF Next
<1>2. QED
  BY <1>1, Invariance, PTL DEF Spec, ZombieIsFenced
-----------------------------------------------------------------------------
(* Schedules: the inductive invariant behind ChainUnbroken.                *)

(* A row of which something is still to come, or which says why nothing    *)
(* does.                                                                   *)
AliveStates == {"queued", "running", "failed", "dead_letter", "cancelled"}
Alive(o) == operation[o].state \in AliveStates

(* A current run of o that has re-armed by converging on a row: its success*)
(* will insert nothing.                                                    *)
ConvergedRun(s, o) ==
    /\ held[s].op = o
    /\ Holds(operation, held[s])
    /\ armed[s] # NoOperation
    /\ operation[armed[s]].state # "absent"

Converged(o) == \E s \in Slot : ConvergedRun(s, o)

(* As long as a schedule has a row left to insert and a run of it is over, *)
(* or may be over without an insertion, another row carries it on: one     *)
(* alive whose own run does not count on others.                           *)
ChainStands ==
    \A o \in Operation :
        /\ KeyOf[o] \in Recurring
        /\ \E p \in Operation : SameKey(o, p) /\ operation[p].state = "absent"
        /\ \E p \in Operation : SameKey(o, p) /\ (operation[p].state = "succeeded" \/ Converged(p))
        => \E p \in Operation : SameKey(o, p) /\ Alive(p) /\ ~Converged(p)

(* A successor belongs to the schedule of the run that armed it.           *)
ArmedInChain ==
    \A s \in Slot : armed[s] # NoOperation => Busy(s) /\ SameKey(held[s].op, armed[s])

(* The key's index lock: an uncommitted row is its inserter's own.         *)
InsertedAlone ==
    \A s, t \in Slot : Uncommitted(s) /\ armed[s] = armed[t] => s = t

ReturnedHasRearmed ==
    \A s \in Slot : pc[s] = "returned" => HasRearmed(s)

ChainIInv == ArmedInChain /\ InsertedAlone /\ ReturnedHasRearmed /\ ChainStands

(* What a step may do without touching the chains: rows appear but do not  *)
(* vanish or succeed, what is alive stays alive, attempts only count up,   *)
(* and a slot keeps the successor and the claim it has or drops them.      *)
RowsCarryOn ==
    \A o \in Operation :
        /\ operation'[o].state = "absent" => operation[o].state = "absent"
        /\ operation'[o].state = "succeeded" => operation[o].state = "succeeded"
        /\ Alive(o) => operation'[o].state \in AliveStates
        /\ operation'[o].attempt \in Nat /\ operation[o].attempt <= operation'[o].attempt

SlotsCarryOn ==
    \A t \in Slot :
        armed'[t] # NoOperation => /\ armed'[t] = armed[t]
                                   /\ held'[t] = held[t]
                                   /\ pc'[t] # "idle"

NobodysRowsAppear ==
    \A t \in Slot : Uncommitted(t) /\ armed'[t] # NoOperation
                        => operation'[armed[t]].state = "absent"

(* A claim that is current after such a step was current before it.        *)
LEMMA RunsStayConverged ==
    ASSUME IInv, ChainIInv, RowsCarryOn, SlotsCarryOn, NobodysRowsAppear,
           NEW t \in Slot, NEW o \in Operation, ConvergedRun(t, o)'
    PROVE  ConvergedRun(t, o)
<1>1. /\ armed'[t] # NoOperation /\ armed'[t] = armed[t] /\ held'[t] = held[t]
      /\ held[t].op = o
      /\ operation'[o].attempt = held[t].attempt
      /\ operation'[armed[t]].state # "absent"
  BY DEF ConvergedRun, Holds, SlotsCarryOn
<1>2. Busy(t) /\ armed[t] \in Operation
  BY <1>1 DEF ChainIInv, ArmedInChain, IInv, TypeOK
<1>3. held[t] \in Claimed /\ held[t].attempt <= operation[o].attempt
  BY <1>1, <1>2 DEF IInv, TokenIsIssued
<1>4. operation[o].attempt \in Nat
  BY DEF IInv, TypeOK, Row
<1>5. held[t].attempt = operation[o].attempt
  BY <1>1, <1>3, <1>4 DEF RowsCarryOn, Claimed
<1>6. Holds(operation, held[t])
  BY <1>1, <1>2, <1>5 DEF IInv, CurrentIsRunning, Holds
<1>7. operation[armed[t]].state # "absent"
  BY <1>1 DEF NobodysRowsAppear, Uncommitted
<1>8. QED
  BY <1>1, <1>6, <1>7 DEF ConvergedRun

LEMMA ChainStandsOn ==
    ASSUME IInv, ChainIInv, RowsCarryOn, SlotsCarryOn, NobodysRowsAppear
    PROVE  ChainStands'
<1> SUFFICES ASSUME NEW o \in Operation, KeyOf[o] \in Recurring,
                    \E p \in Operation : SameKey(o, p) /\ operation'[p].state = "absent",
                    NEW p \in Operation, SameKey(o, p),
                    operation'[p].state = "succeeded" \/ Converged(p)'
             PROVE  \E q \in Operation : SameKey(o, q) /\ Alive(q)' /\ ~Converged(q)'
  BY DEF ChainStands
<1>1. \E q \in Operation : SameKey(o, q) /\ operation[q].state = "absent"
  BY DEF RowsCarryOn
<1>2. operation[p].state = "succeeded" \/ Converged(p)
  BY RunsStayConverged DEF RowsCarryOn, Converged
<1>3. PICK q \in Operation : SameKey(o, q) /\ Alive(q) /\ ~Converged(q)
  BY <1>1, <1>2 DEF ChainIInv, ChainStands
<1>4. Alive(q)'
  BY <1>3 DEF RowsCarryOn, Alive
<1>5. ~Converged(q)'
  BY <1>3, RunsStayConverged DEF Converged
<1>6. QED
  BY <1>3, <1>4, <1>5

LEMMA ChainStep ==
    ASSUME IInv, ChainIInv, RowsCarryOn, SlotsCarryOn, NobodysRowsAppear,
           \A t \in Slot : pc'[t] = "returned" =>
              pc[t] = "returned" /\ armed'[t] = armed[t] /\ held'[t] = held[t]
    PROVE  ChainIInv'
<1>1. ArmedInChain'
  BY DEF ChainIInv, ArmedInChain, SlotsCarryOn, Busy
<1>2. InsertedAlone'
  <2>1. \A t \in Slot : Uncommitted(t)' => Uncommitted(t) /\ armed'[t] = armed[t]
    BY DEF Uncommitted, SlotsCarryOn, RowsCarryOn, IInv, TypeOK
  <2>2. \A t \in Slot : armed'[t] # NoOperation => armed'[t] = armed[t]
    BY DEF SlotsCarryOn
  <2>3. QED
    BY <2>1, <2>2 DEF ChainIInv, InsertedAlone, Uncommitted
<1>3. ReturnedHasRearmed'
  BY DEF ChainIInv, ReturnedHasRearmed, HasRearmed, RowsCarryOn
<1>4. QED
  BY <1>1, <1>2, <1>3, ChainStandsOn DEF ChainIInv

LEMMA ClaimChain ==
    ASSUME IInv, ChainIInv, NEW s \in Slot, Claim(s)
    PROVE  ChainIInv'
<1>1. PICK o \in Operation :
        /\ operation[o].state \in PendingStates
        /\ operation[o].attempt \in 0 .. MaxAttempts
        /\ operation' \in [Operation -> Row]
        /\ \A p \in Operation : p # o => operation'[p] = operation[p]
        /\ operation'[o].attempt = operation[o].attempt + 1
        /\ operation'[o].state \in {"running", "dead_letter"}
        /\ \/ /\ pc' = [pc EXCEPT ![s] = "working"]
              /\ held' = [held EXCEPT ![s] = [op |-> o, attempt |-> operation'[o].attempt]]
           \/ UNCHANGED <<pc, held>>
  BY ClaimEffect
<1>2. /\ armed' = armed /\ pc[s] = "idle" /\ armed[s] = NoOperation
      /\ pc \in [Slot -> Phases] /\ held \in [Slot -> Claimed \cup {Idle}]
      /\ operation \in [Operation -> Row]
  BY DEF Claim, ChainIInv, ArmedInChain, Busy, IInv, TypeOK
<1>3. RowsCarryOn
  <2>1. \A p \in Operation : operation[p].attempt \in Nat
    BY <1>2 DEF Row
  <2>2. QED
    BY <1>1, <2>1, MaxAttemptsAssumption DEF RowsCarryOn, Alive, AliveStates, PendingStates
<1>4. \A t \in Slot \ {s} : pc'[t] = pc[t] /\ held'[t] = held[t]
  BY <1>1, <1>2
<1>5. SlotsCarryOn
  BY <1>2, <1>4 DEF SlotsCarryOn, ChainIInv, ArmedInChain, Busy
<1>6. NobodysRowsAppear
  BY <1>1, <1>2 DEF NobodysRowsAppear, Uncommitted, PendingStates, IInv, TypeOK
<1>7. \A t \in Slot : pc'[t] = "returned" =>
         pc[t] = "returned" /\ armed'[t] = armed[t] /\ held'[t] = held[t]
  BY <1>1, <1>2, <1>4
<1>8. QED
  BY <1>3, <1>5, <1>6, <1>7, ChainStep

(* Every way for an execution to end but success.                          *)
LEMMA SettleChain ==
    ASSUME IInv, ChainIInv, NEW s \in Slot, Busy(s), Leave(s),
           Writes(operation, operation', held[s],
                  {"queued", "failed", "dead_letter", "cancelled"})
    PROVE  ChainIInv'
<1>1. /\ held[s] \in Claimed /\ held[s].op \in Operation
      /\ operation \in [Operation -> Row] /\ operation' \in [Operation -> Row]
  BY NobodyHoldsAbsent DEF Writes, IInv, TypeOK
<1>2. \A o \in Operation :
        \/ operation'[o] = operation[o]
        \/ /\ operation[o].state = "running"
           /\ operation'[o].state \in {"queued", "failed", "dead_letter", "cancelled"}
           /\ operation'[o].attempt = operation[o].attempt
  BY <1>1 DEF Writes, Holds
<1>3. RowsCarryOn
  <2>1. \A p \in Operation : operation[p].attempt \in Nat
    BY <1>1 DEF Row
  <2>2. QED
    BY <1>2, <2>1 DEF RowsCarryOn, Alive, AliveStates
<1>4. /\ armed' = [armed EXCEPT ![s] = NoOperation]
      /\ held' = [held EXCEPT ![s] = Idle] /\ pc' = [pc EXCEPT ![s] = "idle"]
      /\ armed \in [Slot -> Operation \cup {NoOperation}]
      /\ held \in [Slot -> Claimed \cup {Idle}] /\ pc \in [Slot -> Phases]
  BY DEF Leave, IInv, TypeOK
<1>5. SlotsCarryOn
  BY <1>4 DEF SlotsCarryOn, ChainIInv, ArmedInChain, Busy
<1>6. NobodysRowsAppear
  BY <1>2, <1>4 DEF NobodysRowsAppear, Uncommitted
<1>7. \A t \in Slot : pc'[t] = "returned" =>
         pc[t] = "returned" /\ armed'[t] = armed[t] /\ held'[t] = held[t]
  BY <1>4
<1>8. QED
  BY <1>3, <1>5, <1>6, <1>7, ChainStep

(* No row changes, and slots only drop what they have.                     *)
LEMMA DroppingChain ==
    ASSUME IInv, ChainIInv, UNCHANGED operation,
           \A t \in Slot : \/ /\ armed'[t] = armed[t] /\ held'[t] = held[t]
                              /\ Busy(t) => pc'[t] # "idle"
                           \/ armed'[t] = NoOperation,
           \A t \in Slot : pc'[t] = "returned" =>
              pc[t] = "returned" /\ armed'[t] = armed[t] /\ held'[t] = held[t]
    PROVE  ChainIInv'
<1>1. RowsCarryOn
  BY DEF RowsCarryOn, Alive, IInv, TypeOK, Row
<1>2. SlotsCarryOn
  BY DEF SlotsCarryOn, ChainIInv, ArmedInChain
<1>3. NobodysRowsAppear
  BY DEF NobodysRowsAppear, Uncommitted
<1>4. QED
  BY <1>1, <1>2, <1>3, ChainStep

(* A handler that returns has re-armed; it relies on a row, inserted or    *)
(* found, from the moment it armed it.                                     *)
LEMMA HandlerReturnsChain ==
    ASSUME IInv, ChainIInv, NEW s \in Slot, HandlerReturns(s)
    PROVE  ChainIInv'
<1>1. /\ UNCHANGED <<operation, held, armed>> /\ HasRearmed(s)
      /\ pc' = [pc EXCEPT ![s] = "returned"] /\ pc \in [Slot -> Phases]
  BY DEF HandlerReturns, IInv, TypeOK
<1>2. \A t \in Slot : Busy(t) => Busy(t)'
  BY <1>1 DEF Busy
<1>3. ArmedInChain' /\ InsertedAlone'
  BY <1>1, <1>2 DEF ChainIInv, ArmedInChain, InsertedAlone, Uncommitted
<1>4. ReturnedHasRearmed'
  BY <1>1 DEF ChainIInv, ReturnedHasRearmed, HasRearmed
<1>5. RowsCarryOn /\ NobodysRowsAppear
  BY <1>1 DEF RowsCarryOn, NobodysRowsAppear, Uncommitted, Alive, IInv, TypeOK, Row
<1>6. SlotsCarryOn
  BY <1>1, <1>2 DEF SlotsCarryOn, ChainIInv, ArmedInChain, Busy
<1>7. QED
  BY <1>3, <1>4, <1>5, <1>6, ChainStandsOn DEF ChainIInv

(* A run that converges on a queued row joins those that count on others,  *)
(* and the row it found is alive and nobody's: it stands.  A run that      *)
(* inserts counts on nobody yet.                                           *)
LEMMA RearmChain ==
    ASSUME IInv, ChainIInv, NEW s \in Slot, Rearm(s)
    PROVE  ChainIInv'
<1> DEFINE o == held[s].op
<1>1. /\ UNCHANGED <<operation, pc, held>> /\ Busy(s) /\ armed[s] = NoOperation
      /\ o \in Operation /\ pc[s] = "working"
      /\ armed \in [Slot -> Operation \cup {NoOperation}]
      /\ ~KeyIsLocked(o, Slot \ {s})
  BY NobodyHoldsAbsent DEF Rearm, Busy, IInv, TypeOK
<1>2. PICK x \in Operation :
        /\ SameKey(o, x)
        /\ operation[x].state = "queued" \/ Unused(x)
        /\ armed' = [armed EXCEPT ![s] = x]
  BY DEF Rearm
<1>3. x # NoOperation
  BY NoOperationAssumption
<1>4. armed'[s] = x /\ \A t \in Slot \ {s} : armed'[t] = armed[t]
  BY <1>1, <1>2
<1>5. ArmedInChain'
  BY <1>1, <1>2, <1>4 DEF ChainIInv, ArmedInChain, Busy
<1>6. InsertedAlone'
  <2>1. operation[x].state = "absent" => \A t \in Slot : armed[t] # x
    BY <1>2 DEF Unused
  <2> SUFFICES ASSUME NEW t \in Slot, NEW u \in Slot, armed'[t] = armed'[u],
                      armed'[t] # NoOperation, operation[armed'[t]].state = "absent"
               PROVE  t = u
    BY <1>1 DEF InsertedAlone, Uncommitted
  <2>2. CASE t = s \/ u = s
    BY <1>4, <2>1, <2>2
  <2>3. CASE t # s /\ u # s
    BY <1>4, <2>3 DEF ChainIInv, InsertedAlone, Uncommitted
  <2>4. QED
    BY <2>2, <2>3
<1>7. ReturnedHasRearmed'
  BY <1>1, <1>4 DEF ChainIInv, ReturnedHasRearmed, HasRearmed
<1>8. \A t \in Slot, p \in Operation :
         ConvergedRun(t, p)' => \/ ConvergedRun(t, p)
                                \/ t = s /\ p = o /\ operation[x].state = "queued"
  <2>1. operation[x].state # "absent" => operation[x].state = "queued"
    BY <1>2 DEF Unused
  <2> SUFFICES ASSUME NEW t \in Slot, NEW p \in Operation, ConvergedRun(t, p)'
               PROVE  ConvergedRun(t, p) \/ (t = s /\ p = o /\ operation[x].state = "queued")
    OBVIOUS
  <2>2. /\ held[t].op = p /\ Holds(operation, held[t])
        /\ armed'[t] # NoOperation /\ operation[armed'[t]].state # "absent"
    BY <1>1 DEF ConvergedRun, Holds
  <2>3. CASE t = s
    BY <1>4, <2>1, <2>2, <2>3
  <2>4. CASE t # s
    BY <1>4, <2>2, <2>4 DEF ConvergedRun
  <2>5. QED
    BY <2>3, <2>4
<1>9. ChainStands'
  <2> SUFFICES ASSUME NEW c \in Operation, KeyOf[c] \in Recurring,
                      \E p \in Operation : SameKey(c, p) /\ operation[p].state = "absent",
                      NEW p \in Operation, SameKey(c, p),
                      operation[p].state = "succeeded" \/ Converged(p)'
               PROVE  \E q \in Operation : SameKey(c, q) /\ Alive(q) /\ ~Converged(q)'
    BY <1>1 DEF ChainStands, Alive
  <2>1. CASE operation[x].state = "queued" /\ SameKey(c, x)
    <3>1. Alive(x)
      BY <2>1 DEF Alive, AliveStates
    <3>2. ~Converged(x)'
      BY <1>1, <2>1 DEF Converged, ConvergedRun, Holds
    <3>3. QED
      BY <2>1, <3>1, <3>2
  <2>2. CASE ~(operation[x].state = "queued" /\ SameKey(c, x))
    <3>1. \A q \in Operation : SameKey(c, q) /\ Converged(q)' => Converged(q)
      BY <1>2, <1>8, <2>2 DEF Converged, SameKey
    <3>2. QED
      BY <3>1 DEF ChainIInv, ChainStands
  <2>3. QED
    BY <2>1, <2>2
<1>10. QED
  BY <1>5, <1>6, <1>7, <1>9 DEF ChainIInv

(* Only due dates, leases and flags change.                                *)
LEMMA TouchedChain ==
    ASSUME IInv, ChainIInv, UNCHANGED <<pc, held, armed>>,
           \A p \in Operation : /\ operation'[p].state = operation[p].state
                                /\ operation'[p].attempt = operation[p].attempt
    PROVE  ChainIInv'
<1>1. RowsCarryOn
  BY DEF RowsCarryOn, Alive, IInv, TypeOK, Row
<1>2. SlotsCarryOn
  BY DEF SlotsCarryOn, ChainIInv, ArmedInChain, Busy
<1>3. NobodysRowsAppear
  BY DEF NobodysRowsAppear, Uncommitted, IInv, TypeOK
<1>4. QED
  BY <1>1, <1>2, <1>3, ChainStep

(* Which other row a success inserts: the one its slot has armed.          *)
LEMMA SuccessIsOwn ==
    ASSUME IInv, NEW s \in Slot, RecordSuccess(s), Holds(operation, held[s]),
           held[s].op \in Operation
    PROVE  /\ \A p \in Operation \ {held[s].op} :
                \/ operation'[p] = operation[p]
                \/ /\ p = armed[s] /\ Uncommitted(s)
                   /\ operation'[p].state = "queued" /\ operation'[p].attempt = 0
           /\ Uncommitted(s) => operation'[armed[s]].state = "queued"
<1> DEFINE done == AfterFinish(operation, held[s], "succeeded")
           new == Inserted(FALSE)
<1>1. /\ operation' = IF Uncommitted(s) THEN [done EXCEPT ![armed[s]] = new] ELSE done
      /\ operation \in [Operation -> Row]
  BY DEF RecordSuccess, IInv, TypeOK
<1>2. /\ DOMAIN done = Operation
      /\ \A p \in Operation \ {held[s].op} : done[p] = operation[p]
  BY <1>1 DEF AfterFinish
<1>3. new.state = "queued" /\ new.attempt = 0
  BY InsertedRow
<1>4. Uncommitted(s) => armed[s] \in Operation
  BY DEF Uncommitted, IInv, TypeOK
<1> HIDE DEF done, new
<1>5. QED
  BY <1>1, <1>2, <1>3, <1>4

(* A success ends its row and leaves a successor: the row it inserts, or,  *)
(* if it had converged, the row that stands beside all those that have.    *)
LEMMA RecordSuccessChain ==
    ASSUME IInv, ChainIInv, NEW s \in Slot, RecordSuccess(s)
    PROVE  ChainIInv'
<1> DEFINE mine == held[s].op
<1>1. /\ Busy(s) /\ Leave(s) /\ pc[s] = "returned"
      /\ held[s] \in Claimed /\ mine \in Operation /\ operation \in [Operation -> Row]
  BY NobodyHoldsAbsent DEF RecordSuccess, Busy, IInv, TypeOK
<1>2. CASE ~Holds(operation, held[s])
  <2>1. operation' = operation
    BY <1>2 DEF RecordSuccess
  <2>2. Writes(operation, operation', held[s], {"queued", "failed", "dead_letter", "cancelled"})
    BY <1>1, <2>1, NothingWrites
  <2>3. QED
    BY <1>1, <2>2, SettleChain
<1>3. CASE Holds(operation, held[s])
  <2> DEFINE x == armed[s]
  <2>1. /\ armed' = [armed EXCEPT ![s] = NoOperation]
        /\ held' = [held EXCEPT ![s] = Idle] /\ pc' = [pc EXCEPT ![s] = "idle"]
        /\ armed \in [Slot -> Operation \cup {NoOperation}]
        /\ held \in [Slot -> Claimed \cup {Idle}] /\ pc \in [Slot -> Phases]
    BY <1>1 DEF Leave, IInv, TypeOK
  <2>2. /\ armed'[s] = NoOperation /\ pc'[s] = "idle"
        /\ \A t \in Slot \ {s} : armed'[t] = armed[t] /\ held'[t] = held[t] /\ pc'[t] = pc[t]
    BY <2>1
  <2>3. /\ operation[mine].state = "running" /\ operation'[mine].state = "succeeded"
        /\ operation'[mine].attempt = operation[mine].attempt
    BY <1>3, SuccessEffect
  <2>4. \A p \in Operation \ {mine} :
          \/ operation'[p] = operation[p]
          \/ /\ p = x /\ Uncommitted(s)
             /\ operation'[p].state = "queued" /\ operation'[p].attempt = 0
    BY <1>1, <1>3, SuccessIsOwn
  <2>5. Uncommitted(s) => /\ x \in Operation \ {mine} /\ operation[x].state = "absent"
                          /\ operation'[x].state = "queued"
    BY <1>1, <1>3, <2>3, SuccessIsOwn DEF Uncommitted, IInv, TypeOK
  <2>6. \A p \in Operation : operation'[p].state = "absent" => operation[p].state = "absent"
    BY <2>3, <2>4
  <2>7. \A t \in Slot \ {s} : armed[t] # NoOperation /\ operation[armed[t]].state = "absent"
           => operation'[armed[t]].state = "absent"
    BY <2>1, <2>3, <2>4 DEF ChainIInv, InsertedAlone, Uncommitted
  <2>8. ArmedInChain'
    BY <2>2 DEF ChainIInv, ArmedInChain, Busy
  <2>9. InsertedAlone'
    <3>1. \A t \in Slot : Uncommitted(t)' => t # s /\ Uncommitted(t) /\ armed'[t] = armed[t]
      BY <2>1, <2>2, <2>6 DEF Uncommitted
    <3>2. \A t \in Slot : armed'[t] # NoOperation => armed'[t] = armed[t]
      BY <2>2
    <3>3. QED
      BY <3>1, <3>2 DEF ChainIInv, InsertedAlone, Uncommitted
  <2>10. ReturnedHasRearmed'
    BY <2>2, <2>6 DEF ChainIInv, ReturnedHasRearmed, HasRearmed
  <2>11. \A t \in Slot, p \in Operation :
            ConvergedRun(t, p)' => t # s /\ p # mine /\ ConvergedRun(t, p)
    <3> SUFFICES ASSUME NEW t \in Slot, NEW p \in Operation, ConvergedRun(t, p)'
                 PROVE  t # s /\ p # mine /\ ConvergedRun(t, p)
      OBVIOUS
    <3>1. /\ armed'[t] # NoOperation /\ held'[t].op = p
          /\ operation'[p].state = "running" /\ operation'[p].attempt = held'[t].attempt
          /\ operation'[armed'[t]].state # "absent"
      BY DEF ConvergedRun, Holds
    <3>2. t # s /\ p # mine /\ armed'[t] = armed[t] /\ held'[t] = held[t]
      BY <2>2, <2>3, <3>1
    <3>3. operation'[p] = operation[p]
      BY <2>4, <3>1, <3>2
    <3>4. operation[armed[t]].state # "absent"
      BY <2>7, <3>1, <3>2
    <3>5. QED
      BY <3>1, <3>2, <3>3, <3>4 DEF ConvergedRun, Holds
  <2>12. ChainStands'
    <3> SUFFICES ASSUME NEW c \in Operation, KeyOf[c] \in Recurring,
                        NEW a \in Operation, SameKey(c, a), operation'[a].state = "absent",
                        NEW p \in Operation, SameKey(c, p),
                        operation'[p].state = "succeeded" \/ Converged(p)'
                 PROVE  \E q \in Operation : SameKey(c, q) /\ Alive(q)' /\ ~Converged(q)'
      BY DEF ChainStands
    <3>1. operation[a].state = "absent"
      BY <2>6
    <3>2. \A q \in Operation \ {mine} : Alive(q) => Alive(q)'
      BY <2>4 DEF Alive, AliveStates
    <3>3. \A q \in Operation : Converged(q)' => Converged(q)
      BY <2>11 DEF Converged
    <3>4. CASE SameKey(c, mine) /\ Uncommitted(s)
      <4>1. SameKey(c, x)
        BY <3>4 DEF ChainIInv, ArmedInChain, Uncommitted, SameKey
      <4>2. PICK q \in Operation : q = x /\ operation'[q].state = "queued"
        BY <2>5, <3>4
      <4>3. Alive(q)'
        BY <4>2 DEF Alive, AliveStates
      <4>4. ~Converged(q)'
        BY <4>2 DEF Converged, ConvergedRun, Holds
      <4>5. QED
        BY <4>1, <4>2, <4>3, <4>4
    <3>5. CASE SameKey(c, mine) /\ ~Uncommitted(s)
      <4>1. KeyOf[mine] \in Recurring /\ SameKey(a, mine)
        BY <3>5 DEF SameKey
      <4>2. x # NoOperation
        BY <1>1, <3>1, <4>1 DEF ChainIInv, ReturnedHasRearmed, HasRearmed
      <4>3. Converged(mine)
        BY <1>3, <3>5, <4>2 DEF Converged, ConvergedRun, Uncommitted
      <4>4. PICK q \in Operation : SameKey(c, q) /\ Alive(q) /\ ~Converged(q)
        BY <3>1, <3>5, <4>3, <1>1 DEF ChainIInv, ChainStands
      <4>5. QED
        BY <3>2, <3>3, <4>3, <4>4
    <3>6. CASE ~SameKey(c, mine)
      <4>1. operation[p].state = "succeeded" \/ Converged(p)
        BY <2>4, <3>3, <3>6
      <4>2. PICK q \in Operation : SameKey(c, q) /\ Alive(q) /\ ~Converged(q)
        BY <3>1, <4>1 DEF ChainIInv, ChainStands
      <4>3. QED
        BY <3>2, <3>3, <3>6, <4>2
    <3>7. QED
      BY <3>4, <3>5, <3>6
  <2>13. QED
    BY <2>8, <2>9, <2>10, <2>12 DEF ChainIInv
<1>4. QED
  BY <1>2, <1>3

LEMMA StepChain ==
    ASSUME IInv, ChainIInv, NEW s \in Slot, Step(s)
    PROVE  ChainIInv'
<1>1. /\ operation \in [Operation -> Row] /\ pc \in [Slot -> Phases]
      /\ armed \in [Slot -> Operation \cup {NoOperation}]
      /\ ProcessOf[s] \in Holder
  BY ProcessOfAssumption DEF IInv, TypeOK
<1>2. CASE PollEmpty(s) \/ WindowElapsed(s)
  BY <1>2, DroppingChain DEF PollEmpty, WindowElapsed, vars, Busy
<1>3. CASE HandlerRaises(s) \/ HandlerCancelled(s)
  <2>1. /\ UNCHANGED <<operation, held>>
        /\ armed' = [armed EXCEPT ![s] = NoOperation]
        /\ \E phase \in {"failing", "failing_permanently", "cancelled"} :
              pc' = [pc EXCEPT ![s] = phase]
    BY <1>3 DEF HandlerRaises, HandlerCancelled
  <2>2. QED
    BY <1>1, <2>1, DroppingChain DEF Busy
<1>4. CASE Beat(s)
  <2>1. /\ UNCHANGED <<pc, held, armed>> /\ held[s].op \in Operation
    BY <1>4, NobodyHoldsAbsent DEF Beat, Busy
  <2>2. \A p \in Operation : /\ operation'[p].state = operation[p].state
                             /\ operation'[p].attempt = operation[p].attempt
    BY <1>4, <2>1, TouchEffect
  <2>3. QED
    BY <2>1, <2>2, TouchedChain
<1>5. ASSUME RecordFailure(s) \/ RecordCancelled(s) \/ HandBack(s) \/ RecordingLost(s)
      PROVE  Busy(s) /\ Leave(s) /\ held[s] \in Claimed
  BY <1>5, NobodyHoldsAbsent
     DEF RecordFailure, RecordCancelled, HandBack, RecordingLost, Busy
<1>6. CASE RecordFailure(s)
  <2> DEFINE next == AfterFail(operation, held[s], pc[s] = "failing")
  <2>1. operation[held[s].op].attempt = held[s].attempt => operation[held[s].op].state = "running"
    BY <1>5, <1>6 DEF IInv, CurrentIsRunning
  <2>2. Writes(operation, next, held[s], {"failed", "dead_letter", "queued"})
    BY <1>1, <1>5, <1>6, <2>1, FailWrites
  <2>3. operation' = operation \/ operation' = next
    BY <1>6 DEF RecordFailure
  <2> HIDE DEF next
  <2>4. Writes(operation, operation', held[s], {"queued", "failed", "dead_letter", "cancelled"})
    BY <1>1, <1>5, <1>6, <2>2, <2>3, NothingWrites DEF Writes
  <2>5. QED
    BY <1>5, <1>6, <2>4, SettleChain
<1>7. CASE RecordCancelled(s)
  <2> DEFINE next == AfterFinish(operation, held[s], "cancelled")
  <2>1. Writes(operation, next, held[s], {"cancelled"}) /\ operation' = next
    BY <1>1, <1>5, <1>7, FinishWrites DEF RecordCancelled, TerminalStates
  <2> HIDE DEF next
  <2>2. Writes(operation, operation', held[s], {"queued", "failed", "dead_letter", "cancelled"})
    BY <2>1 DEF Writes
  <2>3. QED
    BY <1>5, <1>7, <2>2, SettleChain
<1>8. CASE HandBack(s)
  <2> DEFINE next == AfterRelease(operation, held[s], ProcessOf[s])
  <2>1. Writes(operation, next, held[s], {"queued"})
    BY <1>1, <1>5, <1>8, ReleaseWrites
  <2>2. operation' = operation \/ operation' = next
    BY <1>8 DEF HandBack
  <2> HIDE DEF next
  <2>3. Writes(operation, operation', held[s], {"queued", "failed", "dead_letter", "cancelled"})
    BY <1>1, <1>5, <1>8, <2>1, <2>2, NothingWrites DEF Writes
  <2>4. QED
    BY <1>5, <1>8, <2>3, SettleChain
<1>9. CASE RecordingLost(s)
  <2>1. Writes(operation, operation', held[s], {"queued", "failed", "dead_letter", "cancelled"})
    BY <1>1, <1>5, <1>9, NothingWrites DEF RecordingLost
  <2>2. QED
    BY <1>5, <1>9, <2>1, SettleChain
<1>10. QED
  BY <1>2, <1>3, <1>4, <1>6, <1>7, <1>8, <1>9, ClaimChain, RearmChain, HandlerReturnsChain,
     RecordSuccessChain DEF Step

LEMMA EnvironmentChain ==
    ASSUME IInv, ChainIInv, NEW o \in Operation, Environment(o)
    PROVE  ChainIInv'
<1>1. UNCHANGED <<pc, held, armed>> /\ operation \in [Operation -> Row]
  BY DEF Environment, Enqueue, RequestCancel, BecomeDue, LeaseLapse, IInv, TypeOK
<1>2. CASE Enqueue(o)
  <2>1. PICK due \in BOOLEAN : operation' = [operation EXCEPT ![o] = Inserted(due)]
    BY <1>2 DEF Enqueue
  <2>2. /\ operation'[o].state = "queued" /\ operation'[o].attempt = 0
        /\ \A p \in Operation \ {o} : operation'[p] = operation[p]
    BY <1>1, <2>1, InsertedRow
  <2>3. /\ operation[o].state = "absent" /\ operation[o].attempt = 0
        /\ \A t \in Slot : armed[t] # o
    BY <1>2 DEF Enqueue, Unused, IInv, WithinBudget
  <2>4. RowsCarryOn
    BY <1>1, <2>2, <2>3 DEF RowsCarryOn, Alive, AliveStates, Row
  <2>5. NobodysRowsAppear
    BY <1>1, <2>2, <2>3 DEF NobodysRowsAppear, Uncommitted, IInv, TypeOK
  <2>6. SlotsCarryOn
    BY <1>1 DEF SlotsCarryOn, ChainIInv, ArmedInChain, Busy
  <2>7. QED
    BY <1>1, <2>4, <2>5, <2>6, ChainStep
<1>3. CASE RequestCancel(o)
  <2>1. \A p \in Operation :
          \/ operation'[p] = operation[p]
          \/ /\ operation[p].state \in PendingStates
             /\ operation'[p].state \in {"cancelled", "running"}
             /\ operation'[p].attempt = operation[p].attempt
    BY <1>3, RequestCancelEffect
  <2>2. RowsCarryOn
    <3>1. \A p \in Operation : operation[p].attempt \in Nat
      BY <1>1 DEF Row
    <3>2. QED
      BY <2>1, <3>1 DEF RowsCarryOn, Alive, AliveStates
  <2>3. NobodysRowsAppear
    BY <1>1, <2>1 DEF NobodysRowsAppear, Uncommitted, PendingStates, IInv, TypeOK
  <2>4. SlotsCarryOn
    BY <1>1 DEF SlotsCarryOn, ChainIInv, ArmedInChain, Busy
  <2>5. QED
    BY <1>1, <2>2, <2>3, <2>4, ChainStep
<1>4. CASE BecomeDue(o) \/ LeaseLapse(o)
  <2>1. \A p \in Operation : /\ operation'[p].state = operation[p].state
                             /\ operation'[p].attempt = operation[p].attempt
    BY <1>4, TouchEffect
  <2>2. QED
    BY <1>1, <2>1, TouchedChain
<1>5. QED
  BY <1>2, <1>3, <1>4 DEF Environment

(* Slots, rows and time leave every schedule standing.                     *)
LEMMA NextChain == IInv /\ ChainIInv /\ [Next]_vars => ChainIInv'
<1> SUFFICES ASSUME IInv, ChainIInv, [Next]_vars PROVE ChainIInv'
  OBVIOUS
<1>1. CASE UNCHANGED vars
  BY <1>1, DroppingChain DEF vars, Busy
<1>2. ASSUME NEW s \in Slot, Step(s) PROVE ChainIInv'
  BY <1>2, StepChain
<1>3. ASSUME NEW process \in Holder, Crash(process) PROVE ChainIInv'
  <2>1. UNCHANGED operation
    BY <1>3 DEF Crash
  <2>2. \A t \in Slot : \/ armed'[t] = armed[t] /\ held'[t] = held[t] /\ pc'[t] = pc[t]
                        \/ armed'[t] = NoOperation /\ pc'[t] = "idle"
    BY <1>3 DEF Crash
  <2>3. QED
    BY <2>1, <2>2, DroppingChain DEF Busy
<1>4. ASSUME NEW o \in Operation, Environment(o) PROVE ChainIInv'
  BY <1>4, EnvironmentChain
<1>5. QED
  BY <1>1, <1>2, <1>3, <1>4 DEF Next

(* A schedule that re-arms itself never ends silently: whatever crashes,   *)
(* hangs or is taken over, there is a pending row as long as there are rows*)
(* to insert, unless a run failed for good or was cancelled.               *)
THEOREM ScheduleSurvives == Spec => []ChainUnbroken
<1>1. Init => ChainIInv
  BY DEF Init, ChainIInv, ArmedInChain, InsertedAlone, ReturnedHasRearmed, ChainStands,
         Uncommitted, Converged, ConvergedRun, Absent
<1>2. IInv /\ ChainIInv => ChainUnbroken
  <2> SUFFICES ASSUME ChainIInv, NEW o \in Operation, KeyOf[o] \in Recurring,
                      NEW p \in Operation, SameKey(o, p), Unused(p),
                      NEW q \in Operation, SameKey(o, q), operation[q].state = "succeeded"
               PROVE  \E r \in Operation : SameKey(o, r) /\ operation[r].state \in AliveStates
    BY DEF ChainUnbroken, AliveStates
  <2>1. QED
    BY DEF ChainIInv, ChainStands, Unused, Alive
<1>3. QED
  BY <1>1, <1>2, Invariance, NextChain, PTL DEF Spec

-----------------------------------------------------------------------------
(* The refinement of OperationLifecycle.                                   *)

(* The values the mapping of Runner gives to the lifecycle's variables.    *)
LifeOf(o) ==
    IF operation[o].state \in PendingStates THEN "pending" ELSE operation[o].state
Life == [o \in Operation |-> LifeOf(o)]
Asked == [o \in Operation |-> operation[o].cancel_requested]

LEMMA Abstraction ==
    /\ Lifecycle!vars = <<Life, Asked, effects>>
    /\ Lifecycle!vars' = <<Life', Asked', effects'>>
BY DEF Lifecycle!vars, Life, LifeOf, Asked

(* Rows that stay pending, or as they are, do not show.                    *)
LEMMA StutterStep ==
    ASSUME \A o \in Operation : LifeOf(o)' = LifeOf(o),
           \A o \in Operation : operation'[o].cancel_requested = operation[o].cancel_requested,
           UNCHANGED effects
    PROVE  UNCHANGED Lifecycle!vars
BY Abstraction DEF Life, Asked

(* One row moves from a life to another.                                   *)
LEMMA OneLife ==
    ASSUME NEW o \in Operation, \A p \in Operation \ {o} : LifeOf(p)' = LifeOf(p)
    PROVE  Life' = [Life EXCEPT ![o] = LifeOf(o)']
BY DEF Life

LEMMA GiveUpStep ==
    ASSUME NEW o \in Operation, LifeOf(o) = "pending",
           LifeOf(o)' \in {"failed", "dead_letter"},
           \A p \in Operation \ {o} : LifeOf(p)' = LifeOf(p),
           \A p \in Operation : operation'[p].cancel_requested = operation[p].cancel_requested,
           UNCHANGED effects
    PROVE  Lifecycle!Next
<1>1. Life' = [Life EXCEPT ![o] = LifeOf(o)'] /\ Life[o] = "pending" /\ Asked' = Asked
  BY OneLife DEF Life, Asked
<1>2. Lifecycle!GiveUp(o)
  BY <1>1 DEF Lifecycle!GiveUp, Life, LifeOf, Asked
<1>3. QED
  BY <1>2 DEF Lifecycle!Next

-----------------------------------------------------------------------------
(* What each kind of step is in the lifecycle.                             *)

LEMMA ClaimLife ==
    ASSUME IInv, NEW s \in Slot, Claim(s)
    PROVE  Lifecycle!Next \/ UNCHANGED Lifecycle!vars
<1>1. PICK o \in Operation :
        /\ operation[o].state \in PendingStates
        /\ \A p \in Operation : p # o => operation'[p] = operation[p]
        /\ operation'[o].cancel_requested = operation[o].cancel_requested
        /\ operation'[o].state \in {"running", "dead_letter"}
  BY ClaimEffect
<1>2. UNCHANGED effects
  BY DEF Claim
<1>3. \A p \in Operation \ {o} : LifeOf(p)' = LifeOf(p)
  BY <1>1 DEF LifeOf
<1>4. CASE operation'[o].state = "running"
  <2>1. LifeOf(o)' = LifeOf(o)
    BY <1>1, <1>4 DEF LifeOf, PendingStates
  <2>2. QED
    BY <1>1, <1>2, <1>3, <2>1, StutterStep
<1>5. CASE operation'[o].state = "dead_letter"
  <2>1. LifeOf(o) = "pending" /\ LifeOf(o)' = "dead_letter"
    BY <1>1, <1>5 DEF LifeOf, PendingStates
  <2>2. QED
    BY <1>1, <1>2, <1>3, <2>1, GiveUpStep
<1>6. QED
  BY <1>1, <1>4, <1>5

(* The lives of the operation that succeeded and of its successor.         *)
LEMMA SucceedLife ==
    ASSUME NEW o \in Operation, LifeOf(o) = "pending", LifeOf(o)' = "succeeded",
           effects' = [effects EXCEPT ![o] = @ + 1], Asked' = Asked,
           \/ \A p \in Operation \ {o} : LifeOf(p)' = LifeOf(p)
           \/ \E successor \in Operation \ {o} :
                /\ LifeOf(successor) = "absent" /\ LifeOf(successor)' = "pending"
                /\ \A p \in Operation \ {o, successor} : LifeOf(p)' = LifeOf(p)
    PROVE  Lifecycle!Next
<1>1. CASE \A p \in Operation \ {o} : LifeOf(p)' = LifeOf(p)
  <2>1. Life' = [Life EXCEPT ![o] = "succeeded"] /\ Life[o] = "pending"
    BY <1>1, OneLife DEF Life
  <2>2. Lifecycle!Succeed(o)
    BY <2>1 DEF Lifecycle!Succeed, Life, LifeOf, Asked
  <2>3. QED
    BY <2>2 DEF Lifecycle!Next
<1>2. CASE \E successor \in Operation \ {o} :
             /\ LifeOf(successor) = "absent" /\ LifeOf(successor)' = "pending"
             /\ \A p \in Operation \ {o, successor} : LifeOf(p)' = LifeOf(p)
  <2>1. PICK successor \in Operation \ {o} :
          /\ LifeOf(successor) = "absent" /\ LifeOf(successor)' = "pending"
          /\ \A p \in Operation \ {o, successor} : LifeOf(p)' = LifeOf(p)
    BY <1>2
  <2>2. /\ Life' = [Life EXCEPT ![o] = "succeeded", ![successor] = "pending"]
        /\ Life[o] = "pending" /\ Life[successor] = "absent"
    BY <2>1 DEF Life
  <2>3. Lifecycle!Succeed(o)
    BY <2>2 DEF Lifecycle!Succeed, Life, LifeOf, Asked
  <2>4. QED
    BY <2>3 DEF Lifecycle!Next
<1>3. QED
  BY <1>1, <1>2

LEMMA RecordSuccessLife ==
    ASSUME IInv, NEW s \in Slot, RecordSuccess(s)
    PROVE  Lifecycle!Next \/ UNCHANGED Lifecycle!vars
<1>1. PICK o \in Operation : held[s].op = o
  BY NobodyHoldsAbsent DEF RecordSuccess, Busy
<1>2. CASE ~Holds(operation, held[s])
  <2>1. UNCHANGED <<operation, effects>>
    BY <1>2 DEF RecordSuccess
  <2>2. QED
    BY <2>1, StutterStep DEF LifeOf
<1>3. CASE Holds(operation, held[s])
  <2>1. /\ operation[o].state = "running" /\ operation'[o].state = "succeeded"
        /\ effects' = [effects EXCEPT ![o] = @ + 1]
        /\ operation'[o].cancel_requested = operation[o].cancel_requested
        /\ \/ \A p \in Operation \ {o} : operation'[p] = operation[p]
           \/ \E successor \in Operation \ {o} :
                /\ operation[successor].state = "absent"
                /\ operation'[successor] = Inserted(FALSE)
                /\ \A p \in Operation \ {o, successor} : operation'[p] = operation[p]
    BY <1>1, <1>3, SuccessEffect
  <2>2. LifeOf(o) = "pending" /\ LifeOf(o)' = "succeeded"
    BY <2>1 DEF LifeOf, PendingStates
  <2>3. CASE \A p \in Operation \ {o} : operation'[p] = operation[p]
    <3>1. Asked' = Asked
      BY <2>1, <2>3 DEF Asked
    <3>2. \A p \in Operation \ {o} : LifeOf(p)' = LifeOf(p)
      BY <2>3 DEF LifeOf
    <3>3. QED
      BY <2>1, <2>2, <3>1, <3>2, SucceedLife
  <2>4. ASSUME NEW successor \in Operation \ {o},
               operation[successor].state = "absent",
               operation'[successor] = Inserted(FALSE),
               \A p \in Operation \ {o, successor} : operation'[p] = operation[p]
        PROVE  Lifecycle!Next
    <3>1. LifeOf(successor) = "absent" /\ LifeOf(successor)' = "pending"
      BY <2>4, InsertedRow DEF LifeOf, PendingStates
    <3>2. \A p \in Operation \ {o, successor} : LifeOf(p)' = LifeOf(p)
      BY <2>4 DEF LifeOf
    <3>3. operation'[successor].cancel_requested = operation[successor].cancel_requested
      BY <2>4, InsertedRow DEF IInv, TypeOK, WithinBudget, Row
    <3>4. Asked' = Asked
      BY <2>1, <2>4, <3>3 DEF Asked
    <3>5. QED
      BY <2>1, <2>2, <3>1, <3>2, <3>4, SucceedLife
  <2>5. QED
    BY <2>1, <2>3, <2>4
<1>4. QED
  BY <1>2, <1>3

(* What a slot writes about its claim, unless it is a retry or a hand-back,*)
(* is an end of it.                                                        *)
LEMMA WritesLife ==
    ASSUME NEW s \in Slot, NEW o \in Operation, NEW states, held[s].op = o,
           Writes(operation, operation', held[s], states), UNCHANGED effects,
           states \subseteq {"queued", "failed", "dead_letter"}
    PROVE  Lifecycle!Next \/ UNCHANGED Lifecycle!vars
<1>1. /\ \A p \in Operation : operation'[p].cancel_requested = operation[p].cancel_requested
      /\ \A p \in Operation \ {o} : operation'[p] = operation[p]
  BY DEF Writes
<1>2. \A p \in Operation \ {o} : LifeOf(p)' = LifeOf(p)
  BY <1>1 DEF LifeOf
<1>3. CASE operation'[o] = operation[o]
  <2>1. LifeOf(o)' = LifeOf(o)
    BY <1>3 DEF LifeOf
  <2>2. QED
    BY <1>1, <1>2, <2>1, StutterStep
<1>4. CASE operation'[o] # operation[o]
  <2>1. /\ operation[o].state = "running"
        /\ operation'[o].state \in {"queued", "failed", "dead_letter"}
    BY <1>4 DEF Writes, Holds
  <2>2. CASE operation'[o].state = "queued"
    <3>1. LifeOf(o)' = LifeOf(o)
      BY <2>1, <2>2 DEF LifeOf, PendingStates
    <3>2. QED
      BY <1>1, <1>2, <3>1, StutterStep
  <2>3. CASE operation'[o].state \in {"failed", "dead_letter"}
    <3>1. LifeOf(o) = "pending" /\ LifeOf(o)' \in {"failed", "dead_letter"}
      BY <2>1, <2>3 DEF LifeOf, PendingStates
    <3>2. QED
      BY <1>1, <1>2, <3>1, GiveUpStep
  <2>4. QED
    BY <2>1, <2>2, <2>3
<1>5. QED
  BY <1>3, <1>4

LEMMA RecordFailureLife ==
    ASSUME IInv, NEW s \in Slot, RecordFailure(s)
    PROVE  Lifecycle!Next \/ UNCHANGED Lifecycle!vars
<1> DEFINE next == AfterFail(operation, held[s], pc[s] = "failing")
<1>1. /\ Busy(s) /\ UNCHANGED effects
      /\ operation' = operation \/ operation' = next
      /\ held[s] \in Claimed /\ held[s].op \in Operation /\ operation \in [Operation -> Row]
  BY NobodyHoldsAbsent DEF RecordFailure, Busy, IInv, TypeOK
<1>2. operation[held[s].op].attempt = held[s].attempt => operation[held[s].op].state = "running"
  BY <1>1 DEF IInv, CurrentIsRunning
<1>3. Writes(operation, next, held[s], {"failed", "dead_letter", "queued"})
  BY <1>1, <1>2, FailWrites
<1> HIDE DEF next
<1>4. Writes(operation, operation', held[s], {"queued", "failed", "dead_letter"})
  BY <1>1, <1>3, NothingWrites DEF Writes
<1>5. QED
  BY <1>1, <1>4, WritesLife

LEMMA HandBackLife ==
    ASSUME IInv, NEW s \in Slot, HandBack(s)
    PROVE  Lifecycle!Next \/ UNCHANGED Lifecycle!vars
<1> DEFINE next == AfterRelease(operation, held[s], ProcessOf[s])
<1>1. /\ Busy(s) /\ UNCHANGED effects
      /\ operation' = operation \/ operation' = next
      /\ held[s] \in Claimed /\ held[s].op \in Operation /\ operation \in [Operation -> Row]
  BY NobodyHoldsAbsent DEF HandBack, Busy, IInv, TypeOK
<1>2. Writes(operation, next, held[s], {"queued"})
  BY <1>1, ReleaseWrites, ProcessOfAssumption
<1> HIDE DEF next
<1>3. Writes(operation, operation', held[s], {"queued", "failed", "dead_letter"})
  BY <1>1, <1>2, NothingWrites DEF Writes
<1>4. QED
  BY <1>1, <1>3, WritesLife

(* A pending row that ends cancelled was asked to, or is in this step.     *)
LEMMA CancelledLife ==
    ASSUME NEW o \in Operation, LifeOf(o) = "pending", LifeOf(o)' = "cancelled",
           \A p \in Operation \ {o} : operation'[p] = operation[p],
           operation'[o].cancel_requested = TRUE, UNCHANGED effects
    PROVE  Lifecycle!AskToCancel(o)
<1>1. \A p \in Operation \ {o} : LifeOf(p)' = LifeOf(p)
  BY DEF LifeOf
<1>2. Life' = [Life EXCEPT ![o] = "cancelled"] /\ Life[o] = "pending"
  BY <1>1, OneLife DEF Life
<1>3. Asked' = [Asked EXCEPT ![o] = TRUE]
  BY DEF Asked
<1>4. QED
  BY <1>2, <1>3 DEF Lifecycle!AskToCancel, Life, LifeOf, Asked

LEMMA RecordCancelledLife ==
    ASSUME IInv, NEW s \in Slot, RecordCancelled(s)
    PROVE  Lifecycle!Next \/ UNCHANGED Lifecycle!vars
<1> DEFINE next == AfterFinish(operation, held[s], "cancelled")
<1>1. /\ Busy(s) /\ UNCHANGED effects /\ operation' = next
      /\ held[s] \in Claimed /\ operation \in [Operation -> Row]
  BY NobodyHoldsAbsent DEF RecordCancelled, Busy, IInv, TypeOK
<1>2. PICK o \in Operation : held[s].op = o
  BY <1>1, NobodyHoldsAbsent
<1>3. operation[o].cancel_requested = TRUE
  BY <1>1, <1>2 DEF RecordCancelled, IInv, TypeOK, StoppedBecauseAsked, Row
<1>4. Writes(operation, next, held[s], {"cancelled"})
  BY <1>1, FinishWrites DEF TerminalStates
<1> HIDE DEF next
<1>5. /\ \A p \in Operation \ {o} : operation'[p] = operation[p]
      /\ operation'[o].cancel_requested = operation[o].cancel_requested
      /\ operation'[o] # operation[o] => /\ operation[o].state = "running"
                                        /\ operation'[o].state = "cancelled"
  BY <1>1, <1>2, <1>4 DEF Writes, Holds
<1>6. CASE operation'[o] = operation[o]
  <2>1. \A p \in Operation : operation'[p] = operation[p]
    BY <1>5, <1>6
  <2>2. QED
    BY <1>1, <2>1, StutterStep DEF LifeOf
<1>7. CASE operation'[o] # operation[o]
  <2>1. LifeOf(o) = "pending" /\ LifeOf(o)' = "cancelled"
    BY <1>5, <1>7 DEF LifeOf, PendingStates
  <2>2. QED
    BY <1>1, <1>3, <1>5, <2>1, CancelledLife DEF Lifecycle!Next
<1>8. QED
  BY <1>6, <1>7

LEMMA EnvironmentLife ==
    ASSUME IInv, NEW o \in Operation, Environment(o)
    PROVE  Lifecycle!Next \/ UNCHANGED Lifecycle!vars
<1>1. CASE Enqueue(o)
  <2>1. PICK due \in BOOLEAN : operation' = [operation EXCEPT ![o] = Inserted(due)]
    BY <1>1 DEF Enqueue
  <2>2. operation[o].state = "absent" /\ UNCHANGED effects /\ operation \in [Operation -> Row]
    BY <1>1 DEF Enqueue, Unused, IInv, TypeOK
  <2>3. /\ \A p \in Operation \ {o} : operation'[p] = operation[p]
        /\ operation'[o].state = "queued"
        /\ operation'[o].cancel_requested = operation[o].cancel_requested
    BY <2>1, <2>2, InsertedRow DEF IInv, WithinBudget, Row
  <2>4. /\ LifeOf(o) = "absent" /\ LifeOf(o)' = "pending"
        /\ \A p \in Operation \ {o} : LifeOf(p)' = LifeOf(p)
    BY <2>2, <2>3 DEF LifeOf, PendingStates
  <2>5. /\ Life' = [Life EXCEPT ![o] = "pending"] /\ Life[o] = "absent"
        /\ Asked' = Asked
    BY <2>3, <2>4, OneLife DEF Life, Asked
  <2>6. Lifecycle!Submit(o)
    BY <2>2, <2>5 DEF Lifecycle!Submit, Life, LifeOf, Asked
  <2>7. QED
    BY <2>6 DEF Lifecycle!Next
<1>2. CASE RequestCancel(o)
  <2>1. /\ UNCHANGED effects
        /\ operation' \in [Operation -> Row]
        /\ operation[o].state \in PendingStates
        /\ \A p \in Operation \ {o} : operation'[p] = operation[p]
        /\ operation'[o].cancel_requested = TRUE
        /\ operation'[o].state =
             IF operation[o].state = "queued" THEN "cancelled" ELSE "running"
    BY <1>2, RequestCancelEffect DEF RequestCancel, Row
  <2>2. CASE operation[o].state = "queued"
    <3>1. LifeOf(o) = "pending" /\ LifeOf(o)' = "cancelled"
      BY <2>1, <2>2 DEF LifeOf, PendingStates
    <3>2. QED
      BY <2>1, <3>1, CancelledLife DEF Lifecycle!Next
  <2>3. CASE operation[o].state # "queued"
    <3>1. LifeOf(o) = "pending" /\ LifeOf(o)' = "pending"
      BY <2>1, <2>3 DEF LifeOf, PendingStates
    <3>2. \A p \in Operation : LifeOf(p)' = LifeOf(p)
      BY <2>1, <3>1 DEF LifeOf
    <3>3. Life' = Life /\ Life[o] = "pending" /\ Asked' = [Asked EXCEPT ![o] = TRUE]
      BY <2>1, <3>1, <3>2 DEF Life, Asked
    <3>4. Lifecycle!AskToCancel(o)
      BY <2>1, <3>3 DEF Lifecycle!AskToCancel, Life, LifeOf, Asked
    <3>5. QED
      BY <3>4 DEF Lifecycle!Next
  <2>4. QED
    BY <2>2, <2>3
<1>3. CASE BecomeDue(o) \/ LeaseLapse(o)
  <2>1. UNCHANGED effects
    BY <1>3 DEF BecomeDue, LeaseLapse
  <2>2. QED
    BY <1>3, <2>1, TouchEffect, StutterStep DEF LifeOf
<1>4. QED
  BY <1>1, <1>2, <1>3 DEF Environment

LEMMA StepLife ==
    ASSUME IInv, NEW s \in Slot, Step(s)
    PROVE  Lifecycle!Next \/ UNCHANGED Lifecycle!vars
<1>1. CASE Beat(s)
  <2>1. PICK o \in Operation : held[s].op = o
    BY <1>1, NobodyHoldsAbsent DEF Beat, Busy
  <2>2. UNCHANGED effects
    BY <1>1 DEF Beat
  <2>3. QED
    BY <1>1, <2>1, <2>2, TouchEffect, StutterStep DEF LifeOf
<1>2. CASE \/ PollEmpty(s) \/ Rearm(s) \/ HandlerReturns(s) \/ HandlerRaises(s)
           \/ HandlerCancelled(s) \/ WindowElapsed(s) \/ RecordingLost(s)
  <2>1. UNCHANGED <<operation, effects>>
    BY <1>2 DEF PollEmpty, Rearm, HandlerReturns, HandlerRaises, HandlerCancelled, WindowElapsed,
                RecordingLost, vars
  <2>2. QED
    BY <2>1, StutterStep DEF LifeOf
<1>3. QED
  BY <1>1, <1>2, ClaimLife, RecordSuccessLife, RecordFailureLife, RecordCancelledLife,
     HandBackLife DEF Step

-----------------------------------------------------------------------------
LEMMA InitLife == Init => Lifecycle!Init
<1> SUFFICES ASSUME Init PROVE Lifecycle!Init
  OBVIOUS
<1>1. Absent.state = "absent" /\ Absent.cancel_requested = FALSE
  BY DEF Absent
<1>2. \A o \in Operation : LifeOf(o) = "absent" /\ operation[o].cancel_requested = FALSE
  BY <1>1 DEF Init, LifeOf, PendingStates
<1>3. Life = [o \in Operation |-> "absent"] /\ Asked = [o \in Operation |-> FALSE]
  BY <1>2 DEF Life, Asked
<1>4. QED
  BY <1>3 DEF Init, Lifecycle!Init, Life, LifeOf, Asked

LEMMA NextLife == IInv /\ [Next]_vars => [Lifecycle!Next]_(Lifecycle!vars)
<1> SUFFICES ASSUME IInv, [Next]_vars PROVE Lifecycle!Next \/ UNCHANGED Lifecycle!vars
  OBVIOUS
<1>1. ASSUME NEW process \in Holder, Crash(process) PROVE UNCHANGED Lifecycle!vars
  <2>1. UNCHANGED <<operation, effects>>
    BY <1>1 DEF Crash
  <2>2. QED
    BY <2>1, StutterStep DEF LifeOf
<1>2. CASE UNCHANGED vars
  <2>1. UNCHANGED <<operation, effects>>
    BY <1>2 DEF vars
  <2>2. QED
    BY <2>1, StutterStep DEF LifeOf
<1>3. QED
  BY <1>1, <1>2, StepLife, EnvironmentLife DEF Next

(* Whatever workers, leases, retries, hand-backs and crashes do, the table *)
(* behaves as the lifecycle: one end per operation, effects with it only.  *)
THEOREM Refinement == Spec => RefinesLifecycle
<1>1. QED
  BY InitLife, NextLife, Invariance, PTL DEF Spec, RefinesLifecycle, Lifecycle!Spec

(* A row that is over stays as it ended: no late result, retry, lapse or   *)
(* cancellation reopens it or replaces its end.                            *)
THEOREM Finality == Spec => TerminalIsFinal
<1> DEFINE Final == \A o \in Operation :
              operation[o].state \in TerminalStates => operation'[o].state = operation[o].state
<1>1. ASSUME Lifecycle!Next, NEW o \in Operation, operation[o].state \in TerminalStates
      PROVE  operation'[o].state = operation[o].state
  <2>1. Life[o] = operation[o].state /\ Life[o] \notin {"pending", "absent"}
    BY <1>1 DEF Life, LifeOf, TerminalStates, PendingStates
  <2>2. Life'[o] = Life[o]
    BY <1>1, <2>1
       DEF Lifecycle!Next, Lifecycle!Submit, Lifecycle!Succeed, Lifecycle!GiveUp,
           Lifecycle!AskToCancel, Lifecycle!Cancel, Life, LifeOf, Asked
  <2>3. QED
    BY <1>1, <2>1, <2>2 DEF Life, LifeOf, TerminalStates, PendingStates
<1>2. ASSUME UNCHANGED Lifecycle!vars, NEW o \in Operation, operation[o].state \in TerminalStates
      PROVE  operation'[o].state = operation[o].state
  BY <1>2, Abstraction DEF Life, LifeOf, TerminalStates, PendingStates
<1>3. IInv /\ [Next]_vars => Final
  BY <1>1, <1>2, NextLife
<1>4. QED
  BY <1>3, Invariance, PTL DEF Spec, TerminalIsFinal
=============================================================================
