SPECIFICATION EnqueueSpec
CONSTANTS
  schedule = schedule
  Holder = {h1}
  NoHolder = NoHolder
  NoKey = NoKey
  Operation = {o1, o2, o3}
  MaxAttempts = 3
  Caller = {enqueuer, rearmer, other}
  Converging = {enqueuer}
  Turns = 3
  KeyOf <- OneSchedule
SYMMETRY RowSymmetry
INVARIANTS EnqueueTypeOK AnswerWasPending RaisesOnlyUnderChurn
PROPERTIES RunningWorkIsNotDuplicated
