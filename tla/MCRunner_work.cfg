SPECIFICATION FairSpec
CONSTANTS
  p1 = p1  p2 = p2  s1 = s1  s2 = s2  o1 = o1  o2 = o2  o3 = o3
  schedule = schedule
  Holder = {p1, p2}
  NoHolder = NoHolder
  NoKey = NoKey
  NoOperation = NoOperation
  Slot = {s1, s2}
  Operation = {o1, o2}
  MaxAttempts = 2
  Recurring = {schedule}
  ProcessOf <- OneProcess
  KeyOf <- OneSchedule
INVARIANTS EffectsMatchState FencingTokenUnique
PROPERTIES ZombieIsFenced EveryOperationSettles
