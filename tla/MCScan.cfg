SPECIFICATION MCSpec
CONSTANTS
    r = r  m = m  deeper = deeper  doc = doc  w1 = w1  w2 = w2  None = None
    Dir = {r, m}
    Root = r
    Up <- MCUp
    Order <- MCOrder
    Mount = {r, m}
    File = {doc}
    Worker = {w1, w2}
    Op = {1, 2}
    MaxAttempts = 2
    MaxClaims = 3
    MaxChanges = 2
SYMMETRY Loops
INVARIANTS TypeOK EventIsAnswered
PROPERTIES TrashedWasAbsent CalmScanIsExact
CHECK_DEADLOCK FALSE
