SPECIFICATION MCSpec
CONSTANTS
    r = r  m = m  deeper = deeper  doc = doc  w1 = w1  w2 = w2  None = None
    Dir = {r, m, deeper}
    Root = r
    Up <- MCUp
    Order <- MCOrder
    Mount = {m}
    File = {doc}
    Worker = {w1}
    Op = {1, 2}
    MaxAttempts = 2
    MaxClaims = 3
    MaxChanges = 1
PROPERTY MountIsNotDeletion
CHECK_DEADLOCK FALSE
