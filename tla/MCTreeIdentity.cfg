SPECIFICATION MCFairSpec
CONSTANTS
    home = home  a = a  b = b  c = c
    n = n  m = m  g = g  h = h  p1 = p1  None = None
    Folder = {home, a, b, c}
    Root = {home}
    Name = {n, m}
    File = {g, h}
    Request = {p1}
    Size = {1}
    BATCH = 1
    BATCHES_PER_RUN = 2
    MaxChanges = 2
PROPERTY DriftIsRepaired
CHECK_DEADLOCK FALSE
