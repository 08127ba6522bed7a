SPECIFICATION MCSpec
CONSTANTS
    home = home  depot = depot  a = a  b = b
    n = n  m = m  g = g  p1 = p1  p2 = p2  None = None
    Folder = {home, depot, a, b}
    Root = {home, depot}
    Name = {n, m}
    File = {g}
    Request = {p1, p2}
    Size = {1, 2}
    BATCH = 2
    BATCHES_PER_RUN = 1
    MaxChanges = 2
SYMMETRY Slots
INVARIANTS TypeOK ClosureIsTree OneWorkspace TotalsAddUp
CHECK_DEADLOCK FALSE
