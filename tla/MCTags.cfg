SPECIFICATION MCSpec
CONSTANTS
    a = a  b = b  c = c  m = m  n = n  o = o  f = f  d = d  e = e
    p1 = p1  p2 = p2  None = None
    Tag = {a, b, c}
    Name = {m, n, o}
    File = {f}
    Folder = {d}
    Version = {1, 2}
    Extractor = {e}
    Session = {p1, p2}
    MaxRequests = 3
SYMMETRY Slots
INVARIANTS TypeOK ClosureIsReachability UserDecides
CHECK_DEADLOCK FALSE
