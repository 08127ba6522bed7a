SPECIFICATION Spec
CONSTANTS
    a = a
    b = b
    cli = cli
    home = home
    p1 = p1
    p2 = p2
    outer = outer
    inner = inner
    q1 = q1
    q2 = q2
    Email = {a, b}
    FirstAdmin = {a, b}
    Password = {p1, p2}
    TokenName = {cli}
    Request = {q1, q2}
    Change <- MCChange
    Name = {home}
    Directory = {outer, inner}
    Within <- MCWithin
    MountPoint = {outer}
    Managed = Managed
    MaxRequests = 3
    MaxSessions = 2
    MaxAttempts = 2
    MaxInHand = 1
    None = None
INVARIANTS
    TypeOK
    SomebodyAdministers
    SessionsFollowThePassword
    WorkspacesAreSound
SYMMETRY MCSymmetry
CHECK_DEADLOCK FALSE
