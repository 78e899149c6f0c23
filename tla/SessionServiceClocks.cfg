SPECIFICATION Spec
CONSTANTS
    Session = {s1}
    Request = {p1, p2}
    None = None
    CacheTTL = 2
    IdleTimeout = 6
    AbsoluteLifetime = 20
    RememberLifetime = 20
    PendingLifetime = 20
    Logins <- Password
    MaxOp = 1
    MaxOutages = 2
    MaxTime = 7
SYMMETRY Symmetric
INVARIANTS
    NoEarlyExpiry
    StaleHitIsBounded
