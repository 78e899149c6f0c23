SPECIFICATION Spec
CONSTANTS
    Session = {s1, s2, s3}
    Request = {p1, p2}
    None = None
    CacheTTL = 3
    IdleTimeout = 40
    AbsoluteLifetime = 5
    RememberLifetime = 7
    PendingLifetime = 1
    Logins <- Pending
    MaxOp = 1
    MaxOutages = 0
    MaxTime = 3
SYMMETRY Symmetric
CONSTRAINT OneLogin
INVARIANTS
    RevocationIsImmediate
    LifetimeNeverRestarts
PROPERTIES
    RevokedRowIsFrozen
    RowsAreASessionTable
