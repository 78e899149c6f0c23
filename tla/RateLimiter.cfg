SPECIFICATION Spec
CONSTANTS
    i1 = i1
    i2 = i2
    a1 = a1
    a2 = a2
    u1 = u1
    Instance = {i1, i2}
    Skew <- MCSkew
    Call = {1, 2, 3}
    Unlucky = {2}
    Address = {a1, a2}
    Account = {u1}
    Organization = {o1}
    FromBody = {"login"}
    Limit <- MCLimit
    Closed = {"login", "invitations"}
    WindowSeconds = 2
    Second = 2
    None = None
    MaxLag = 1
    MaxClock = 10
SYMMETRY Symmetries
INVARIANTS
    NoWindowOverflows
    AnAddressIsBounded
    ClosedClassesPay
PROPERTIES
    RefusalsAreEarned
    RetryAfterIsEnough
CHECK_DEADLOCK FALSE
