SPECIFICATION Spec
CONSTANTS
    o1 = o1
    o2 = o2
    r1 = r1
    r2 = r2
    r3 = r3
    c1 = c1
    t1 = t1
    t2 = t2
    None = None
    Organization = {o1, o2}
    Row = {r1, r2, r3}
    OwnerOf <- MCOwner
    Connection = {c1}
    Task = {t1, t2}
INVARIANTS
    ExtensionIsolates
    PoliciesIsolate
    OwnRowsAreReached
