SPECIFICATION Spec
CONSTANTS
    f1 = f1
    f2 = f2
    f3 = f3
    t1 = t1
    t2 = t2
    t3 = t3
    t4 = t4
    Token = {t1, t2, t3, t4}
    None = None
    Link <- MCLink
    Flow = {f1, f2, f3}
    Races <- MCRaces
INVARIANTS
    TypeOK
PROPERTIES
    OnlyTheNewestWorksOnce
    SpentWithItsEffect
    RequestsEnd
CHECK_DEADLOCK FALSE
