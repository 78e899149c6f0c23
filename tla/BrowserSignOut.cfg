SPECIFICATION Spec
CONSTANTS
    Tab = {t1, t2}
    Token = {a, b, c}
    Org = {o1, o2}
    None = None
    Slot = {1, 2, 3, 4}
    Races <- AllRaces
    Accounts <- SomeAccounts
    RequireMfa = {o2}
SYMMETRY Interchangeable
CHECK_DEADLOCK FALSE
INVARIANT
    EverySignOutIsFinal
