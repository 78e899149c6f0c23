SPECIFICATION Spec
CONSTANTS
    s1 = s1
    s2 = s2
    f1 = f1
    f2 = f2
    f3 = f3
    f4 = f4
    Session = {s1, s2}
    Flow = {f1, f2, f3, f4}
    Races <- MCRaces
    MFA_ATTEMPT_LIMIT = 2
    CODES = 2
    MaxStep = 3
    MaxCrashes = 1
    None = None
INVARIANTS
    PromotionsArePaid
    OneSetOfCodes
    LockedOutSessionsGo
PROPERTY
    AcceptedStepsRise
CHECK_DEADLOCK FALSE
