SPECIFICATION LockoutSpec
CONSTANTS
    a1 = a1
    a2 = a2
    a3 = a3
    a4 = a4
    a5 = a5
    LOCKOUT_THRESHOLD = 2
    LADDER <- MCLadder
    Attempt = {a1, a2, a3, a4, a5}
    Guess <- MCGuess
    MaxTime = 6
SYMMETRY Symmetries
INVARIANTS
    EveryFailureCounts
    FailuresArePaced
PROPERTY LiveLockHolds
CHECK_DEADLOCK FALSE
