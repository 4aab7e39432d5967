SPECIFICATION Spec
CONSTANTS
    general_limit = 2
    login_limit = 2
    window_seconds = 2
    Logins = {l1, l2}
    MaxTime = 4
    MaxCounted = 4
SYMMETRY Symmetry
INVARIANTS
    TypeOK
    GeneralWithinLimit
    LoginOvershootBounded
    RefusalJustified
CHECK_DEADLOCK FALSE
