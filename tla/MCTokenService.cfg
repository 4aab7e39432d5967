SPECIFICATION Spec
CONSTANTS
    Requests = {q1, q2}
    MaxPairs = 3
    MaxExpired = 1
SYMMETRY Symmetry
INVARIANTS
    TypeOK
    RotatedOnce
    RevokedIsRefused
PROPERTY
    InactiveGetsNothing
