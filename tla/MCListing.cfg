SPECIFICATION Spec
CONSTANTS
    size = 2
    SortKeys = {2, 3}
    Categories = {c1, c2}
    MaxRows = 4
    MaxKeyed = 3
INVARIANTS
    TypeOK
    AnswerAgrees
    WalkMissesNothing
