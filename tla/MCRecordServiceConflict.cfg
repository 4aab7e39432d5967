SPECIFICATION Spec
CONSTANTS
    Names = {"admin", "user", "viewer", "newcomer"}
    Requests = {q1, q2}
    MaxUsers = 4
    Keep = Keep
    Null = Null
    Texts = {t1}
    Imports = {0, 2}
    MaxRecords = 4
PROPERTY
    DuplicateIsConflict
CHECK_DEADLOCK FALSE
