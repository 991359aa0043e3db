CONSTANTS
    Account = {a1, a2, a3}
    Cachings = {TRUE}
    Tries = 5
    MaxBlanks = 4
    MaxChanges = 3
SPECIFICATION Spec
INVARIANTS
    MembersFound
CHECK_DEADLOCK FALSE
