CONSTANTS
    Account = {a1, a2, a3}
    Cachings = {TRUE, FALSE}
    Tries = 5
    MaxBlanks = 4
    MaxChanges = 2
SPECIFICATION FairSpec
INVARIANTS
    TypeOK
    GrantsMatchAnswer
    MembersFoundUncached
    GranteesWereMembers
PROPERTIES
    GrantsEnd
CHECK_DEADLOCK FALSE
