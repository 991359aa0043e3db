CONSTANTS
    s1 = s1
    p1 = p1
    User = {1}
    UserGroup = {2}
    Account = {3, 4}
    Group = {5}
    Site = {s1}
    Privilege = {p1}
    Watched <- MCWatched
    Shapes <- MCShapes
    Worlds <- MCWorlds
    Absent = Absent
    NotCached = NotCached
    NoCall = NoCall
    Worker = {w1, w2}
    Pools <- MCPools
    Cachings = {TRUE, FALSE}
    MaxChanges = 1
    MaxExpiries = 1
SPECIFICATION Spec
SYMMETRY MCSymmetry
INVARIANTS
    TypeOK
    ResultsWereTrue
    StableFactsFound
    SkippedByDeletion
    ExclusiveRoles
    GranteesListed
