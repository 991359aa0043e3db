CONSTANTS
    n1 = n1
    n2 = n2
    n3 = n3
    k1 = k1
    k2 = k2
    Name <- MCNames
    Key <- MCKey
    Lower <- MCLower
    Worker = {w1, w2}
    Requests <- MCMixed
    Configs <- MCConfigs
    Outages = TRUE
    MaxId = 2
SPECIFICATION Spec
SYMMETRY MCSymmetry
INVARIANTS
    TypeOK
    DeleteMeansGone
    PasswordFits
    CreatedIsReported
    OneTypeCreated
    FreshUncached
    StaleAnswerSameKey
