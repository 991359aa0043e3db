CONSTANTS
    n1 = n1
    n2 = n2
    n3 = n3
    k1 = k1
    k2 = k2
    Name <- MCName
    Key <- MCKey
    Lower <- MCLower
    Worker = {w1}
    Requests <- MCPlain
    Configs <- MCAccounts
    Outages = FALSE
    MaxId = 3
SPECIFICATION Spec
SYMMETRY MCSymmetry
INVARIANTS
    AnswerFromThisCall
