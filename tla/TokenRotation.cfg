CONSTANTS
    NoToken = NoToken
    Garbled = Garbled
    Worker = {w1, w2}
    Token = {t1, t2, t3, t4}
    Grantable = {t1, t2, t3, t4}
    Renewals = {"replace"}
    Outages = FALSE
    MaxExpiries = 1
SPECIFICATION Spec
SYMMETRY MCSymmetry
INVARIANTS
    HeldPrivately
    NoTokenLost
