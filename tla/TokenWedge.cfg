CONSTANTS
    NoToken = NoToken
    Garbled = Garbled
    Worker = {w1}
    Token = {t1, t2, t3}
    Grantable = {t1, t2, t3}
    Renewals = {"inPlace", "replace"}
    Outages = FALSE
    MaxExpiries = 1
SPECIFICATION BusySpec
PROPERTY TokenRecovers
