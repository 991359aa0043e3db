CONSTANTS
    NoToken = NoToken
    Garbled = Garbled
    Worker = {w1, w2}
    Token = {t1, t2, t3}
    Grantable = {t1, t2, t3, NoToken}
    Renewals = {"inPlace", "replace"}
    Outages = TRUE
    MaxExpiries = 0
SPECIFICATION FairSpec
INVARIANTS
    TypeOK
    EffectMatchesStage
PROPERTY ImplementsRequestService
