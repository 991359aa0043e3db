CONSTANTS
    Ann = Ann
    Bob = Bob
    Blank = Blank
    annKey = annKey
    bobKey = bobKey
    Raw <- MCRaw
    Empty = Empty
    Key <- MCKey
    NoKey = NoKey
    Norm <- MCNorm
    Users <- MCUsers
    KeysOf <- MCKeysOf
    NoDevice = NoDevice
    Worker = {w1, w2}
    Device = {d1, d2}
    Mobile = {d2}
    Reports <- MCReports
    Caching = TRUE
    MaxChanges = 1
    MaxSyncs = 2
    MaxRestarts = 1
SPECIFICATION FairSpec
INVARIANTS
    TypeOK
    GrantHasEntitlement
    GranteeExisted
    StableUserGranted
    GrantsFollowListing
    GrantNamesSomeone
PROPERTIES
    SyncCompletes
CHECK_DEADLOCK FALSE
