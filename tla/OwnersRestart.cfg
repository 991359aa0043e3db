CONSTANTS
    Ann = Ann
    Bob = Bob
    Blank = Blank
    annKey = annKey
    bobKey = bobKey
    Raw <- MCRaw
    Empty = Empty
    Key <- MCKey
    NoKey = NoKey
    Norm <- MCNorm
    Users <- MCUsers
    KeysOf <- MCKeysOf
    NoDevice = NoDevice
    Worker = {w1}
    Device = {d1, d2}
    Mobile = {d2}
    Reports <- MCReports
    Caching = FALSE
    MaxChanges = 0
    MaxSyncs = 1
    MaxRestarts = 1
SPECIFICATION Spec
INVARIANTS
    OwnersGranted
CHECK_DEADLOCK FALSE
