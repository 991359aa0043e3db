CONSTANTS
    Ann = Ann
    Bob = Bob
    Blank = Blank
    annKey = annKey
    bobKey = bobKey
    Raw <- MCRaw
    Empty = Empty
    Key <- MCKey
    NoKey = NoKey
    Norm <- MCNorm
    Users <- MCUsers
    KeysOf <- MCKeysOf
    NoDevice = NoDevice
    Worker = {w1}
    Device = {d1, d2}
    Mobile = {d2}
    Reports <- MCReports
    Caching = FALSE
    MaxChanges = 2
    MaxSyncs = 2
    MaxRestarts = 0
SPECIFICATION Spec
INVARIANTS
    UnassignedStayClean
CHECK_DEADLOCK FALSE
