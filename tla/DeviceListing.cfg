CONSTANTS
    MaxDevices = 3
    MaxRequested = 2
    MaxRemovals = 1
    DefaultPageSize = 3
    MaxCap = 2
SPECIFICATION FairSpec
INVARIANTS
    TypeOK
    NoDeviceDropped
PROPERTY ListingEnds
CHECK_DEADLOCK FALSE
