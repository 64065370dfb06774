\* attach_region closes a descriptor number it no longer owns.
CONSTANTS
    FdNums <- MCFdNums
    Addrs <- MCAddrs
    ServerKinds <- MCServerKinds
    MaxSessions = 3
    MaxOther = 1
    Null = Null
    MapFailed = MapFailed
    None = None
SPECIFICATION Spec
INVARIANT NoForeignRelease
