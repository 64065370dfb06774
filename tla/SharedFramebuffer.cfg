\* Leak freedom of attach_region over three sessions and every server kind.
CONSTANTS
    FdNums <- MCFdNums
    Addrs <- MCAddrs
    ServerKinds <- MCServerKinds
    MaxSessions = 3
    MaxOther = 1
    Null = Null
    MapFailed = MapFailed
    None = None
SPECIFICATION Spec
INVARIANT NoResourceLeak
