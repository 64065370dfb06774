\* refresh_screen reads a stale screen.shmaddr.
CONSTANTS
    FdNums <- MCFdNums
    Addrs <- MCAddrs
    ServerKinds <- MCServerKinds
    MaxSessions = 3
    MaxOther = 1
    Null = Null
    MapFailed = MapFailed
    None = None
SPECIFICATION Spec
INVARIANT BlitFromLiveMapping
