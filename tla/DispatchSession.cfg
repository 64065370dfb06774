\* Safety of the session lifecycle across reconnects, failed handshakes,
\* hang-ups and the two threads.
CONSTANTS
    c1 = c1
    c2 = c2
    c3 = c3
    Conns <- MCConns
    NoConn = NoConn
    NoReq = NoReq
    MaxQueue = 3
    MaxResets = 1
SPECIFICATION Spec
SYMMETRY ConnSymmetry
INVARIANT PolledIsCurrent
INVARIANT ConnectedStateAccurate
INVARIANT NoOrphanedConnection
