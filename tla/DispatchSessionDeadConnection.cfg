\* The one property TLC finds violated: a request on a null or freed connection.
CONSTANTS
    c1 = c1
    c2 = c2
    c3 = c3
    Conns <- MCConns
    NoConn = NoConn
    NoReq = NoReq
    MaxQueue = 3
    MaxResets = 1
SPECIFICATION Spec
INVARIANT NoRequestOnDeadConnection
