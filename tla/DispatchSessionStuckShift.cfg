\* The one property TLC finds violated: a horizontal scroll's Shift press
\* reaches a live server whose release never comes.
CONSTANTS
    c1 = c1
    c2 = c2
    c3 = c3
    Conns <- MCConns
    NoConn = NoConn
    NoReq = NoReq
    MaxQueue = 3
    MaxResets = 1
SPECIFICATION Spec
SYMMETRY ConnSymmetry
INVARIANT ShiftReleased
