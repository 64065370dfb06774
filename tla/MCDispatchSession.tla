------------------------- MODULE MCDispatchSession -------------------------
EXTENDS DispatchSession, TLC

CONSTANTS c1, c2, c3

MCConns == {c1, c2, c3}

\* Connections are interchangeable model values (safety runs only).
ConnSymmetry == Permutations(MCConns)
=============================================================================
