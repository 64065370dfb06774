-------------------------- MODULE MCEventDispatch --------------------------
EXTENDS EventDispatch

CONSTANTS w1, k1, t1

MCWins == {w1}
MCCurWins == {k1}
MCTexts == {t1}
=============================================================================
