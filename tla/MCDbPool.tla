------------------------------- MODULE MCDbPool -------------------------------
EXTENDS DbPool
CONSTANTS a1, a2
TwoThreads == {a1, a2}
ThreeConnections == 1 .. 3
=============================================================================
