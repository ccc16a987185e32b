-------------------------- MODULE MCConnectionPool --------------------------
\* Small instances of ConnectionPool.
EXTENDS ConnectionPool, TLC

CONSTANTS c1, c2, c3, n1, n2, n3

ThreeCalls == {c1, c2, c3}
ThreeConnections == {n1, n2, n3}
PoolSymmetry == Permutations(Calls) \cup Permutations(Connections)
=============================================================================
