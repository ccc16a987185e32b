CONSTANTS
    c1 = c1
    c2 = c2
    c3 = c3
    n1 = n1
    n2 = n2
    n3 = n3
    Calls <- ThreeCalls
    Connections <- ThreeConnections
    MinConn = 2
    MaxConn = 2
SPECIFICATION Spec
CHECK_DEADLOCK FALSE
SYMMETRY PoolSymmetry
INVARIANT PoolIsStable
