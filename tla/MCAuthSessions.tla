--------------------------- MODULE MCAuthSessions ---------------------------
\* Small instances of AuthSessions.
EXTENDS AuthSessions

CONSTANTS l1, l2, r1, r2, r3

OneLogin == {l1}
TwoRequests == {r1, r2}
ThreeRequests == {r1, r2, r3}

=============================================================================
