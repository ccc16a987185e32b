--------------------------- MODULE MCRateLimiter ---------------------------
\* Small instances of RateLimiter.
EXTENDS RateLimiter, TLC

CONSTANTS p1, p2, t1, t2, i1, i2

OneProcess == {p1}
TwoProcesses == {p1, p2}
TwoThreads == {t1, t2}
TwoIds == {i1, i2}
OneId == {i1}
SameProcess == [t \in Threads |-> p1]
\* Threads of a process and identifiers are interchangeable.
LimiterSymmetry == Permutations(Threads) \cup Permutations(Ids)
=============================================================================
