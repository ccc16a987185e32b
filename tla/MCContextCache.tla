--------------------------- MODULE MCContextCache ---------------------------
\* Small instances of ContextCache.
EXTENDS ContextCache, TLC

CONSTANTS t1, t2, t3, c1, k1

OneClear == {c1}
NoClear == {}
TwoTurns == {t1, t2}
ThreeTurns == {t1, t2, t3}
OneKey == {k1}

\* One operation at a time: what a single client does that waits for answers.
OneAtATime == \A p, q \in Ops : InFlight(p) /\ InFlight(q) => p = q
SerialSpec == Init /\ [][Next /\ OneAtATime']_vars

TurnSymmetry == Permutations(Turns)
=============================================================================
