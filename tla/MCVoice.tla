------------------------------- MODULE MCVoice -------------------------------
\* Small instances of Voice.
EXTENDS Voice, TLC

CONSTANTS r1, r2, u1, u2

TwoRequests == {r1, r2}
TwoUsers == {u1, u2}
OwnerOfAll == [r \in Requests |-> u1]
TwoTiers == <<"elevenlabs", "gtts">>

\* Bound: a request that has not begun when the process restarts does not begin
\* any more; it would find the circuits, the workers and its path as at first.
BeginsBeforeRestart == restarts = 0 \/ \A r \in Requests : voice[r].at \in {"idle", "done"}
=============================================================================
