------------------------------ MODULE MCClient ------------------------------
\* Small instances of Client.
EXTENDS Client, FiniteSets, TLC

CONSTANTS c1, c2, k1, k2, k3, u1, u2

TwoChats == {c1, c2}
ThreeClicks == {k1, k2, k3}
TwoUsers == {u1, u2}
ClientSymmetry == Permutations(Chats) \cup Permutations(Clicks) \cup Permutations(Users)

\* Bound: four of the two chats, three clicks and two logins, or one chat and
\* two clicks over all logins.
FewOfEach ==
    LET chats  == Cardinality({c \in Chats : chat[c].at # "none"})
        clicks == Cardinality({k \in Clicks : click[k].at # "idle"})
    IN  chats + clicks + logins <= 4 \/ (chats <= 1 /\ clicks <= 2)
=============================================================================
