CONSTANTS
    c1 = c1
    c2 = c2
    k1 = k1
    k2 = k2
    k3 = k3
    u1 = u1
    u2 = u2
    None = None
    Chats <- TwoChats
    Clicks <- ThreeClicks
    Users <- TwoUsers
    MaxLogins = 2
SPECIFICATION Spec
CHECK_DEADLOCK FALSE
CONSTRAINT FewOfEach
SYMMETRY ClientSymmetry
INVARIANTS
    ClearedIsGone
    ShownIsStored
    OneVoice
    FlagsAreHeld
