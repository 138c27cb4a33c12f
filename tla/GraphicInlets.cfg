SPECIFICATION Spec

CONSTANTS
    Clients = {c1, c2}
    NoClient = none
    Modulus = 6
    TooMany = 1
    Fragments = 3
    Window = 1
    Idle = 1

INVARIANTS
    FramesWhole
    BuffersReturned
    OwnConfig
PROPERTY OrderIsShown
