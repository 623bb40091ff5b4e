SPECIFICATION Spec
CONSTANTS
    Surfaces = {s1, s2}
    Closes = {c1, c2}
    Slots = {r1, r2}
    MaxFrames = 3
    None = None
SYMMETRY Interchangeable
INVARIANTS
    TypeOK
    SerialCallsAgree
    NoneRunsBeside
    OneLateFrame
CHECK_DEADLOCK FALSE
