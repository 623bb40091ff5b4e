SPECIFICATION Spec
CONSTANTS
    Streams = {c1, c2}
    Sessions = {s1, s2}
    Sizes = {small}
    MaxSequence = 1
    Awaited = {1}
    None = None
SYMMETRY Interchangeable
INVARIANT RehydrateIsExact
CHECK_DEADLOCK FALSE
