SPECIFICATION Spec
CONSTANTS
    Streams = {c1, c2}
    Sessions = {s1, s2}
    Sizes = {small}
    MaxSequence = 2
    Awaited = {1}
    None = None
SYMMETRY Interchangeable
INVARIANTS
    TypeOK
    SerialHandoffIsExact
    OnlyStraysSpoil
    ReplacementIsExact
    EntryIsServed
    NewestKeepsEntry
CHECK_DEADLOCK FALSE
