SPECIFICATION Spec
CONSTANTS
    r1 = r1
    r2 = r2
    Sizes = {1, 2}
    ParamBound = 1
    None = None
    Subscribers = {viewer, surface}
    Requests = {r1, r2}
    Offsets = {0, 1}
    Chunks <- MCChunks
    MaxSubscribers = 1
    MaxFed = 3
    MaxAsked = 3
SYMMETRY Interchangeable
INVARIANTS
    TypeOK
    HeldIsOnlyDelay
    RehydrateRestores
PROPERTY PictureIsTheFrame
CHECK_DEADLOCK FALSE
