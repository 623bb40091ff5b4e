SPECIFICATION Spec
CONSTANTS
    Scenes = {a, b}
    Grids = {small, large}
    Slots = {r1, r2, r3}
    MaxOutputs = 2
    MaxCommands = 1
    None = None
SYMMETRY Interchangeable
INVARIANTS
    TypeOK
    FreeIsReturned
    LastFrameIsTheScene
    RestsAfterEvents
    GridMovesOnlyInTheGap
CHECK_DEADLOCK FALSE
