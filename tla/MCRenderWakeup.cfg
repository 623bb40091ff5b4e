SPECIFICATION Spec
CONSTANTS
    Scenes = {a, b}
    Grids = {small, large}
    Slots = {r1, r2, r3}
    MaxOutputs = 1
    MaxCommands = 1
    None = None
SYMMETRY Interchangeable
INVARIANT AwakeForWork
CHECK_DEADLOCK FALSE
