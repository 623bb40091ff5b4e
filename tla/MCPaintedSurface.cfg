SPECIFICATION Spec
CONSTANTS
    None = None
    Rows = 2
    Cols = 3
    PageSize = 3
    Glyphs <- MCGlyphs
    Size <- MCSize
    Written <- MCWritten
    Compositions <- MCCompositions
    Styles <- MCStyles
    Bases = {"light", "dark"}
    Overs <- MCOvers
    Dims <- MCDims
    Spots <- MCSpots
    Strokes <- MCStrokes
    Points <- MCPoints
    Clients = {c1}
    Slots = {s1}
    MaxHistory = 1
    MaxEvents = 3
INVARIANTS
    TypeOK
    StaleOnlyByCollision
    ScrolledLinesExist
    SelectionIsTheOwners
    AtlasIsPacked
CHECK_DEADLOCK FALSE
