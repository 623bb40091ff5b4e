SPECIFICATION FairSpec
CONSTANTS
    Calls = {a, b}
    MaxEnds = 1
    MaxChanges = 1
    None = None
INVARIANTS
    TypeOK
    StreamHasOneHolder
    LeftBehind
    RecordIsNewest
    ModesAreRestored
PROPERTIES
    CallsEnd
CHECK_DEADLOCK FALSE
