SPECIFICATION Spec
CONSTANTS
    g1 = g1
    g2 = g2
    Generations = {g1, g2}
    Sequences = {0, 1, 2}
    NoOwner = NoOwner
    Absent = Absent
    LastOutput <- MCLastOutput
    MaxFailures = 1
    None = None
INVARIANTS
    TypeOK
    ArchiveIsItsLabel
    EndIsArchived
