\* Two generations, two sequences, three threads of two processes, one crash.
SPECIFICATION Spec
CONSTANTS
    Generations = {g1, g2}
    Sequences = {1, 2}
    NoOwner = NoOwner
    Absent = Absent
    t1 = t1
    t2 = t2
    t3 = t3
    p1 = p1
    p2 = p2
    Threads <- MCThreads
    Processes <- MCProcesses
    ProcessOf <- MCProcessOf
    MaxCrashes = 1
    NoThread = NoThread
    TornOwner = TornOwner
    TornFile = TornFile
    NoCall = NoCall
INVARIANTS
    TypeOK
    AcknowledgedIsReadable
PROPERTIES
    GrantExcludesOthers
    ImplementsArchive
