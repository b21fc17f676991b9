SPECIFICATION Spec
CONSTANTS
    Threads = {t1, t2}
    Bodies = {b1, b2}
    DefaultBody = b1
    InitFiles <- MCInitFiles
    Absent = Absent
    Corrupt = Corrupt
    NoThread = NoThread
    MaxVersion = 4
INVARIANTS
    TypeOK
    MemoryMatchesFile
    NeverCorrupt
    AckedSurvives
PROPERTY
    ImplementsAtomicStore
