CONSTANTS
    k1 = k1
    k2 = k2
    p1 = p1
    p2 = p2
    w1 = w1
    Jobs = {z1, u1}
    ZipJobs = {z1}
    Keys = {k1, k2}
    KeyOf <- KeyByKind
    Slots = {w1, w2}
    Procs = {p1, p2}
    ProcOf <- TwoProcesses
    NoSlot = NoSlot
    NoJob = NoJob
    MaxAttempts = 2
    SpoolBudget = 1
    Threads = 1
    MaxSubmissions = 1
    MaxDisturbances = 2
SPECIFICATION FairSpec
PROPERTIES
    ZombieWritesNothing
    IsLeaseQueue
    JobsSettle
    DrainCompletes
    ArchivesReclaimed
INVARIANTS
    TypeOK
    LeaseIsExact
    AttemptsAccounted
    PayloadPresent
