CONSTANTS
    k1 = k1
    k2 = k2
    p1 = p1
    p2 = p2
    w1 = w1
    Jobs = {z1}
    ZipJobs = {z1}
    Keys = {k1}
    KeyOf <- KeyByKind
    Slots = {w1}
    Procs = {p1}
    ProcOf <- OneProcess
    NoSlot = NoSlot
    NoJob = NoJob
    MaxAttempts = 2
    SpoolBudget = 1
    Threads = 1
    MaxSubmissions = 1
    MaxDisturbances = 1
SPECIFICATION Spec
INVARIANT
    LiveIsNeverSwept
