CONSTANTS
    k1 = k1
    k2 = k2
    p1 = p1
    p2 = p2
    w1 = w1
    Jobs = {z1, z2, z3}
    ZipJobs = {z1, z2, z3}
    Keys = {k1, k2}
    KeyOf <- KeyByKind
    Slots = {w1}
    Procs = {p1}
    ProcOf <- OneProcess
    NoSlot = NoSlot
    NoJob = NoJob
    MaxAttempts = 2
    SpoolBudget = 1
    Threads = 2
    MaxSubmissions = 3
    MaxDisturbances = 1
SPECIFICATION Spec
INVARIANTS
    OneLiveJobPerKey
    SpoolOverrunIsBounded
PROPERTIES
    TerminalIsFinal
