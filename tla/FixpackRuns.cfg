CONSTANTS
    a1 = a1
    Charges = {c1, c2}
    Audits = {c1, c2}
    AuditOf <- OwnAudit
    InvoiceCharges = {c1}
    LockedCharges = {}
    Confirmers = {k1}
    Runs = {r1, r2}
    NoCharge = NoCharge
    NoRun = NoRun
    MaxAttempts = 2
    LockMayDrop = FALSE
    LostAcks = FALSE
    MaxSales = 1
    MaxDisturbances = 3
SPECIFICATION FairSpec
INVARIANTS
    OneRunPerJob
    AttemptsAccounted
    OnePRPerJob
PROPERTIES
    KeepsTheOrder
    PaidJobsEnd
