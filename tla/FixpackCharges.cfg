CONSTANTS
    a1 = a1
    Charges = {c1, c2}
    Audits = {a1}
    AuditOf <- OneAudit
    InvoiceCharges = {c1, c2}
    LockedCharges = {c1, c2}
    Confirmers = {k1, k2}
    Runs = {r1}
    NoCharge = NoCharge
    NoRun = NoRun
    MaxAttempts = 2
    LockMayDrop = TRUE
    LostAcks = TRUE
    MaxSales = 2
    MaxDisturbances = 1
SPECIFICATION Spec
SYMMETRY HandlerSymmetry
INVARIANTS
    CompletedIsBacked
    FundedLink
