CONSTANTS
    a1 = a1
    Charges = {c1, c2}
    Audits = {a1}
    AuditOf <- OneAudit
    InvoiceCharges = {c1, c2}
    LockedCharges = {}
    Confirmers = {k1, k2}
    Runs = {r1}
    NoCharge = NoCharge
    NoRun = NoRun
    MaxAttempts = 1
    LockMayDrop = FALSE
    LostAcks = FALSE
    MaxSales = 2
    MaxDisturbances = 0
SPECIFICATION Spec
INVARIANT
    FundedLink
