CONSTANTS
    LeaseTTL = 30
    Heartbeat = 10
    ReapInterval = 6
    MaxLatency = 10
    MaxLost = 1
    MaxPass = 3
    MaxFailed = 2
SPECIFICATION Spec
INVARIANTS
    HeartbeatKeepsLease
    RecoveryIsBounded
CHECK_DEADLOCK FALSE
