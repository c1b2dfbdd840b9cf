SPECIFICATION Spec
CONSTANTS
    U64Max = 99
    Callers = {c1, c2}
    Limit = 3
    WindowMs = 2
    Uses <- MCUses
    WallHorizon = 5
    Buckets <- MCBuckets
    NoQuota = NoQuota
INVARIANTS TypeOK QuotaHeld RetryAfterExact
PROPERTY ReserveReturns
