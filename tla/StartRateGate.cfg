SPECIFICATION Spec
CONSTANTS
    U64Max = 99
    Callers = {c1, c2}
    Starts = 2
    IntervalMs = 5
    Deadlines <- MCDeadlines
    Horizon = 9
    NoStamp = NoStamp
INVARIANTS TypeOK Spacing RateHonoured
PROPERTY AcquireReturns
