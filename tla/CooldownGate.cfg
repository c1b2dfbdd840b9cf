SPECIFICATION Spec
CONSTANTS
    U64Max = 99
    Callers = {c1, c2}
    Delays <- MCDelays
    Deadlines <- MCDeadlines
    Horizon = 6
    LastDefer = 2
    NoCooldown = NoCooldown
INVARIANTS TypeOK DeferTakesEffect WaitedOut
PROPERTIES NeverShortened CallReturns
