SPECIFICATION Spec
CONSTANTS
    U64Max = 99
    Callers = {c1, c2}
    HourlyLimit = 2
    DailyLimit = 3
    HourLen = 2
    DayLen = 4
    Uses <- MCUses
    WallHorizon = 5
    Hours <- MCHours
    Days <- MCDays
    NoBudget = NoBudget
INVARIANTS TypeOK BudgetHeld RetryAfterSuffices
