SPECIFICATION Spec
CONSTANTS
    U64Max = 99
    Callers = {c1, c2}
    Deadlines <- MCDeadlines
    PreRequestDelay = 2
    RetryDefaultDelay = 2
    RetryMaxDelay = 2
    RetryTotalBudget = 2
    RetryMaxAttempts = 3
    HourlyLimit = 2
    DailyLimit = 3
    HourLen = 3
    DayLen = 6
    Hours <- MCHours
    Days <- MCDays
    Responses <- MCResponses
    NoDelay = NoDelay
    NoStamp = NoStamp
    NoCooldown = NoCooldown
    NoBudget = NoBudget
    Horizon = 4
PROPERTY NoSendInCooldown
