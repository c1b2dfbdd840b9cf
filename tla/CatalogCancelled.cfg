SPECIFICATION Spec
CONSTANTS
    run1 = run1
    run2 = run2
    run3 = run3
    pack = pack
    Runs <- MCThreeRuns
    Packs <- MCPacks
    PackOf <- MCPackOf
    Genesis = Genesis
    Absent = Absent
    Repairs = FALSE
    MaxFails = 1
    MaxReruns = 1
    MaxMishaps = 0
INVARIANT CancelledIsFresh
