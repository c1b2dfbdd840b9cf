SPECIFICATION Spec
CONSTANTS
    run1 = run1
    run2 = run2
    run3 = run3
    pack = pack
    Runs <- MCTwoRuns
    Packs <- MCPacks
    PackOf <- MCPackOf
    Genesis = Genesis
    Absent = Absent
    Repairs = TRUE
    MaxFails = 2
    MaxReruns = 2
    MaxMishaps = 1
INVARIANTS TypeOK ServedComplete AbsentMeansUntouched NoSelfConflict OwnRerunAccepted GroupMoves
PROPERTIES ImplementsPointer HashedImmutable MirrorFollows
SYMMETRY MCSymmetry
