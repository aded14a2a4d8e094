SPECIFICATION FairSpec
CONSTANTS
    Notes = {n1, n2}
    MaxRounds = 3
    MaxTurns = 2
    MaxFaults = 2
INVARIANT TypeOK
INVARIANT SettledLocksMatch
PROPERTY EndedRunUnlocks
PROPERTY ActiveRunLocks
CHECK_DEADLOCK FALSE
