SPECIFICATION Spec
CONSTANTS
    Parts = {p1, p2}
    NoPart = NoPart
    Signers = {"Software", "Keystone"}
    MaxGen = 2
    MaxSetbacks = 1
    Redrawn = {"Software"}
INVARIANT TypeOK
INVARIANT CompletedMeansMigrated
INVARIANT NoPartStranded
INVARIANT SoftwareRetirementRecorded
PROPERTY StopDropsNoScheduledTransfer
PROPERTY StopUndoneOnlyByStaleRedraw
SYMMETRY PartSymmetry
CHECK_DEADLOCK FALSE
