SPECIFICATION Spec
CONSTANTS
    Parts = {p1}
    NoPart = NoPart
    Signers = {"Keystone"}
    MaxGen = 1
    MaxSetbacks = 0
    Redrawn = {}
INVARIANT RetirementRecorded
CHECK_DEADLOCK FALSE
