SPECIFICATION Spec
CONSTANTS
    Parts = {p1}
    NoPart = NoPart
    Signers = {"Software"}
    MaxGen = 1
    MaxSetbacks = 0
    Redrawn = {}
PROPERTY StopDropsNoLiveTransfer
CHECK_DEADLOCK FALSE
