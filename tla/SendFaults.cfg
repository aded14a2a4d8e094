SPECIFICATION LiveSpec
CONSTANTS
    Software = {}
    Keystone = {}
    Ledger = {l1}
    Outputs = {n1, n2}
    Migratable = {}
    LockBlocks = 2
    MaxHeight = 3
    Rivals = {{l1}}
    NoOwner = NoOwner
    Migration = Migration
    LegacyOwners = {}
    StorageFaults = TRUE
INVARIANT LocksAreRecoverable
INVARIANT TypeOK
PROPERTY GateStopsPromotion
PROPERTY OrphanReleased
PROPERTY ExpiredReservationReclaimed
