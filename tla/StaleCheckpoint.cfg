SPECIFICATION Spec
CONSTANTS
    Software = {}
    Keystone = {}
    Ledger = {l1}
    Outputs = {n1}
    Migratable = {}
    LockBlocks = 2
    MaxHeight = 3
    Rivals = {{l1}}
    NoOwner = NoOwner
    Migration = Migration
    LegacyOwners = {}
    StorageFaults = TRUE
PROPERTY StalePcztCannotResurrect
