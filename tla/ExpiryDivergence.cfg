SPECIFICATION Spec
CONSTANTS
    Software = {}
    Keystone = {k1}
    Ledger = {}
    Outputs = {n1}
    Migratable = {}
    LockBlocks = 2
    MaxHeight = 3
    Rivals = {{k1}}
    NoOwner = NoOwner
    Migration = Migration
    LegacyOwners = {k1}
    StorageFaults = FALSE
PROPERTY RetainedUntilExpiryPassed
