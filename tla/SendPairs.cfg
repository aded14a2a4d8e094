SPECIFICATION Spec
CONSTANTS
    Software = {s1}
    Keystone = {k1}
    Ledger = {l1}
    Outputs = {n1}
    Migratable = {n1}
    LockBlocks = 2
    MaxHeight = 2
    Rivals = {{s1, k1}, {s1, l1}}
    NoOwner = NoOwner
    Migration = Migration
    LegacyOwners = {k1}
    StorageFaults = FALSE
INVARIANT Inductive
INVARIANT NoConflictingBroadcast
INVARIANT PendingOperationReserved
INVARIANT AmbiguousBroadcastHolds
INVARIANT NoOrphanAfterStartup
PROPERTY OnlyMigrationUnlocks
PROPERTY TransactionBuiltOnce
