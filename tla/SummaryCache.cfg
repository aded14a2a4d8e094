SPECIFICATION Spec
CONSTANTS
    Readers = {r1, r2}
    Dbs = {d1}
    NoDb = NoDb
    NoEntry = NoEntry
    NoValue = NoValue
    MaxCommits = 2
    MaxEpoch = 4
    MaxSlots = 2
INVARIANT TypeOK
INVARIANT TrustedIsCurrent
INVARIANT ReadsOwnWrites
INVARIANT DeletedNotServed
PROPERTY Linearizable
SYMMETRY ReaderSymmetry
