SPECIFICATION FairSpec
CONSTANTS
    Forks = {A, B}
    Common = Common
    None = None
    ForkPoint = 0
    MaxHeight = 2
    BatchSize = 2
    RewindDistance = 2
    TreeRewinds <- MCTreeRewinds
    MaxRewinds = 1
    MaxRetries = 1
    MaxWitness = 1
    AnchorRewinds <- MCAnchorRewinds
    AnchorPasses = 1
    AnchorDepth = 0
INVARIANT TypeOK
INVARIANT StatusOneFork
INVARIANT NoHeightLost
PROPERTY RunAdvances
PROPERTY Terminates
PROPERTY Converges
CHECK_DEADLOCK FALSE
