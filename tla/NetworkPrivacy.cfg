SPECIFICATION FairSpec
CONSTANTS
    MaxToggles = 2
    Requests = {r1, r2}
INVARIANT TypeOK
INVARIANT DirectCutOff
INVARIANT NoMissedDrain
INVARIANT NoOrphanClient
INVARIANT DormancyFollowsIntent
INVARIANT UnrefusedRouteSettles
PROPERTY EnableConcludes
