CONSTANTS
    c1 = c1
    c2 = c2
    c3 = c3
    Connections <- ThreeConnections
    PoolIdleSize = 1
    PoolMaxSize = 3
    Tokens <- AnyToken
    MaxCalls = 1
SPECIFICATION FairSpec
CHECK_DEADLOCK FALSE
INVARIANTS
    TypeOK
    BelowMax
PROPERTY
    PoolRecovers
