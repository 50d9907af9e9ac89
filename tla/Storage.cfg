CONSTANTS
    k1 = k1
    v1 = v1
    v2 = v2
    a = a
    serializeCall = serializeCall
    Keys <- MCKeys
    Values <- MCValues
    Clients <- OneClient
    Callers <- OneCaller
    Ticker = ticker
    Closer = closer
    None = none
SPECIFICATION FairSpec
INVARIANTS
    TypeOK
    UncontendedPushHeld
    CleanMeansPersisted
PROPERTY
    PushArchived
