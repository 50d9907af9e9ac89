CONSTANTS
    c1 = c1
    c2 = c2
    c3 = c3
    q1 = q1
    q2 = q2
    s1 = s1
    Connections <- OneConnection
    Http <- TwoRequests
    Sessions <- OneSession
    Size = 1
    ServerStops = FALSE
    Janitor = Janitor
    Event = Event
    ErrorBody = ErrorBody
    None = None
SPECIFICATION FairSpec
CHECK_DEADLOCK FALSE
INVARIANTS
    TypeOK
    OneUser
    RightAnswer
PROPERTIES
    ImplementsLease
    ClosedLeaves
