CONSTANTS
    c1 = c1
    c2 = c2
    c3 = c3
    q1 = q1
    q2 = q2
    s1 = s1
    Connections <- ThreeConnections
    Http <- OneRequest
    Sessions <- NoSession
    Size = 1
    ServerStops = TRUE
    Janitor = Janitor
    Event = Event
    ErrorBody = ErrorBody
    None = None
SPECIFICATION Spec
SYMMETRY Symmetry
CHECK_DEADLOCK FALSE
INVARIANT
    CleanSparesBusy
