CONSTANTS
    t1 = t1
    o1 = o1
    o2 = o2
    j1 = j1
    j2 = j2
    Ids <- OneId
    Objects <- TwoObjects
    Jobs <- TwoJobs
    Main = main
    None = none
    MaxVersion = 2
SPECIFICATION Spec
SYMMETRY JobSymmetry
CHECK_DEADLOCK FALSE
INVARIANTS
    OneLiveObject
    CallsDoNotPanic
    CountCoversMap
    LoadedIsFresh
