CONSTANTS
    t1 = t1
    o1 = o1
    o2 = o2
    j1 = j1
    j2 = j2
    Ids <- OneId
    Main = main
    None = none
    MaxVersion = 2
    MaxCounter = 2
    Objects <- TwoObjects
    Jobs <- TwoJobs
SPECIFICATION Spec
SYMMETRY JobSymmetry
INVARIANTS
    CounterCoversMap
    OneLiveTrigger
    InSync
