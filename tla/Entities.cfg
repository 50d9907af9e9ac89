CONSTANTS
    a1 = a1
    a2 = a2
    a3 = a3
    j1 = j1
    j2 = j2
    None = None
    Nothing = nothing
    Actors <- ThreeActors
    Jobs <- TwoJobs
    MaxVersion = 2
    MaxPending = 2
    t1 = t1
    t2 = t2
    t3 = t3
    c1 = c1
    c2 = c2
    i1 = i1
    i2 = i2
    Tabs <- ThreeTabs
    Cards <- TwoCards
    Items <- TwoItems
    Calls <- ThreeActors
    Shown <- TwoTabs
    CardsShown <- OneCard
    ItemsShown <- OneItem
SPECIFICATION MCSpec
SYMMETRY Symmetry
CHECK_DEADLOCK FALSE
INVARIANTS
    TypeOK
    KeepsLoaded
    DeadIsLeaving
    LoadedIsFresh
    WatchedIfLoaded
    OneSelection
    ShowsCards
    ShowsItems
