CONSTANTS
    p1 = p1
    p2 = p2
    x = x
    Plugins <- TwoPlugins
    Calls <- OneCall
    Stopper = Stopper
    Settings = {"factory", "changed"}
    Initially = "factory"
    h1 = h1
    h2 = h2
    h3 = h3
    s1 = s1
    s2 = s2
    Handlers <- ThreeHandlers
    Schedules <- TwoSchedules
    MaxEntries = 4
    t1 = t1
    t2 = t2
    i1 = i1
    i2 = i2
    Timers <- TwoTimers
    Intervals <- TwoIntervals
    None = none
    MaxDrift = 1
SPECIFICATION MCSpec
CHECK_DEADLOCK FALSE
INVARIANTS
    PanicNeedsTwoUnloads
    WaitGroupCovers
    LoadedIsStarted
    TypeOK
    TableMatchesScheduler
    UnsubscribedIsSilent
    NoPhantomJob
PROPERTY
    ShutdownReturns
    TimeoutRuns
