CONSTANTS
    b1 = b1
    b2 = b2
    n1 = n1
    n2 = n2
    Backups <- TwoBackups
    Names <- TwoNames
    Written = 1
    Absent = absent
    Empty = empty
    Bare = bare
    Torn = torn
SPECIFICATION BackupSpec
SYMMETRY Symmetry
CONSTRAINT Bounded
CHECK_DEADLOCK FALSE
INVARIANTS
    DataKept
    RestoresSnapshot
    SnapshotWhole
