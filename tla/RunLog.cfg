SPECIFICATION LiveSpec
CONSTANTS
    Threads = {t1, t2}
    None = None
    Absent = Absent
    RotateAfter = 2
    KeepRuns = 2
    ThreeDigits = 1
    MaxWeight = 2
    ClockBack = FALSE
    MaxStamp = 4
    MaxRuns = 4
    MaxRecords = 2
    MaxFaults = 1
INVARIANTS
    TypeOK
    RecentRunsReadBack
    RunsBounded
    FilesBounded
PROPERTY
    PanicEnds
CHECK_DEADLOCK FALSE
