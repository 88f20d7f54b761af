SPECIFICATION Spec
CONSTANTS
    Threads = {t1}
    None = None
    Absent = Absent
    RotateAfter = 2
    KeepRuns = 2
    ThreeDigits = 2
    MaxWeight = 2
    ClockBack = FALSE
    MaxStamp = 4
    MaxRuns = 1
    MaxRecords = 3
    MaxFaults = 1
INVARIANT
    AnnouncedIsWritten
CHECK_DEADLOCK FALSE
