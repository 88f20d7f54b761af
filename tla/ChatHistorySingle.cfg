SPECIFICATION Spec
CONSTANTS
    Callers = {u}
    Controllers = {u}
    Convos = {d, g}
    Groups = {g}
    Named = {g}
    Nicknames = {nick}
    Names = {nm}
    None = None
    LoadedPerChat = 1
    CanCrash = TRUE
    MaxMsgs = 2
    MaxSessions = 2
    MaxQueue = 2
    MaxFaults = 1
INVARIANTS
    TypeOK
    Tombstoned
    SurfacedKept
    LiveIsHeld
    NameKept
PROPERTY
    ImplementsArchive
CHECK_DEADLOCK FALSE
