SPECIFICATION Spec
CONSTANTS
    Callers = {u, v}
    Controllers = {u}
    Convos = {d, g}
    Groups = {g}
    Named = {g}
    Nicknames = {nick}
    Names = {}
    None = None
    LoadedPerChat = 1
    CanCrash = FALSE
    MaxMsgs = 2
    MaxSessions = 2
    MaxQueue = 2
    MaxFaults = 0
INVARIANTS
    KindAgrees
    DiskMatchesMemory
    HeldIsListed
PROPERTY
    AppendOnly
CHECK_DEADLOCK FALSE
