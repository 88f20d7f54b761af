SPECIFICATION Spec
CONSTANTS
    Callers = {u}
    Controllers = {u}
    Convos = {d, g}
    Groups = {g}
    Named = {g}
    Nicknames = {nick}
    Names = {}
    None = None
    LoadedPerChat = 1
    CanCrash = FALSE
    MaxMsgs = 1
    MaxSessions = 1
    MaxQueue = 1
    MaxFaults = 1
INVARIANT
    SentKept
CHECK_DEADLOCK FALSE
