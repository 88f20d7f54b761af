SPECIFICATION Spec
CONSTANTS
    Callers = {u}
    Controllers = {u}
    Convos = {d, g}
    Groups = {g}
    Named = {g}
    Nicknames = {nick}
    Names = {}
    None = None
    LoadedPerChat = 1
    CanCrash = FALSE
    MaxMsgs = 1
    MaxSessions = 2
    MaxQueue = 2
    MaxFaults = 0
INVARIANT
    NamesShared
CHECK_DEADLOCK FALSE
