SPECIFICATION Spec
CONSTANTS
    Callers = {u, v}
    Controllers = {u, v}
    Convos = {d, g}
    Groups = {g}
    Named = {g}
    Nicknames = {nick}
    Names = {}
    None = None
    LoadedPerChat = 1
    CanCrash = FALSE
    MaxMsgs = 1
    MaxSessions = 2
    MaxQueue = 1
    MaxFaults = 0
INVARIANT
    InitialisedOpen
CHECK_DEADLOCK FALSE
