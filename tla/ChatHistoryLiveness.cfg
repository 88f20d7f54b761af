SPECIFICATION LiveSpec
CONSTANTS
    Callers = {u, v}
    Controllers = {u}
    Convos = {d, g}
    Groups = {g}
    Named = {g}
    Nicknames = {nick}
    Names = {}
    None = None
    LoadedPerChat = 1
    CanCrash = FALSE
    MaxMsgs = 1
    MaxSessions = 1
    MaxQueue = 2
    MaxFaults = 0
PROPERTIES
    ShutdownTerminates
    EventsRecorded
CHECK_DEADLOCK FALSE
