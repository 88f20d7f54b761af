SPECIFICATION Spec
CONSTANTS
    Presets = {test}
    Foreign = foreign
    Statuses = {"Connected", "Disconnected"}
    Topics = {chat}
    OwnTopics = {}
    NoPreset = NoPreset
    Cuttable = {}
    AnswersLost = FALSE
    MaxSessions = 1
    MaxBoots = 1
    MaxEvents = 1
    MaxStarts = 0
INVARIANT
    ConnectivityTracked
CHECK_DEADLOCK FALSE
