SPECIFICATION LiveSpec
CONSTANTS
    Presets = {test}
    Foreign = foreign
    Statuses = {"Disconnected"}
    Topics = {account}
    OwnTopics = {account}
    NoPreset = NoPreset
    Cuttable = {"messageReceived"}
    AnswersLost = TRUE
    MaxSessions = 1
    MaxBoots = 2
    MaxEvents = 1
    MaxStarts = 1
PROPERTIES
    Settles
    TopicsForwarded
    ShutdownEnds
CHECK_DEADLOCK FALSE
