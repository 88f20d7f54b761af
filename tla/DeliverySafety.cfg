SPECIFICATION Spec
CONSTANTS
    Presets = {test, dev}
    Foreign = foreign
    Statuses = {"Connected", "Disconnected"}
    Topics = {chat}
    OwnTopics = {}
    NoPreset = NoPreset
    Cuttable = {"connectionStateChanged"}
    AnswersLost = FALSE
    MaxSessions = 2
    MaxBoots = 2
    MaxEvents = 1
    MaxStarts = 1
SYMMETRY PresetSymmetry
INVARIANTS
    TypeOK
    OnlineMeansRunning
    TopicsNotLost
    AdoptedHonest
    OutcomeTold
    NotUpWhenDown
    NeverStranded
CHECK_DEADLOCK FALSE
