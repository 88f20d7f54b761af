SPECIFICATION Spec
CONSTANTS
    Hashes = {h1, h2, h3, h4, h5, other}
    ChatHashes = {h1, h2, h3, h4, h5}
    Capacity = 3
    MaxForwarded = 8
INVARIANTS
    TypeOK
    HashesAreOrder
    ForwardWindow
    NothingLost
CHECK_DEADLOCK FALSE
