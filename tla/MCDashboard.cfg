SPECIFICATION Spec
CONSTANTS
    BASE = BASE
    n2 = n2
    n3 = n3
    Sources <- MCSources
    SimOrder <- MCSimOrder
    FarNode = n3
    RelayNode = n2
    Origins = {r1}
    Relays = {n2}
    SimInterval = 1
    StaleAfter = 1
    DownAfter = 2
    LinkKept = 4
    LockWait = 1
    MaxSeq = 4
    MaxHeard <- MCMaxHeard
    Wrap <- MCWrap
INVARIANTS JamTakesHold LossHonest LinksReachBase
CHECK_DEADLOCK FALSE
PROPERTIES JamShows
