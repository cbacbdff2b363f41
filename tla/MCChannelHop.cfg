SPECIFICATION Spec
CONSTANTS
    n1 = n1
    gw = gw
    Nodes = {n1, gw}
    Gateways = {gw}
    Skew <- MCSkew
    HopChannels <- MCChannels
    SlotMs = 29
    EpochMs = 3
    SettleMs = 1
    GuardMs = 14
    RxTimeoutMs = 1
    PostMs = 1
    WorkMs = 1
    MaxClock = 70
INVARIANTS OnScheduleInTime
PROPERTIES Rendezvous SyncSoonTrue
CHECK_DEADLOCK FALSE
