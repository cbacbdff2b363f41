SPECIFICATION Spec
CONSTANTS
    MaxSubmitted = 3
    SocketLimit = 2
    Count = 1
    TxInterval = 1
    C2Interval = 1
    SyncInterval = 2
    SlotMs = 4
    SettleMs = 1
    GuardMs = 1
    TurnMs = 2
INVARIANTS LocalAccounted
CHECK_DEADLOCK FALSE
PROPERTIES LocalSettled SyncGoesOn
