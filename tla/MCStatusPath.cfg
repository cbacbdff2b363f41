SPECIFICATION Spec
CONSTANTS
    MaxU32 = 3
    Sender = 1
    Logical <- MCLogical
    Mesh = TRUE
    Ttl = 1
    Relays <- MCRelays
    Base = 1000
    Key <- KeyAt3
    NoKey = "none"
    Hears <- MCHears
    Stranger = 1001
    Transmitter = 1002
    ForeignFrames <- MCForeign
    SeenLimit = 2
    ReplayLimit = 2
    BeatSize = 200
    MaxPayload = 4013
    RxLimit = 2
    MaxForeign = 1
    MaxRestarts = 1
INVARIANTS
    RelaysSurvive
    
    OutageBounded

    
