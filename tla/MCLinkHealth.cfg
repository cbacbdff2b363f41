SPECIFICATION LinkFairSpec
CONSTANTS
    me = me
    p1 = p1
    p2 = p2
    SenderId = me
    Senders = {me, p1, p2}
    PeerTimeout = 3
    DegradedAfter = 2
    IsolatedAfter = 3
    MoveAfter = 4
    RtbAfter = 5
    RecoveryHold = 2
    Horizon = 6
INVARIANTS
    LinkIndInv
PROPERTIES
    RecoveryHeld
    SilenceEndsInRtb
    SteadyLinkEndsNominal
