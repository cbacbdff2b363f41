SPECIFICATION Spec
CONSTANTS
    n1 = n1
    n2 = n2
    n3 = n3
    n4 = n4
    k1 = k1
    k2 = k2
    NoKey = NoKey
    Broadcast = Broadcast
    Nodes = {n1, n2, n3}
    CryptoKeys = {k1, k2}
    Ttl <- TtlOneToThree
    MeshKey <- KeylessN2
    E2EKey <- E2EFromN1
    InboundKeys <- RingOfN3
    Links <- Echo
    Traffic <- MixedTraffic
    Dist <- EchoDist
    SeenLimit = 1
    ReplayLimit = 2
    MaxSeq = 3
    InitialSeqs = {3}
    Lossy = TRUE
    RxLimit = 2
    MaxRoutes = 3
    MaxRestarts = 1
INVARIANTS
    HandledOncePerWindow
    OpenedOncePerReplayWindow
    IndInv
    ReplayTakenOnlyByAccept
    OpenedOnlyAlongKeyHolders
    WithinRadius
CHECK_DEADLOCK FALSE
