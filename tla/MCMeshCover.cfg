SPECIFICATION FairSpec
CONSTANTS
    n1 = n1
    n2 = n2
    n3 = n3
    n4 = n4
    k1 = k1
    k2 = k2
    NoKey = NoKey
    Broadcast = Broadcast
    Nodes = {n1, n2, n3, n4}
    CryptoKeys = {k1, k2}
    Ttl <- TtlTwo
    MeshKey <- KeylessN2
    E2EKey <- E2EFromN1
    InboundKeys <- RingOfN4
    Links <- Square
    Traffic <- CoverTraffic
    Dist <- Distances
    SeenLimit = 1
    ReplayLimit = 1
    MaxSeq = 3
    InitialSeqs = {3}
    Lossy = FALSE
    RxLimit = 8
    MaxRoutes = 2
    MaxRestarts = 0
PROPERTIES
    EventuallyCovered
    StormDies
CHECK_DEADLOCK FALSE
