SPECIFICATION FairUplinkSpec
CONSTANTS
    k1 = k1
    k2 = k2
    Nobody = Nobody
    NoHandler = NoHandler
    Origins = {1, 2}
    MaxSeq = 1
    C2Keys = {k1, k2}
    Keyring = {k1}
    KeyOf <- OneUnknown
    Handlers = {h1, h2}
    Gateways = {g1, g2}
    SeenLimit = 1
    MaxEvents = 1
    MaxRequests = 3
    MaxRestarts = 0
    MaxCopies = 3
    Faulty = TRUE
INVARIANTS
    UplinkIndInv
    NothingLostInSilence
    PostedOncePerSource
PROPERTIES
    TakenIsSettled
CHECK_DEADLOCK FALSE
