SPECIFICATION Spec
CONSTANTS
    Origins = {1, 2}
    MaxSeq = 1
    C2Keys = {k1, k2}
    Keyring = {k1}
    Handlers = {h1, h2}
    Nobody = Nobody
    MaxEvents = 1
    MaxRequests = 4
    MaxRestarts = 1
INVARIANTS
    IndInv
    StoredOncePerHistory
    AcknowledgedIsStored
CHECK_DEADLOCK FALSE
