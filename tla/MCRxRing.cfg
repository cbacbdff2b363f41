SPECIFICATION FairSpec
CONSTANTS
    RingSize = 3
    KernelLimit = 4
    MaxArrivals = 6
INVARIANTS
    IndInv
PROPERTIES
    ImplementsQueue
    NothingStranded
CHECK_DEADLOCK FALSE
