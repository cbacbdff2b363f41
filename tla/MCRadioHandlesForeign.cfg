SPECIFICATION RadioSpec
CONSTANTS
    Programs <- ManyThreads
    Files = {log, socket}
    Numbers <- MCNumbers
    Free = Free
    NoFd = NoFd
INVARIANTS
    OnlyOwnClosed
CHECK_DEADLOCK FALSE
