SPECIFICATION RadioSpec
CONSTANTS
    Programs <- OneThread
    Files = {log, socket}
    Numbers <- MCNumbers
    Free = Free
    NoFd = NoFd
INVARIANTS
    RadioAccounted
    OnlyOwnClosed
CHECK_DEADLOCK FALSE
