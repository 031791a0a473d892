SPECIFICATION Spec
CONSTANTS
    t1 = t1
    t2 = t2
    NoThread = NoThread
    Threads <- MCThreads
    MaxFds = 2
    GenMod = 2
    Fds = {3, 4}
    MaxConns = 3
    MaxUses = 3
SYMMETRY Symmetry
INVARIANTS
    FdOwnedOnce
    HandleReachesItsConnection
    TransferStaysOnConnection
CHECK_DEADLOCK FALSE
