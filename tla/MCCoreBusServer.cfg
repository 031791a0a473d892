SPECIFICATION FairSpec
CONSTANTS
    h1 = h1
    h2 = h2
    server = server
    r1 = r1
    Server <- server
    NoThread = NoThread
    NoHandle = NoHandle
    Handles <- TwoHandles
    Responders <- OneResponder
    Requests <- AllRequests
    MaxFds = 2
    Chunks = 2
    MaxUpdates = 3
INVARIANTS
    ClientSeesAnswers
    AssertsHold
    EntriesEndOnce
PROPERTIES
    EveryCallReturns
CHECK_DEADLOCK FALSE
