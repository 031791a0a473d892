SPECIFICATION FairSpec
CONSTANTS
    c1 = c1
    c2 = c2
    SubThread = SubThread
    NoThread = NoThread
    Callers <- OneCaller
    MaxCalls = 1
    MaxMessages = 1
PROPERTIES
    CallReturns
CHECK_DEADLOCK FALSE
