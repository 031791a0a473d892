SPECIFICATION FairSpec
CONSTANTS
    c1 = c1
    c2 = c2
    SubThread = SubThread
    NoThread = NoThread
    Callers <- TwoCallers
    MaxCalls = 2
    MaxMessages = 1
INVARIANTS
    ContextInScope
PROPERTIES
    OnlyWhileOpen
    AnsweredReturns
CHECK_DEADLOCK FALSE
