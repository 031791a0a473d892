SPECIFICATION FairSpec
CONSTANTS
    Handles = {h1, h2}
    Topics <- TwoTopics
    Matches <- Plain
    Requests <- FewRequests
    NSlots = 3
    MaxFilters = 3
    MaxLosses = 2
    MaxMessages = 1
    Faults <- AllFaults
    None = none
INVARIANTS
    BrokerInStep
    SlotsAreLive
PROPERTIES
    ThreadsReturn
CHECK_DEADLOCK FALSE
