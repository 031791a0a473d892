SPECIFICATION FairSpec
CONSTANTS
    Handles = {1, 2}
    c1 = c1
    c2 = c2
    Components = {c1, c2}
    Asks <- FirstAsksC1
    NSlots = 2
    MaxChanges = 2
    Faults <- AllFaults
    None = none
INVARIANTS
    WatchedOnce
    ToldTheTruth
PROPERTIES
    TerminalReported
CHECK_DEADLOCK FALSE
