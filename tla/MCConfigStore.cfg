SPECIFICATION Spec
CONSTANTS
    Names = {"a", "b"}
    Values = {"v", "w", "big"}
    Times = {1, 2, 3}
    Oversized = {"big"}
    Requests <- Writes
    ReadPaths <- Reads
    ConfigFiles <- Files
    MaxDepth = 2
    MaxWrites = 2
    MaxHandles = 2
    MaxCrashes = 1
    Faults = {"insert", "create"}
INVARIANTS
    StoreIsATree
    AcknowledgedIsStored
PROPERTIES
    TimeNeverGoesBack
    ImplementsTree
CHECK_DEADLOCK FALSE
