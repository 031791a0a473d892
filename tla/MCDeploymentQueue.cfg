SPECIFICATION FairSpec
CONSTANTS
    bus = bus
    jobs = jobs
    i1 = i1
    i2 = i2
    i3 = i3
    d1 = d1
    d2 = d2
    None = None
    Garbled = Garbled
    Enqueuers <- TwoEnqueuers
    Ids <- ThreeIds
    Docs <- TwoDocs
    QueueSize = 2
    MaxEnqueues = 4
INVARIANTS
    HandledNotOverwritten
PROPERTIES
    ImplementsFifo
    AcceptedStarts
