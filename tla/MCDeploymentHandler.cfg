SPECIFICATION FairSpec
CONSTANTS
    a = a
    b = b
    d = d
    e = e
    m1 = m1
    m2 = m2
    m3 = m3
    m4 = m4
    m5 = m5
    g1 = g1
    g2 = g2
    None = None
    Inactive = Inactive
    Torn = Torn
    Components <- MCComponents
    Versions <- MCVersions
    Recipe <- MCRecipe
    Catalog <- MCCatalog
    Groups <- MCGroups
    Docs <- MCDocs
    Dashed = {d}
    Capacity = 4
    MaxArns = 2
    MaxDequeues = 3
    MaxFaults = 1
    Faults = {"step", "crash", "answer", "broken"}
INVARIANTS
    ResolvedIsConsistent
    SuccessIsTrue
    ActiveHasRecipe
    
PROPERTIES
    NeverStopsItsOwn
    EveryDeploymentIsReported
CHECK_DEADLOCK FALSE
