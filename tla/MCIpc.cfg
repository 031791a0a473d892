CONSTANTS
    None = None
    Conns = {1, 2}
    Slots = {1, 2}
    Subs = {1, 2, 3}
    Rows = {1, 2}
    MaxOpen = 2
    MaxComponents = 2
    MaxDepth = 10
    BadTopics <- MCBadTopics
    MaxConnects = 3
    MaxMessages = 4
    MaxEvents = 1
    Units <- MCUnits
    Openings <- MCOpenings
    Requests <- MCRequests
    Policies <- MCPolicies
    Matches <- MCMatches
SPECIFICATION FairSpec
CHECK_DEADLOCK FALSE
INVARIANTS
    TokenIsTheirs
    StreamsAreKeptApart
    SubscriptionsAgree
PROPERTIES
    PublishReachesAll
    ClientsAreServed
