SPECIFICATION FairSpec
CONSTANTS
    Jobs <- TwoJobs
    BadJobs <- NoJobs
    Listeners = {l1, l2}
    SubThread = sub
    Deployer = dep
    QueueSize = 2
    MaxIds = 1
    MaxCloses = 2
    Faults <- NoOverlap
    NoThread = nobody
INVARIANTS
    OneSubscription
    ReportsOwnJob
PROPERTIES
    JobsReported
CHECK_DEADLOCK FALSE
