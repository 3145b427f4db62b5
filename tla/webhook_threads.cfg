SPECIFICATION FairSpec
CONSTANTS
    j1 = j1
    j2 = j2
    j3 = j3
    r1 = r1
    r2 = r2
    d1 = d1
    d2 = d2
    d3 = d3
    NoJob = NoJob
    Jobs <- ThreeJobs
    Repos <- TwoRepos
    Deliveries <- ThreeDeliveries
    RepoOf <- SharedRepo
    DeliveryOf <- Redelivered
    Payload <- OneDraft
    Concurrency = 2
    MaxStarts = 1
    EventLoop = FALSE
INVARIANT NoStaleInFlight
PROPERTY RefinesFairQueue
