SPECIFICATION StopFairSpec
CONSTANTS
    j1 = j1
    j2 = j2
    j3 = j3
    r1 = r1
    r2 = r2
    d1 = d1
    d2 = d2
    d3 = d3
    NoJob = NoJob
    Jobs <- ThreeJobs
    Repos <- TwoRepos
    Deliveries <- ThreeDeliveries
    RepoOf <- SharedRepo
    DeliveryOf <- OwnDelivery
    Payload <- AllReviewable
    Concurrency = 1
    MaxStarts = 2
    EventLoop = TRUE
INVARIANTS RepoMutex PendingExact CancelledAreReported
PROPERTIES RefinesQueue StopReturns
