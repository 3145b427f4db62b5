SPECIFICATION Spec
CONSTANTS
    j1 = j1
    j2 = j2
    j3 = j3
    r1 = r1
    r2 = r2
    d1 = d1
    d2 = d2
    d3 = d3
    NoJob = NoJob
    Jobs <- TwoJobs
    Repos <- TwoRepos
    Deliveries <- ThreeDeliveries
    RepoOf <- SharedRepo
    DeliveryOf <- OwnDelivery
    Payload <- AllReviewable
    Concurrency = 2
    MaxStarts = 1
    EventLoop = TRUE
PROPERTY StopReportsAll
