SPECIFICATION Spec
CONSTANTS
    j1 = j1
    j2 = j2
    j3 = j3
    h1 = h1
    h2 = h2
    h3 = h3
    base = base
    fork = fork
    NoJob = NoJob
    NoUrl = NoUrl
    Mixed = Mixed
    Commits = {h1, h2, h3}
    MaxKills = 2
    Jobs <- JobsDef
    HeadOf <- HeadDef
    UrlOf <- UrlDef
    ByRef <- ByRefDef
INVARIANTS ReviewsOwnHead ReviewsWithoutToken NoTokenAtRest FirstFailureKept
