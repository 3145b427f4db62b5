SPECIFICATION FairSpec
CONSTANTS
    a = a
    b = b
    c = c
    d = d
    Shas <- MCShas
    FirstSha = c
    Pages <- MCPages
    LastFull <- MCLastFull
    MaxAttempts = 3
INVARIANT SnapshotWhole
PROPERTY FetchEnds
