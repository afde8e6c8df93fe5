CONSTANTS
    a = a
    b = b
    c = c
    d = d
    t = t
    u = u
    JobId <- MCJobId
    Template <- MCTemplate
    Jobs <- MCJobs
    ACTIVE_JOBS_MAX = 2
    MaxIssued = 4

SPECIFICATION HSpec

INVARIANTS
    TypeOK
    Consistent
    LookupsAsPromised

PROPERTIES
    OldestLeavesFirst
    KeepsPromise
