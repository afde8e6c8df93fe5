CONSTANTS
    s1 = s1
    s2 = s2
    h1 = h1
    h2 = h2
    Session <- TwoMiners
    JobId <- Heights
    Offers <- Blocks
    CAPACITY = 1
    Assembled <- Both
    Shares <- Solutions
    ACTIVE_JOBS_MAX = 2
    MAX_RECENT = 1
    MaxShares = 1

SPECIFICATION HSpec

INVARIANTS
    TypeOK
    OwnWorkIsKnown
    OwnBlocksAreSubmitted

PROPERTIES
    PartsAreImplemented
