CONSTANTS
    s1 = s1
    s2 = s2
    h1 = h1
    h2 = h2
    Session <- TwoMiners
    JobId <- Heights
    Offers <- Blocks
    Assembled <- Both
    Shares <- MCShares
    ACTIVE_JOBS_MAX = 2
    MAX_RECENT = 1
    MaxShares = 2

SPECIFICATION Spec

INVARIANTS
    TypeOK
    Accounted
    BlocksAreSolutions
    NotStaleWhenFound
    SubmittedIsAccepted

PROPERTIES
    EveryShareAnswered
    FoundBlocksAreSubmitted
