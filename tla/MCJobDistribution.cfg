CONSTANTS
    s1 = s1
    s2 = s2
    h1 = h1
    h2 = h2
    Session <- TwoMiners
    JobId <- Heights
    Offers <- Refresh
    CAPACITY = 1
    ACTIVE_JOBS_MAX = 2

SPECIFICATION HSpec

INVARIANTS
    TypeOK
    NoLostUpdate
    AtMostOneActive

PROPERTIES
    Converges
    RegistrySettles
    SilenceIsMadeUpFor
