CONSTANTS
    MaxRequests = 2
    MaxJobs = 1
    Cuts = {"end"}

SPECIFICATION Spec

CHECK_DEADLOCK FALSE

PROPERTIES
    RequestsAreAnswered
