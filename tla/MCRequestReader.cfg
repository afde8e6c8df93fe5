CONSTANTS
    MaxRequests = 4
    MaxJobs = 2
    Cuts = {"middle", "end"}

SPECIFICATION UncutSpec

CHECK_DEADLOCK FALSE

INVARIANTS
    TypeOK

PROPERTIES
    AnswersEveryRequest
