CONSTANTS
    RequestErrors = {"InvalidArgument"}
    Refusals = {"Unavailable", "Status"}
    MaxRequests = 2
    MaxResponses = 2
SPECIFICATION FairSpec
INVARIANTS
    TypeOK
    CompleteSuccess
PROPERTIES
    FailureEndsCall
    PumpStops
