CONSTANTS
    RequestErrors = {"InvalidArgument"}
    Refusals = {"Unavailable"}
    MaxRequests = 1
    MaxResponses = 1
SPECIFICATION Spec
INVARIANT
    ErrorsPassThrough
