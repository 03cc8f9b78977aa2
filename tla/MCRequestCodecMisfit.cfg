CONSTANTS
    Words <- MCWords
    MaxTokens = 7
    Templates <- MCTemplates
    Requests <- MCRequests
SPECIFICATION Spec
INVARIANT
    MisfitRefused
