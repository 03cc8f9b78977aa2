CONSTANTS
    Words <- MCWords
    MaxTokens = 8
    Templates <- MCTemplates
    Requests <- MCRequests
SPECIFICATION Spec
INVARIANTS
    TypeOK
    TemplateParsed
    RoundTrip
    SentIsFound
    MessageDelivered
