CONSTANTS
    MaxBody = 2
    MaxCalls = 5
    Marks = {m1, m2}
SPECIFICATION HandlerSpec
INVARIANTS
    HandlerTypeOK
    FailureVisible
    AnsweredOnce
    EncodingHonest
    RequestWhole
    MetadataArrives
    VerdictKept
PROPERTY
    OneStatusLine
