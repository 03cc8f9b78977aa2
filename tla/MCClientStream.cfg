CONSTANTS
    StreamTypes = {"unary", "client", "server"}
    MsgKinds = {"good", "badType", "badURL", "badRequest", "badBody"}
    Encodings = {"identity", "known", "unknown"}
    MaxSends = 3
    MaxReceives = 2
SPECIFICATION Spec
INVARIANTS
    TypeOK
    UploadComplete
    ReadsPublishedResponse
    NoOrphanBody
    SendBlamesMessage
    FailedSendDecides
PROPERTIES
    OutcomeOnce
    DecompressorSpared
    ImplementsOutcome
