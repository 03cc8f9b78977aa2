CONSTANTS
    StreamTypes = {"unary", "client", "server"}
    MsgKinds = {"good", "badType"}
    Encodings = {"identity", "known"}
    MaxSends = 2
    MaxReceives = 2
SPECIFICATION Spec
INVARIANT
    NoReadAfterRelease
