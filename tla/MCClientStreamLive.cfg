CONSTANTS
    StreamTypes = {"unary", "client", "server"}
    MsgKinds = {"good", "badType"}
    Encodings = {"known"}
    MaxSends = 2
    MaxReceives = 1
SPECIFICATION FairSpec
PROPERTIES
    CtxUnblocks
    CloseReturns
    EofHasVerdict
