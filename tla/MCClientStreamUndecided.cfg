CONSTANTS
    StreamTypes = {"unary"}
    MsgKinds = {"good"}
    Encodings = {"identity"}
    MaxSends = 3
    MaxReceives = 1
SPECIFICATION Spec
PROPERTY
    RequestOnlyWhileUndecided
