\* Messages arrive in any pieces.
CONSTANTS
    c1 = c1  c2 = c2
    Nil = Nil
    Clients = {c1, c2}
    Server = Server
    Chunk = 2
    Timeout = 2
    RequestSizes = {1, 3}
    AnswerSizes = {1, 3}
    Whole = FALSE
    MaxCalls = 1
SPECIFICATION Spec
CHECK_DEADLOCK FALSE
PROPERTIES
    ShortPacketEnds
