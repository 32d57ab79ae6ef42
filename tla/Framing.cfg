\* Messages arrive at once or not at all; a server thread that may be stopped.
CONSTANTS
    c1 = c1  c2 = c2
    Nil = Nil
    Clients = {c1, c2}
    Server = Server
    Chunk = 2
    Timeout = 2
    RequestSizes = {1, 2, 3}
    AnswerSizes = {2, 3}
    Whole = TRUE
    MaxCalls = 2
SPECIFICATION FairSpec
CHECK_DEADLOCK FALSE
INVARIANTS
    OnlyHandlersRaise
PROPERTIES
    ImplementsRpc
    NobodyStuck
