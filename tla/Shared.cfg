CONSTANTS
    Hops = 2
    MaxOps = 2
SPECIFICATION Spec
CHECK_DEADLOCK FALSE
INVARIANTS
    OrderKept
    SerialWorks
    ReaderHarmless
