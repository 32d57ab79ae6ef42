\* Two robots, a process each, links that break.
CONSTANTS
    n1 = n1  n2 = n2  n3 = n3  n4 = n4
    Nil = Nil
    Suspects = {}  FirstByzantine = n1  Forged = Forged
    Inf = 1000000
    Nodes = {n1, n2}
    Peers <- Mesh
    Order <- Order2
    Sigs <- TwoSigs
    BlockPeriod = 2
    VoteInterval = 0
    NumNeighbours = 3
    MaxRecentLeaders = 2
    ScanTicks = {1, 2}
    MaxTime = 12
    MaxLead = 1
    SameScan = FALSE
    LinkFaults = TRUE
    OneThread = FALSE
SPECIFICATION Spec
CHECK_DEADLOCK FALSE
INVARIANTS
    TypeOK
PROPERTIES
    ServerEndsWithoutSignature
