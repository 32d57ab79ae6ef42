\* One loop, four robots that start a vote with different candidates.
CONSTANTS
    n1 = n1  n2 = n2  n3 = n3  n4 = n4
    Nil = Nil
    Suspects = {}  FirstByzantine = n1  Forged = Forged
    Inf = 1000000
    Nodes = {n1, n2, n3, n4}
    Peers <- Mesh
    Order <- Order4
    Sigs <- ThreeSigs
    BlockPeriod = 100
    VoteInterval = 20
    NumNeighbours = 3
    MaxRecentLeaders = 7
    ScanTicks = {50}
    MaxTime = 300
    MaxLead = 1
    SameScan = FALSE
    LinkFaults = FALSE
    OneThread = TRUE
SPECIFICATION Spec
CHECK_DEADLOCK FALSE
INVARIANTS
    SameLeader
PROPERTIES
    OutcomeConsistent
