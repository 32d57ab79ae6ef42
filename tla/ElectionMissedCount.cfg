\* One loop, three robots: two votes in each collection.
CONSTANTS
    n1 = n1  n2 = n2  n3 = n3  n4 = n4
    Nil = Nil
    Suspects = {}  FirstByzantine = n1  Forged = Forged
    Inf = 1000000
    Nodes = {n1, n2, n3}
    Peers <- Mesh
    Order <- Order3
    Sigs <- TwoSigs
    BlockPeriod = 100
    VoteInterval = 20
    NumNeighbours = 3
    MaxRecentLeaders = 7
    ScanTicks = {50}
    MaxTime = 300
    MaxLead = 1
    SameScan = TRUE
    LinkFaults = FALSE
    OneThread = TRUE
SPECIFICATION Spec
CHECK_DEADLOCK FALSE
INVARIANTS
    VotesCounted
