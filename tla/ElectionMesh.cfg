\* One loop, four robots in range of each other, the constants of the code;
\* the last two may be Byzantine.
CONSTANTS
    n1 = n1  n2 = n2  n3 = n3  n4 = n4
    Nil = Nil
    Suspects = {n3, n4}  FirstByzantine = n3  Forged = Forged
    Inf = 1000000
    Nodes = {n1, n2, n3, n4}
    Peers <- Mesh
    Order <- Order4
    Sigs <- TwoSigs
    BlockPeriod = 100
    VoteInterval = 20
    NumNeighbours = 3
    MaxRecentLeaders = 7
    ScanTicks = {50}
    MaxTime = 600
    MaxLead = 1
    SameScan = TRUE
    LinkFaults = FALSE
    OneThread = TRUE
SPECIFICATION FairSpec
CHECK_DEADLOCK FALSE
INVARIANTS
    VotesCounted
    LeaderOfRound
    OneCreator
PROPERTIES
    RoundsComplete
