\* One loop, four robots in range of each other, the constants of the code.
CONSTANTS
    n1 = n1  n2 = n2  n3 = n3  n4 = n4
    t1 = t1  t2 = t2  t3 = t3
    Nil = Nil
    Inf = 1000000
    Nodes = {n1, n2, n3, n4}
    Txs = {t1, t2, t3}
    Source <- Routes
    Dest <- Targets
    HashWindow = 5
    Nonces = {0}
    Peers <- Mesh
    Order <- Order4
    BlockPeriod = 100
    VoteInterval = 20
    SyncInterval = 20
    NumNeighbours = 3
    MaxRecentLeaders = 7
    MaxTime = 600
    Value <- HopValue
    SendTicks <- Ticks
SPECIFICATION FairSpec
CHECK_DEADLOCK FALSE
INVARIANTS
    NoFork
    WinnerPerBlock
    ServersUp
    LeaderRelayed
    OnlyIdleRoundsStop
PROPERTIES
    ImplementsNode
    RoundDelivers
    RoundsComplete
