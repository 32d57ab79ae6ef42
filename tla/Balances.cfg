\* Two nodes, five transactions, two of them in a block.
CONSTANTS
    n1 = n1  n2 = n2
    a1 = a1  a2 = a2  a3 = a3  t1 = t1  t2 = t2  t3 = t3  t4 = t4  t5 = t5
    Nodes = {n1, n2}
    Accounts = {a1, a2, a3}
    Txs = {t1, t2, t3, t4, t5}
    Tx <- Transfers
    Funds <- Genesis2
    MaxData = 2
    MaxBlocks = 2
SPECIFICATION Spec
SYMMETRY Swap
CHECK_DEADLOCK FALSE
INVARIANTS
    OnlyNegativeOverdraws
    MoneyKept
    StateIsReplay
    CallsOnce
