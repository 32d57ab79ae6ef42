\* Three robots that relay one transaction.
CONSTANTS
    n1 = n1  n2 = n2  n3 = n3
    t1 = t1  t2 = t2
    Nil = Nil
    Nodes = {n1, n2, n3}
    Txs = {t1}
    Source <- RelaySource
    Dest <- RelayDest
    HashWindow = 5
    Nonces = {0}
    MaxRounds = 1
    MaxSkew = 1
    OneThread = FALSE
    Unanimous = FALSE
SPECIFICATION Spec
CHECK_DEADLOCK FALSE
INVARIANTS
    RelayPathSimple
    CompletedCopiesAgree
