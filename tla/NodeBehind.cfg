\* Two robots, unanimous elections, no guarantee that a round synchronises.
CONSTANTS
    n1 = n1  n2 = n2  n3 = n3
    t1 = t1  t2 = t2
    Nil = Nil
    Nodes = {n1, n2}
    Txs = {t1, t2}
    Source <- CrossSource
    Dest <- CrossDest
    HashWindow = 5
    Nonces = {0}
    MaxRounds = 2
    MaxSkew = 1
    OneThread = FALSE
    Unanimous = TRUE
SPECIFICATION Spec
CHECK_DEADLOCK FALSE
INVARIANTS
    SingleBlockAnswers
