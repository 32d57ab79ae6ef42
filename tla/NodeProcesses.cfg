\* Two robots, a process each, arbitrary elections, broken links.
CONSTANTS
    n1 = n1  n2 = n2  n3 = n3
    t1 = t1  t2 = t2
    Nil = Nil
    Nodes = {n1, n2}
    Txs = {t1, t2}
    Source <- CrossSource
    Dest <- CrossDest
    HashWindow = 1
    Nonces = {0, 1}
    MaxRounds = 2
    MaxSkew = 3
    OneThread = FALSE
    Unanimous = FALSE
SPECIFICATION FairSpec
CHECK_DEADLOCK FALSE
INVARIANTS
    TypeOK
    PreviousIdsExact
    MempoolOffChain
    OwnTransactionsKept
    NoDoubleInclusion
    RequestsCurrent
    PrefixAgreement
    AnswersFit
    LeaderSigned
PROPERTIES
    AppendOnly
    ImplementsLog
    ExchangesEnd
