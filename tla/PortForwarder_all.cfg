SPECIFICATION FairSpec
CONSTANTS
    c1 = c1
    c2 = c2
    Conns <- TwoConns
    MaxChunks = 1
    AcceptErrors = TRUE
INVARIANTS TypeOK DroppedIsClosed NothingIsCutOff
PROPERTY ThreadsEnd
