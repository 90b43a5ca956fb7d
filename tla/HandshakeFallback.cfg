SPECIFICATION FairSpec
CONSTANTS
    c1 = c1
    c2 = c2
    Callers <- TwoCallers
    Endpoints = 2
    Transport <- TcpThenUdp
    WrongEndpoints <- SecondEndpoint
    Duplicating = FALSE
    MaxKeys = 2
CHECK_DEADLOCK FALSE
INVARIANTS TypeOK ActiveHasSecret ActiveKeysAgree
PROPERTIES NeverBackToPending StartSessionTerminates
