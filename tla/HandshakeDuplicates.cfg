SPECIFICATION Spec
CONSTANTS
    c1 = c1
    c2 = c2
    Callers <- OneCaller
    Endpoints = 1
    Transport <- Udp
    WrongEndpoints <- NoEndpoint
    Duplicating = TRUE
    MaxKeys = 2
CHECK_DEADLOCK FALSE
INVARIANT ActiveKeysAgree
