SPECIFICATION FairNetworkSpec
CONSTANTS
    Nodes <- Four
    Self = "n0"
    Rtt <- Distances
    FallbackRtt = 1
    InitialTtl = 3
    MinRoutes = 1
    Duplicating = FALSE
    MaxBuilds = 1
    MaxFresh = 5
    MaxRestarts = 0
PROPERTIES HopsReleased
