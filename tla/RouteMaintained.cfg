SPECIFICATION FairSpec
CONSTANTS
    Nodes <- Four
    Self = "n0"
    Rtt <- Distances
    FallbackRtt = 1
    InitialTtl = 3
    MinRoutes = 1
    Duplicating = FALSE
    MaxBuilds = 2
    MaxFresh = 5
    MaxRestarts = 1
INVARIANTS TypeOK ActiveRouteIsConnected WalkBounded PendingBounded
PROPERTIES StatusAdvances PendingSettles
