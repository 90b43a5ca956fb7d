SPECIFICATION FairSpec
CONSTANTS
    Nodes <- MCNodes
    Hops <- MCHops
    Sids <- MCSids
    NoNode = NoNode
    NoKey = NoKey
    Target = "t"
    Scenarios <- MCScenarios
    Content <- MCContent
    RangeSize = 1
    PublishAttempts = 2
INVARIANTS TypeOK RightIngress VirtualKeysAgree CompletedIsExact FailsOnlyWhenDisturbed
PROPERTIES StartEnds CloseReachesBoth DownloadSettles
CHECK_DEADLOCK FALSE
