SPECIFICATION Spec
CONSTANTS
    Nodes <- MCNodes
    Dist <- MCDist
    K = 3
    Scenarios <- Disagreeing
    NoNode = NoNode
INVARIANT StoredIsHeld
CHECK_DEADLOCK FALSE
