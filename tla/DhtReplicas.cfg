SPECIFICATION Spec
CONSTANTS
    Nodes <- MCNodes
    Dist <- MCDist
    K = 3
    Scenarios <- MCScenarios
    NoNode = NoNode
INVARIANTS TypeOK StoredIsHeld ReadsSeeStored ReplicasConverge NoRequestLoops
CHECK_DEADLOCK FALSE
