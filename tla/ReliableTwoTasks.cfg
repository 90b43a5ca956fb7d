SPECIFICATION Spec
CONSTANTS
    h1 = h1
    h2 = h2
    Handlers <- TwoHandlers
    MaxMessages = 2
    MaxAttempts = 2
    Replying <- ReplyingToAll
    MaxStateChanges = 2
SYMMETRY HandlerSymmetry
INVARIANTS AtMostOnceDispatch AttemptsBounded RepliesAreFromDispatched
