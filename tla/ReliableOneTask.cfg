SPECIFICATION FairSpec
CONSTANTS
    h1 = h1
    h2 = h2
    Handlers <- OneHandler
    MaxMessages = 2
    MaxAttempts = 2
    Replying <- ReplyingToNone
    MaxStateChanges = 1
INVARIANTS TypeOK InOrderDispatch
PROPERTIES EverySendSettles ImplementsChannel
