\* Two goroutines call; the server sends a few messages, and the connection may be lost.
SPECIFICATION FairSpec
CONSTANTS
    main = main
    other = other
    Callers = {main, other}
    Calls <- MixCalls
    Budget <- MixBudget
    MaxMessages = 2
    MaxReads = 2
    MayClose = TRUE
CHECK_DEADLOCK FALSE
INVARIANTS
    TypeOK
    SameNumbers
    OwnReplies
PROPERTIES
    CallsReturn
