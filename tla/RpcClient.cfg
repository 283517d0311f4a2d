SPECIFICATION FairSpec
CONSTANTS
    c1 = c1  a1 = a1  a2 = a2
    SyncCalls <- Sync1
    AsyncCalls <- Async2
    Deadline <- Sync1
    DoneCap = 1
    Shared = Shared
    NoCall = NoCall
    Receiver = Receiver
    NoReply = NoReply
CHECK_DEADLOCK FALSE
INVARIANTS AtMostOnce WireOwn NoOrphan
PROPERTIES ImplementsPromise CallEnds
